\* Three connections; buffers of one byte with one in front, extrabuf of one.
SPECIFICATION FairSpec
CONSTANTS
  Channel = {c1, c2, c3}
  c1 = c1
  c2 = c2
  c3 = c3
  Fds = {0, 1}
  MaxSent <- BytesOf
  kCheapPrepend = 1
  kInitialSize = 1
  kExtraSize = 1
  Byte = {0, 1, 2, 3}
  None = None
CHECK_DEADLOCK FALSE
INVARIANTS PollfdsMatch BytesPreserved
PROPERTIES Served
