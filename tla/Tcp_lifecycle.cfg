\* Two connections, each in a loop of its own; a user thread sends, callbacks send and shut
\* down, peers go, and the server may be destroyed.  No buffer reaches the mark.
SPECIFICATION Spec
CONSTANTS
  Conns = {c1, c2}
  Messages = {m1, m2}
  sub1 = sub1
  sub2 = sub2
  mainLoop = main
  None = None
  loops_ <- PoolOfTwo
  Users = {u}
  UserOps = {"send"}
  CallbackOps = {"send", "shutdown"}
  ServerDies = TRUE
  CallersWait = TRUE
  highWaterMark_ = 9
CHECK_DEADLOCK FALSE
SYMMETRY Symmetry
INVARIANTS  PolledConnectionsLive BytesInOrder SentBeforeShutdown
