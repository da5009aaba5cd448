\* Two threads, small and large blocks; blocks too large for the lists are kept.
SPECIFICATION Spec
CONSTANTS
  Threads = {t1, t2}
  Requests <- AllRequests
  Gaps <- TwoGaps
  FreesHuge = FALSE
  MaxHeld = 2
  MaxPage = 300
  MaxSpans = 2
CHECK_DEADLOCK FALSE
SYMMETRY Symmetry
INVARIANTS  FreeFindsClass ObjectsInOnePlace FreeSpansListed
PROPERTY NoPageLost
