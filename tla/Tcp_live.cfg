\* No pool: one connection in mainLoop, for which anybody calls anything.
SPECIFICATION FairSpec
CONSTANTS
  Conns = {c1}
  Messages = {m1}
  sub1 = sub1
  sub2 = sub2
  mainLoop = main
  None = None
  loops_ <- NoPool
  Users = {u}
  UserOps = {"send", "shutdown", "forceClose"}
  CallbackOps = {"send", "shutdown", "forceClose"}
  ServerDies = FALSE
  CallersWait = TRUE
  highWaterMark_ = 2
CHECK_DEADLOCK FALSE
PROPERTIES  ShutdownCompletes
