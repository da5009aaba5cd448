\* A client used by another thread, with and without automatic reconnection.
SPECIFICATION FairSpec
CONSTANTS
  Sockets = {s1, s2}
  Results = {"0", "EINTR", "ECONNREFUSED", "EACCES", "self"}
  Retries = {TRUE, FALSE}
  OwnerOps = {"connect", "disconnect", "stop"}
  MaxConnects = 1
  MaxCalls = 2
  DestroyedIn = {"loop", "owner"}
  CarefulOwner = TRUE
  None = None
  highWaterMark_ = 2
CHECK_DEADLOCK FALSE
INVARIANTS  SocketsOwned ConnectionKnown StopHolds
PROPERTIES Reconnects
