\* Nobody but the destructor quits the loop.
SPECIFICATION EltSpec
CONSTANTS
  LoopThread = loop
  Owner = owner
  Threads = {loop, owner, t1}
  Functors = {f1}
  Channels = {io}
  wakeupChannel_ = wakeup
CHECK_DEADLOCK FALSE
INVARIANTS StartLoopGivesLoop NoThreadOutlivesObject
PROPERTIES StartLoopTerminates DestructorEndsRunningLoop
