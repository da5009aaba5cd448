\* Two client threads, three functors, one I/O channel; poll need not time out.
SPECIFICATION FairSpec
CONSTANTS
  LoopThread = loop
  Threads = {loop, t1, t2}
  Functors = {f1, f2, f3}
  Channels = {io}
  wakeupChannel_ = wakeup
INVARIANTS NoLostWakeup NoLostQuit
PROPERTIES RefinesTaskQueueSafety RefinesTaskQueueFairness PromptRun QuitReturns
