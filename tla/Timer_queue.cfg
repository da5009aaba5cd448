\* Two timers at two addresses; a second has two microseconds.
SPECIFICATION FairSpec
CONSTANTS
  Users = {u}
  Addresses = {1, 2}
  Delays = {0, 1}
  Intervals = {1}
  kMicroSecondsPerSecond = 2
  MaxTimers = 2
  MaxClock = 5
CHECK_DEADLOCK FALSE
INVARIANTS OwnedOnce RunsAsAsked CancelledIsGone TimerfdArmed
PROPERTY EveryTimerRuns
