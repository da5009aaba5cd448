\* Two threads log through two loggers and change them.
SPECIFICATION Spec
CONSTANTS
  Thread = {t1, t2}
  Name = {1, 2}
  Root = 1
  Appender = {stdout, file}
  stdout = stdout
  file = file
  FileAppender = {file}
  Files <- RootFirst
  Patterns <- Given
  DefaultPattern <- MN
  Levels = {1}
  Garbage = {0}
  StartTime = 3
  MaxTime = 6
  MaxOps = 3
  None = None
CHECK_DEADLOCK FALSE
INVARIANTS LinesWhole NoDeadlock
SYMMETRY Threads
