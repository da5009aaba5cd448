\* Two callers, two providers of one service; a provider may die and start again.
SPECIFICATION Spec
CONSTANTS
  Provider = {p1, p2}
  p1 = p1
  p2 = p2
  Service = {User}
  User = User
  Login = Login
  Method = {Login}
  Asked <- AskedOf
  Caller = {c1, c2}
  c1 = c1
  NewChannel = TRUE
  MaxRuns <- RunsOf
  MaxCalls <- CallsOf
  MaxCrashes = 1
  Pieces = FALSE
  RestartEarly = TRUE
  EarlyEvent = FALSE
  None = None
CHECK_DEADLOCK FALSE
INVARIANTS AddressesFresh RunsWhatWasAsked AnswersOwnRequest NoneForgotten
