SPECIFICATION FairSpec
CONSTANTS
  Fds = {2, 3}
  InitialSize = 2
  Users = {f1, f2}
  NoUser = none
  Io = {"READ", "WRITE"}
  Timed = TRUE
  MaxCalls = 2
  MaxGen = 3
CHECK_DEADLOCK FALSE
INVARIANTS
  ContextMatches
PROPERTIES
  CallReturns
