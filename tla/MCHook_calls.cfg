SPECIFICATION Spec
CONSTANTS
  Fds = {2}
  InitialSize = 2
  Users = {f1, f2}
  NoUser = none
  Io = {"READ"}
  Timed = TRUE
  MaxCalls = 4
  MaxGen = 2
SYMMETRY HookSymmetry
CHECK_DEADLOCK FALSE
INVARIANTS
  NeverBlocks WaiterReachable AddAssertion
PROPERTIES
  ConnectMeansConnected TimeoutIsOwn
