\* Two workers, and the owner takes part inside Stop; fair threads.
CONSTANTS
  Workers = {w1, w2}
  Main = main
  UseCaller = TRUE
  Fibers = {f1, f2}
  AnyThread = any
  NoTask = no_task
  MayMigrate = FALSE
  MaxYields = 1
SPECIFICATION FairSpec
INVARIANTS
  NoFiberLost StopIsComplete ExitIsQuiescent 
PROPERTIES
  StopReturns TasksComplete
