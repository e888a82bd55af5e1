\* One thread in the pool; fair scheduling.
CONSTANTS
  Workers = {w1}
  Main = main
  UseCaller = FALSE
  Fibers = {f1, f2}
  AnyThread = any
  NoTask = no_task
  MayMigrate = TRUE
  MaxYields = 1
SPECIFICATION IOFairSpec
PROPERTIES
  StopReturns IOTasksComplete
