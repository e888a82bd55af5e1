\* Two threads: Stop returns although an event is pending.
CONSTANTS
  Workers = {w1, w2}
  Main = main
  UseCaller = FALSE
  Fibers = {f1, f2}
  AnyThread = any
  NoTask = no_task
  MayMigrate = FALSE
  MaxYields = 1
SPECIFICATION IOSpec
SYMMETRY WorkerAndFiberSymmetry
INVARIANTS
  IOStopIsComplete
