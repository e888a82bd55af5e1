\* Two threads in the pool; the owner only makes and stops the manager.
CONSTANTS
  Workers = {w1, w2}
  Main = main
  UseCaller = FALSE
  Fibers = {f1, f2}
  AnyThread = any
  NoTask = no_task
  MayMigrate = TRUE
  MaxYields = 1
SPECIFICATION IOSpec
SYMMETRY WorkerAndFiberSymmetry
INVARIANTS
  WorkInOnePlace
