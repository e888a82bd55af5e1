SPECIFICATION UtilSpec
CONSTANTS
  Base = 2
  MaxBlocks = 3
  Byte = {0, 1}
  Undef = undef
  MaxLen = 3
  ByteBits = 3
  SizeOf <- MCSizeOf
  HostLittle = TRUE
  V4Bits = 4
  V6Bytes = 3
  V6Groups = 8
  V6Bits = 2
  Inputs <- MCInputs
  NoInput = no_input
  Main = main
  Root = root
  Stale = stale
  Unscheduled = {c, d}
  Tasks = {t}
  Threads = {t1, t2, t3}
  Results = {0, 1, 256}
  Signals = {9}
  MaxForks = 3
CHECK_DEADLOCK FALSE
INVARIANTS
     ThreadsRight
PROPERTIES
  IsFlatBuffer
