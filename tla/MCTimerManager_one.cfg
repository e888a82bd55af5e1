\* One idle thread, one other thread that uses timers.
CONSTANTS
  Threads = {c1, u1}
  Collectors = {c1}
  Timers = {1, 2}
  NoTimer = no_timer
  Periods = {0, 2}
  Boot = 0
  MaxTime = 2
  Hour = 8
  Wrap = 16
SPECIFICATION Spec
INVARIANTS
  CancelFindsTimer 
PROPERTIES
  HandedOutOnce 
