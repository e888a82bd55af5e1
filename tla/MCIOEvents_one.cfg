\* One descriptor beyond the initial table; fair threads.
CONSTANTS
  Fds = {2}
  Users = {u1, u2}
  Idlers = {i1, i2}
  InitialSize = 2
  MaxContexts = 2
  MaxAdds = 2
  Used = {"READ", "WRITE"}
  Conditions = {"READ", "HUP"}
SPECIFICATION FairSpec
INVARIANTS
  PendingExact
  EpollMirrors
  WokenOnce
  NoEdgeLost
PROPERTIES
  ReadyIsTriggered
