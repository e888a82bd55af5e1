SPECIFICATION Spec
CONSTANTS
  MaxFd = 2
  MaxObj = 5
  Addrs <- MCAddrs
  NoAddr = no_addr
  NThreads = 2
  RecvTimeout = 1500
  MaxFibers = 5
  Works <- MCWorks
CHECK_DEADLOCK FALSE
INVARIANTS
  FdOwned Serves PeerRight
PROPERTIES
   StopEnds
