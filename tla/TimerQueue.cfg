SPECIFICATION FairSpec
CONSTANTS
  u1 = u1
  a1 = a1
  a2 = a2
  Users <- MCUsers
  Addrs <- MCAddrs
  MaxTimers = 3
  MaxDelay = 2
  Interval = 1
  MaxQueue = 1
INVARIANTS
  TypeOK
  SetsAgree
  HeapOwned
  ArmedInTime
PROPERTIES
  CancelOfWaitingIsFinal
  EveryTimerFires
