SPECIFICATION Spec
CONSTANTS
  t1 = t1
  t2 = t2
  u1 = u1
  u2 = u2
  Threads <- MCThreads
  Users <- MCUsers
  Acts = {1, 2, 3}
  Caps <- MCCaps
  Batches <- MCBatches
  MaxRequests = 3
SYMMETRY Symmetry
INVARIANTS
  
  AppliedHasApplication
  MembersExist
PROPERTY AtomicRequests
CHECK_DEADLOCK FALSE
