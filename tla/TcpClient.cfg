SPECIFICATION FairSpec
CONSTANTS
  c1 = c1
  c2 = c2
  Conns <- MCConns
INVARIANTS
  CarefulIsSafe
PROPERTIES
  ImplementsConnectionLife
  StartReturns
  JoinReturns
  WaiterServed
CHECK_DEADLOCK FALSE
