SPECIFICATION Spec
CONSTANTS
  p1 = p1
  m1 = m1
  m2 = m2
  m3 = m3
  Threads <- MCThreads
  Messages <- MCMessages
  Size <- MCSize
  MaxRoom = 2
INVARIANTS
  InterestMatches
PROPERTY ImplementsByteStream
CHECK_DEADLOCK FALSE
