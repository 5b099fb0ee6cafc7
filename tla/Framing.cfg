SPECIFICATION FrSpec
CONSTANTS
  Radix = 2
  MaxBody = 2
  Bodies <- MCBodies
  MaxSent = 3
INVARIANTS
  FramesAsSent
  NothingLeftBehind
PROPERTY ProperIsHandled
CHECK_DEADLOCK FALSE
