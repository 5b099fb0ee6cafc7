SPECIFICATION Spec
CONSTANTS
  InitialSize = 3
  CheapPrepend = 2
  ExtraSize = 2
  Byte <- MCByte
  Newline = 2
  Data <- MCData
  MaxBytes = 6
INVARIANT TypeOK
PROPERTIES
  ImplementsByteQueue
  GrowsOnlyWhenFull
