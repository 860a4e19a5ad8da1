SPECIFICATION Spec
CONSTANTS
  Cap = 3
  MaxNumber = 4
  MaxStart = 1
INVARIANTS
  TypeOK
  SetsAreAligned
  NoSetSkipped
  NoFreedInUse
PROPERTIES
  Implements
  OverrunsAtOldest
CHECK_DEADLOCK FALSE
