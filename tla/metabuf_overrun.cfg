SPECIFICATION Spec
CONSTANTS
  Cap = 3
  MaxNumber = 4
  MaxStart = 1
INVARIANTS
  PopStaysInside
CHECK_DEADLOCK FALSE
