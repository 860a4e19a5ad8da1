SPECIFICATION Spec
CONSTANTS
  HeaderSize = 3
  FloatSize = 1
  ComplexSize = 2
  SampleCounts <- OneToThree
  MaxMessages = 3
INVARIANTS
  TypeOK
  StaysInside
  Framed
  HeaderTellsSize
PROPERTIES
  Implements
  ArrivedIsDelivered
CHECK_DEADLOCK FALSE
