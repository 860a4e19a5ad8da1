SPECIFICATION Spec
CONSTANTS
  Channels <- OneOfEach
  Cap = 2
  PipeCap = 2
  MaxNumber = 1
  MaxStart = 1
  MessageEnd = MessageEnd
PROPERTIES
  ClosedInputEnds
CHECK_DEADLOCK FALSE
