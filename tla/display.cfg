SPECIFICATION Spec
CONSTANTS
  Channels <- ThreeChannels
  Cap = 2
  PipeCap = 2
  MaxNumber = 3
  MaxStart = 1
  MessageEnd = MessageEnd
INVARIANTS
  TypeOK
  DrawnIsCompleted
  PipeContinuesBuffer
  CompleteIsHandedOn
PROPERTIES
  CompleteIsDrawn
CHECK_DEADLOCK FALSE
