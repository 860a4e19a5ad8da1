SPECIFICATION Spec
CONSTANTS
  c1 = c1
  c2 = c2
  c3 = c3
  c4 = c4
  Conns <- TwoConns
  Ports <- SplitPorts
  Input = Input
  EventsCount = 5
  SampleUnits = 2
  SockCap = 2
  MaxSamples = 2
  RefMod = 2
INVARIANTS
  TypeOK
  WireIsStream
  QueueContinuesWire
  RefExact
  PendingDataWakes
  ClosedClientWakes
  ServedPinsLive
CHECK_DEADLOCK FALSE
