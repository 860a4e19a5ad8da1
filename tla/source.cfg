SPECIFICATION DrainSpec
CONSTANTS
  c1 = c1
  c2 = c2
  Conns <- TwoConns
  Ports <- SourcePorts
  Input = Input
  EventsCount = 5
  SampleUnits = 1
  SockCap = 1
  MaxSamples = 3
  RefMod = 256
  PipeCap = 2
INVARIANTS
  TypeOK
  WireIsStream
  OneOwner
  ListsLiveUntilFailure
PROPERTIES
  RecordedIsFanned
  DeliversIfAllStay
CHECK_DEADLOCK FALSE
