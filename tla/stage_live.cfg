SPECIFICATION DrainSpec
CONSTANTS
  c1 = c1
  c2 = c2
  c3 = c3
  c4 = c4
  Conns <- TwoConns
  Ports <- FftPorts
  Input = Input
  EventsCount = 5
  SampleUnits = 2
  SockCap = 1
  MaxSamples = 2
  RefMod = 256
PROPERTIES
  ShutdownCompletes
  ClosedClientIsDropped
  DeliversIfAllStay
CHECK_DEADLOCK FALSE
