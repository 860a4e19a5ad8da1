SPECIFICATION Spec
CONSTANTS
  c1 = c1
  c2 = c2
  c3 = c3
  c4 = c4
  Conns <- FourConns
  Ports <- FftPorts
  Input = Input
  EventsCount = 2
  SampleUnits = 1
  SockCap = 1
  MaxSamples = 1
  RefMod = 4
SYMMETRY Symmetry
PROPERTIES
  OverflowsOnlyAfterFailure
CHECK_DEADLOCK FALSE
