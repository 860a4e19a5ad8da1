SPECIFICATION Spec
CONSTANTS
  GraphCount = 2
  SamplesOf <- TwoGraphs
  Padding = 1
  Widths <- SomeWidths
  MaxFrames = 3
  MaxEvents = 2
INVARIANTS
  TypeOK
  ListWhole
  RenderIsFresh
  LineStaysInside
PROPERTIES
  UnlockedIsShown
  EventsWaitForData
CHECK_DEADLOCK FALSE
