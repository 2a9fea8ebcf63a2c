SPECIFICATION Spec
CONSTANTS
  FirstSeq = 3
  Cap = 4
  Sizes = {1, 2}
  HeaderSize = 1
  FaultModels = {{"process", "io"}, {"power"}}
  MaxAppends = 4
  MaxFaults = 2
  MaxForks = 1
  NoLine = NoLine
INVARIANT AckedReadable
INVARIANT PositionExact
INVARIANT ForkHistoryStable
PROPERTY ImplementsDurableLog
CHECK_DEADLOCK FALSE
