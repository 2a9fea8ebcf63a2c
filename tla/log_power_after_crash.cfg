SPECIFICATION Spec
CONSTANTS
  FirstSeq = 3
  Cap = 4
  Sizes = {1, 2}
  HeaderSize = 1
  FaultModels = {{"process", "power"}}
  MaxAppends = 3
  MaxFaults = 2
  MaxForks = 0
  NoLine = NoLine
INVARIANT NeverCorrupt
CHECK_DEADLOCK FALSE
