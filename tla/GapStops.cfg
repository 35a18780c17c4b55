\* A gap before rows that a repair then recovers, and the writer after it.
CONSTANTS
  p1 = p1
  p2 = p2
  Partitions = {p1}
  Writers = {w1}
  NoWriter = NoWriter
  Operator = Operator
  NoTime <- Nothing
  EventTime <- OneByOne
  MaxOffset = 3
  MaxBatches = 3
  MaxExpired = 2
  MaxPerTrigger = 2
  Suspect <- NoRowSuspect
SPECIFICATION GapSpec
INVARIANT RecoveredGapPasses
CHECK_DEADLOCK FALSE
