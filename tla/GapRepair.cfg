\* One writer and an operator who repairs gaps, both interrupted anywhere; batches
\* and replays touch one partition, the other or both.
CONSTANTS
  p1 = p1
  p2 = p2
  Partitions = {p1, p2}
  Writers = {w1}
  NoWriter = NoWriter
  Operator = Operator
  NoTime <- Nothing
  EventTime <- OneByOne
  MaxOffset = 2
  MaxBatches = 3
  MaxExpired = 0
  MaxPerTrigger = 3
  Suspect <- NoRowSuspect
SPECIFICATION GapSpec
INVARIANTS ObjectsIntact GapInv
CHECK_DEADLOCK FALSE
