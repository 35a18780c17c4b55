\* Two writers with checkpoints of their own compete for one partition.
CONSTANTS
  p1 = p1
  p2 = p2
  Partitions = {p1}
  Writers = {w1, w2}
  NoWriter = NoWriter
  MaxOffset = 3
  MaxBatches = 4
  MaxExpired = 1
  MaxPerTrigger = 2
  Suspect <- OneSuspect
SPECIFICATION Spec
INVARIANTS TypeOK NoRowTwice NoHole CommittedIntact EveryRowAccounted OffsetInv FilesInv
PROPERTIES CheckpointFollowsArchive ImplementsContiguousArchive
CHECK_DEADLOCK FALSE
