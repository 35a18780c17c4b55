\* The database may drop the session that holds the lock.
CONSTANTS
  p1 = p1
  p2 = p2
  Partitions = {p1}
  Writers = {w1, w2}
  NoWriter = NoWriter
  MaxOffset = 2
  MaxBatches = 3
  MaxExpired = 1
  MaxPerTrigger = 2
  Suspect <- OneSuspect
SPECIFICATION LossySpec
INVARIANT CommittedIntact
CHECK_DEADLOCK FALSE
