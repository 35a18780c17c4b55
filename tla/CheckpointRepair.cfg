\* Two fair writers; shutdowns spoil the metadata of their checkpoints, which an
\* operator repairs, and a session may end. No retention: what Kafka receives
\* reaches the ledger.
CONSTANTS
  p1 = p1
  Partitions = {p1}
  Writers = {w1, w2}
  NoWriter = NoWriter
  MaxOffset = 2
  MaxBatches = 2
  MaxExpired = 0
  MaxPerTrigger = 2
  Suspect <- NoSuspect
  Torn = Torn
  MaxLost = 2
  MaxSessions = 1
SPECIFICATION LiveSpec
INVARIANTS ResumesInPlace LiveInv
PROPERTIES EventuallyArchived CheckpointFollowsArchive
CHECK_DEADLOCK FALSE
