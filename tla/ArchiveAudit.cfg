\* Two batches of two dates, the first with an exact local copy, and a sample of one.
CONSTANTS
  Batches = {1, 2}
  SampleSize = 1
  Dates = {d1, d2}
  LocalCopy = {1}
  NoBatch = NoBatch
  MaxTrouble = 2
SPECIFICATION AuditSpec
INVARIANTS TypeOK CopySurvives RestoreInv
PROPERTY RestoredAtLast
CHECK_DEADLOCK FALSE
