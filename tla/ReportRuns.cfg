\* A scheduled and a manual run whose inputs change meanwhile, with one
\* interruption anywhere.
CONSTANTS
  Schedulers = {s}
  Operators = {o}
  NoProcess = NoProcess
  Formats = {json, parquet}
  RunIds = {r1, r2, r3, r4}
  NoRun = NoRun
  Damaged = Damaged
  CostFiles = {costs, negative}
  Missing = Missing
  Invalid = {negative}
  MaxLedger = 2
  MaxConflicts = 1
  MaxTrouble = 1
SPECIFICATION FairSpec
INVARIANTS PublishedWhole GateHolds SuccessIsPublished PublicationInv
PROPERTIES ImplementsPublishedReport ReportCatchesUp OrphansResolved
CHECK_DEADLOCK FALSE
