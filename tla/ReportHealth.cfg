\* Two interruptions anywhere, a cost file that is replaced and put back among
\* them, and requests for the health of the report.
CONSTANTS
  Schedulers = {s}
  Operators = {o}
  NoProcess = NoProcess
  Formats = {json, csv}
  RunIds = {r1, r2, r3, r4}
  NoRun = NoRun
  NoCheck = NoCheck
  Unnamed = {csv}
  Damaged = Damaged
  CostFiles = {costs, negative}
  Missing = Missing
  Invalid = {negative}
  MaxLedger = 1
  MaxConflicts = 0
  MaxTrouble = 2
SPECIFICATION HealthSpec
INVARIANTS HealthInv HealthyWasWhole AlarmHasReason
PROPERTY HealthRecovers
CHECK_DEADLOCK FALSE
