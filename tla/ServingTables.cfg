\* The serving query alone, one partition, four rows in every cut into batches;
\* trips have events on two dates.
CONSTANTS
  v1 = v1
  v2 = v2
  t1 = t1
  p1 = p1
  p2 = p2
  Partitions = {p1}
  Vehicles = {v1}
  Home <- OnePartition
  Events <- OneVehicle
  Early <- LateFare
  NoTrip = NoTrip
  Prior = Prior
  NoRow = NoRow
  NoTime = NoTime
  MaxRows = 4
  Minute = 2
  Day = 2
  Delay = 2
  IdleAlert = 5
  Step = 1
SPECIFICATION ServingSpec
INVARIANTS TypeOK TablesMatchReference StateUncontested EveryRowHandled LayersAgree ContestedFlagged ProfitNeedsEveryTick MergeInv
PROPERTY StateNeverRegresses
CHECK_DEADLOCK FALSE
