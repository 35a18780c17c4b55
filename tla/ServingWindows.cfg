\* Both queries, two partitions: contested identities and trips.
CONSTANTS
  v1 = v1
  v2 = v2
  t1 = t1
  p1 = p1
  p2 = p2
  Partitions = {p1, p2}
  Vehicles = {v1, v2}
  Home <- TwoPartitions
  Events <- TwoVehicles
  Early <- LateRestated
  NoTrip = NoTrip
  Prior = Prior
  NoRow = NoRow
  NoTime = NoTime
  MaxRows = 2
  Minute = 2
  Day = 10
  Delay = 2
  IdleAlert = 5
  Step = 1
SPECIFICATION Spec
INVARIANT NoDiscreditedWindow
CHECK_DEADLOCK FALSE
