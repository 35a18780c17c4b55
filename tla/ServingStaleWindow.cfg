\* A corrected window and an event that is accepted after the correction.
CONSTANTS
  v1 = v1
  v2 = v2
  t1 = t1
  p1 = p1
  p2 = p2
  Partitions = {p1}
  Vehicles = {v1}
  Home <- OnePartition
  Events <- OneWindow
  Early <- NoEvent
  NoTrip = NoTrip
  Prior = Prior
  NoRow = NoRow
  NoTime = NoTime
  MaxRows = 3
  Minute = 2
  Day = 10
  Delay = 2
  IdleAlert = 5
  Step = 1
SPECIFICATION Spec
INVARIANT CorrectedWindowsComplete
CHECK_DEADLOCK FALSE
