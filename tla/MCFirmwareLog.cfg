SPECIFICATION LiveSpec
CONSTANTS
  Procs = {p1, p2}
  Devices = {1, 2}
  TxtLimit = 1
  MaxFaults = 1
  MaxEvents = 3
  None = None
  Capacity = 2
  Backlog = 1
  Want = 1
INVARIANTS LogTypeOK OnlyTheLeaderActs NothingMissed
PROPERTIES PortTaken CancelEnds RoleCatchesUp DevicesAdvertised FollowerCatchesUp
CONSTRAINT LinesOrDevices
CHECK_DEADLOCK FALSE
