CONSTANTS
  TicksPerSecond = 1
  Midnight <- Midnights
  MaxYear = 2
  Open = open
  Span = {1, 2, 3}
  User = {1, 2, 3}
  Guest = {}
  Account = {}
  Room = {1, 2}
  Tenant = {"t1"}
  Subject <- Subjects
  RoomOf <- Rooms
  ConnOf <- Rooms
  TenantOf <- Unplaced
  GrantOf <- Ungranted
  Pseudonym <- Digests
  Month = {}
  Capable = {}
  MonthsShown = 1
  Retention = 1
  RoomsPerRun = 1
  MaxTime = 2
  Unscoped = unscoped
  PageLimit = 1
  Export <- Exports
  Everything = everything
SPECIFICATION WalkSpec
CHECK_DEADLOCK FALSE
INVARIANTS
  WalkIsComplete
  RowIsShownOnce
