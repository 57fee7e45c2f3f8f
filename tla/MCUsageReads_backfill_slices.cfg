CONSTANTS
  TicksPerSecond = 2
  Midnight <- Midnights
  MaxYear = 2
  Open = open
  Span = {1, 2, 3}
  User = {1, 2, 3}
  Guest = {1}
  Account = {2}
  Room = {1, 2}
  Tenant = {"t1", "t2"}
  Subject <- Subjects
  RoomOf <- Rooms
  ConnOf <- Connections
  TenantOf <- Unplaced
  GrantOf <- Ungranted
  Pseudonym <- Digests
  Month <- Months
  Capable <- Readers
  MonthsShown = 2
  Retention = 3
  RoomsPerRun = 1
  MaxTime = 2
  Unscoped = unscoped
SPECIFICATION FillSpec
CHECK_DEADLOCK FALSE
PROPERTY
  SlicesReachEveryRoom
