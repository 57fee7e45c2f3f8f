CONSTANTS
  TicksPerSecond = 2
  Midnight <- Midnights
  MaxYear = 2
  Open = open
  Span = {1, 2, 3}
  User = {1, 2, 3}
  Guest = {1}
  Account = {2}
  Room = {1, 2}
  Tenant = {"t1", "t2"}
  Subject <- Subjects
  RoomOf <- Rooms
  ConnOf <- Connections
  TenantOf <- Tenants
  GrantOf <- Grants
  Pseudonym <- Digests
  Month <- Months
  Capable <- Readers
  MonthsShown = 2
  Retention = 3
  RoomsPerRun = 2
  MaxTime = 4
  Unscoped = unscoped
SPECIFICATION Spec
CHECK_DEADLOCK FALSE
INVARIANTS
  TypeOK
  MeterIsPresence
  UsageIsTheTenants
  MonthsAddUp
PROPERTIES
  HistoryStands
  ErasureKeepsTheMeter
  StayKeepsItsTenant
