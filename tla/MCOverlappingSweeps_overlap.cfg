CONSTANTS
  Room = {r1}
  Conn = {c1}
  User = {u1}
  Worker = {w1}
  Owner <- ConnOwner
  Retention = 1
  MaxTime = 2
  MaxStays = 1
SPECIFICATION BeatSpec
CHECK_DEADLOCK FALSE
INVARIANTS
  BothTrue
PROPERTIES
  ZombiesEnd
