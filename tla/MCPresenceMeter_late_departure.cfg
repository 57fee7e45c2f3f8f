CONSTANTS
  Room = {r1}
  Conn = {c1}
  User = {u1}
  Worker = {w1}
  Owner <- ConnOwner
  Retention = 2
  MaxTime = 2
  MaxStays = 2
SPECIFICATION Spec
CHECK_DEADLOCK FALSE
INVARIANTS
  DepartureClosesItsOwnStay
