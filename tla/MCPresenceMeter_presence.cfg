CONSTANTS
  Room = {r1,r2}
  Conn = {c1}
  User = {u1}
  Worker = {w1}
  Owner <- ConnOwner
  Retention = 1
  MaxTime = 2
  MaxStays = 2
SPECIFICATION Spec
CHECK_DEADLOCK FALSE
SYMMETRY Symmetry
INVARIANTS
  TypeOK
  NeverBeyondPresence
  IInv
PROPERTIES
  ClosedSpanStays
