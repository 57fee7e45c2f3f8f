CONSTANTS
  guest = guest
  account = account
  other = other
  Nobody = Nobody
  User = {guest, account, other}
  Room = {r1}
  Stay = {s1}
  Worker = {w1, w2}
  Person <- StayPerson
  SignsInto <- Pairs
  Rings <- Callers
  Visits = {guest, account}
  Forgets = {guest, account}
SPECIFICATION Spec
CHECK_DEADLOCK FALSE
INVARIANTS
  HandledMergeMissesNothing
PROPERTIES
  RoomsOutliveTheGuest
  
  MetersMoveWithRooms
  
  ErasedSpanStaysErased
  MergeCompletes
