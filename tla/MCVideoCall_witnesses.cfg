CONSTANTS
  User = {u1, u2}
  Call = {c1}
  Worker = {w1, w2}
  Sweeper = sweeper
  Nobody = nobody
  NoCall = nocall
  Asked = {"accept", "decline", "hangup", "token"}
  RingTimeout = 1
  ConnectGrace = 1
  MaxDuration = 2
  MaxTime = 1
  MaxHooks = 1
SPECIFICATION UnsweptSpec
SYMMETRY Symmetry
CHECK_DEADLOCK FALSE
INVARIANTS
  TypeOK
  EndAnnouncedOnce
PROPERTIES
  ClosedIsFinal
