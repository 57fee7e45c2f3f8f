CONSTANTS
  User = {u1, u2, u3}
  Call = {c1, c2}
  Worker = {w1, w2}
  Sweeper = sweeper
  Nobody = nobody
  NoCall = nocall
  Asked = {"accept", "decline"}
  RingTimeout = 1
  ConnectGrace = 1
  MaxDuration = 1
  MaxTime = 0
  MaxHooks = 0
SPECIFICATION RequestSpec
SYMMETRY Symmetry
CHECK_DEADLOCK FALSE
INVARIANTS
  AtMostOneAnswered
  IInv
PROPERTIES
  LedgerSpec
