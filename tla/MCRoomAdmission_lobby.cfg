CONSTANTS
  User = {u1,u2}
  Req = {r1,r2}
SPECIFICATION Spec
CHECK_DEADLOCK FALSE
SYMMETRY Symmetry
INVARIANTS
  IInv
  TokenNeedsYes
  NothingBeforeAnswer
PROPERTIES
  DenialOutlastsJoins
