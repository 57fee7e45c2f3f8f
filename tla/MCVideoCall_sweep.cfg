CONSTANTS
  User = {u1, u2}
  Call = {c1}
  Worker = {w1}
  Sweeper = sweeper
  Nobody = nobody
  NoCall = nocall
  Asked = {"accept", "active"}
  RingTimeout = 1
  ConnectGrace = 1
  MaxDuration = 2
  MaxTime = 2
  MaxHooks = 1
SPECIFICATION BeatSpec
CHECK_DEADLOCK FALSE
INVARIANTS
  UnansweredMeansUnanswered
  SweeperWaits
  EndAnnouncedOnce
PROPERTIES
  RingEnds
  AnsweredEnds
