CONSTANTS
  Person <- People
  Char <- Chars
  Room = {"room", "call-1"}
  Call = {"call-1"}
  Conn = {"c1", "c2", "c3"}
  OwnerOf <- Owners
  RoomOf <- Rooms
  Suffix <- Marks
  Separator = "_"
  Handler = {h1}
  MaxName = 1
  MaxGrant = 2
SPECIFICATION Spec
CHECK_DEADLOCK FALSE
INVARIANTS
  TilesShowTheirOwn
  ReachesEveryTile
PROPERTY
  OnlyTheNameIsPushed
