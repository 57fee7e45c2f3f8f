--------------------------- MODULE MCRoomAdmission ---------------------------
(* RoomAdmission for TLC: symmetry.                                         *)
EXTENDS RoomAdmission, TLC

Symmetry == Permutations(Req) \cup Permutations(User)
=============================================================================
