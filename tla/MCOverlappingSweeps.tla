------------------------ MODULE MCOverlappingSweeps ------------------------
(* OverlappingSweeps for TLC: whose connection it is.                        *)
EXTENDS OverlappingSweeps

ConnOwner == [c \in Conn |-> CHOOSE u \in User : TRUE]
=============================================================================
