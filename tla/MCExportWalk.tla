---------------------------- MODULE MCExportWalk ----------------------------
(* ExportWalk for TLC: two people in one room, one of them in another too;   *)
(* a walk of every row, and one of a window's pairs.                         *)
EXTENDS ExportWalk, TLC

Subjects == (1 :> 2) @@ (2 :> 1) @@ (3 :> 2)
Rooms == (1 :> 1) @@ (2 :> 1) @@ (3 :> 2)
Ungranted == [i \in Span |-> Unscoped]
Unplaced == [r \in Room |-> Unscoped]
Digests == 1 :> 3
Midnights == (<<1, 12>> :> 0) @@ (<<2, 1>> :> 2) @@ (<<2, 2>> :> 4)
Exports == {<<"spans", Everything>>, <<"pairs", <<0, 2>>>>}
=============================================================================
