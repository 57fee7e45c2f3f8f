----------------------------- MODULE MCLiveNames -----------------------------
(* LiveNames for TLC: a person with a tile in a room and one in a call, and   *)
(* another one in that room whose user id begins with theirs.                *)
EXTENDS LiveNames

One == <<"1">>
Twelve == <<"1", "2">>
People == {One, Twelve}
Owners == [c1 |-> One, c2 |-> One, c3 |-> Twelve]
Rooms == [c1 |-> "room", c2 |-> "call-1", c3 |-> "room"]
Chars == {"1", "2", "x", "y", "z", "_"}
Marks == [c1 |-> <<"x">>, c2 |-> <<"y">>, c3 |-> <<"z">>]
=============================================================================
