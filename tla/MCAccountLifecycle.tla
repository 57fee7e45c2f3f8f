------------------------- MODULE MCAccountLifecycle -------------------------
(* AccountLifecycle for TLC: a guest, the account it signs into and a third *)
(* person.                                                                  *)
EXTENDS AccountLifecycle

CONSTANTS guest, account, other

Pairs == {<<guest, account>>}
Callers == {<<guest, other>>}
StayPerson == [s \in Stay |-> guest]
=============================================================================
