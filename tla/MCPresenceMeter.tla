--------------------------- MODULE MCPresenceMeter ---------------------------
(* PresenceMeter for TLC: symmetry, and a sentence of the docs.              *)
EXTENDS PresenceMeter, TLC

Symmetry == Permutations(Room) \cup Permutations(Worker)

ConnOwner == [c \in Conn |-> CHOOSE u \in User : TRUE]

\* A stay that began when s began has ended.
Over(s) == \E p \in past : p.conn = s.conn /\ p.joined = s.joined

\* "Both paths key the span on the provider's own joined_at, so a redelivery or
\* an out-of-order pair collides here and is a no-op" (models.py:229-231): a span
\* that participant_left closed is the span of a stay that is over.
DepartureClosesItsOwnStay == \A s \in spans : s.reason = "webhook" => Over(s)
=============================================================================
