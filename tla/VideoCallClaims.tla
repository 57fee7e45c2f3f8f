-------------------------- MODULE VideoCallClaims --------------------------
(***************************************************************************)
(* What the repository's text says of the call lifecycle and the code, step *)
(* by step, does not keep.  README.md names an instance that refutes each.  *)
(***************************************************************************)
EXTENDS VideoCall

\* calls/services.py:12 "Frames and pushes go out only when the row moved", to ring
\* nobody twice: no call.incoming follows the call.ended of the same call.  create_call
\* rings after the provider answered, whatever became of the row meanwhile.
RingsBeforeItEnds ==
    \A c \in Call : \A i \in Frames(c, "ended"), j \in Frames(c, "incoming") : j < i

\* calls/models.py:43 "FAILED: the provider refused the room or the grant, so there was
\* never anything to answer".  The row rings before the provider is asked, and _fail
\* leaves an accepted call too.
FailedWasNeverAnswered ==
    \A c \in Call : row[c].state = "failed" => row[c].answered = Never

\* calls/services.py:86 "the answer is never a call that is over pretending to still be
\* ringing. That is what makes correctness independent of the sweeper running": a create
\* is refused as busy only if somebody is on a call that is not overdue.
BusyMeansOnACall ==
    [][\A p \in Worker : At(p, "gate") /\ Gate(p) /\ work'[p] = Idle =>
          \E c \in LiveCallsOf({work[p].user, work[p].peer}) : ~Overdue(row[c])]_vars

\* webhooks.py:180 "In a 1:1 call either party leaving ends it - there is nobody left to
\* talk to": a departure ends a call only if one of the two is gone from its room.
DepartureLeavesNobody ==
    [][\A c \in Call : IsLive(row[c]) /\ row'[c].reason = "remote_left" =>
          Cardinality(inRoom[c]) < 2]_vars
=============================================================================
