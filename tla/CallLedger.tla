----------------------------- MODULE CallLedger -----------------------------
(***************************************************************************)
(* What the call lifecycle promises, whoever asks and whatever is lost: a   *)
(* call rings once, is answered at most once and only while nobody in it is *)
(* in another answered call, and is closed once, with an outcome that fits  *)
(* whether it was answered.  VideoCall is shown to implement it.            *)
(***************************************************************************)
CONSTANTS User, Call

VARIABLES
    phase,     \* where each call is
    parties    \* the two people of each call

vars == <<phase, parties>>

Outcome == {"declined", "missed", "ended", "failed"}

TypeOK ==
    /\ phase \in [Call -> {"unborn", "ringing", "answered"} \cup Outcome]
    /\ parties \in [Call -> SUBSET User]

Init ==
    /\ phase = [c \in Call |-> "unborn"]
    /\ parties = [c \in Call |-> {}]

Ring(c, u, v) ==
    /\ phase[c] = "unborn"
    /\ u # v
    /\ phase' = [phase EXCEPT ![c] = "ringing"]
    /\ parties' = [parties EXCEPT ![c] = {u, v}]

Answer(c) ==
    /\ phase[c] = "ringing"
    /\ \A d \in Call : phase[d] = "answered" => parties[c] \cap parties[d] = {}
    /\ phase' = [phase EXCEPT ![c] = "answered"]
    /\ UNCHANGED parties

\* Declined and missed are for calls nobody answered.
End(c, outcome) ==
    /\ \/ phase[c] = "ringing"
       \/ phase[c] = "answered" /\ outcome \in {"ended", "failed"}
    /\ phase' = [phase EXCEPT ![c] = outcome]
    /\ UNCHANGED parties

Next == \E c \in Call :
    \/ \E u, v \in User : Ring(c, u, v)
    \/ Answer(c)
    \/ \E outcome \in Outcome : End(c, outcome)

Spec == Init /\ [][Next]_vars
=============================================================================
