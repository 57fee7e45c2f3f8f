---------------------------- MODULE MCVideoCall ----------------------------
(* VideoCall for TLC: symmetry, and the specifications the runs use.        *)
EXTENDS VideoCallClaims, TLC

Symmetry == Permutations(User) \cup Permutations(Call) \cup Permutations(Worker)

WorkerCrashes == \E p \in Worker : Crash(p)

\* Requests alone: the clock stands still, nothing is swept, nobody connects.
RequestSpec == Init /\ [][Serve \/ Finishing \/ WorkerCrashes]_vars

\* Requests and webhooks while the beat is not scheduled.
UnsweptSpec == Init /\ [][Tick \/ Serve \/ Finishing \/ Media \/ WorkerCrashes]_vars

\* The beat process may be restarted too, though not for ever: only while the clock runs.
BeatRestarts == now < MaxTime /\ Crash(Sweeper)

\* The beat runs while workers crash.
BeatSpec ==
    /\ Init
    /\ [][Tick \/ Serve \/ Finishing \/ SweepStep \/ Media \/ WorkerCrashes \/ BeatRestarts]_vars
    /\ SweepFairness
=============================================================================
