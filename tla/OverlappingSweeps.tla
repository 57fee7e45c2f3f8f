-------------------------- MODULE OverlappingSweeps --------------------------
(***************************************************************************)
(* The presence meter when a pass of sweep_open_spans takes longer than the *)
(* beat's interval, or an operator runs video_sweep_presence beside it: two *)
(* passes that share the table and the media server and nothing else, since *)
(* the code takes no lock.  The second pass is the same code, instantiated. *)
(***************************************************************************)
EXTENDS PresenceMeter

VARIABLE later    \* where the second pass is

allVars == <<vars, later>>

Second == INSTANCE PresenceMeter WITH sweep <- later

BothInit == Init /\ Second!Init

\* Everything but the purge and a pass that dies leaves the other pass alone; a row
\* that is purged leaves the instances of both.
FirstStep == (Tick \/ Media \/ Webhook \/ SweepStep \/ \E w \in Worker : HandlerDies(w)) /\ UNCHANGED later
SecondStep == (Second!SweepStep \/ Second!SweepDies) /\ UNCHANGED sweep
BothPurge == Purge /\ Second!Purge

\* The beat's own process lives, the other may be killed.
BothNext == FirstStep \/ SecondStep \/ BothPurge

BothSpec == BothInit /\ [][BothNext]_allVars

BeatSpec == BothSpec /\ SweepFairness

-----------------------------------------------------------------------------
\* Neither pass is misled by the other: what each carries from its roster and its list is
\* still true of the table and of the presence when it writes, whatever the other wrote.
BothTrue == IInv /\ Second!IInv
=============================================================================
