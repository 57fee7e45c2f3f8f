---------------------------- MODULE AccountClaims ----------------------------
(***************************************************************************)
(* What one would like to have of a merge, and what the code, step by step,  *)
(* does not keep.  README.md names the steps that refute each.               *)
(***************************************************************************)
EXTENDS AccountLifecycle

\* actions.py:157 "returning success would let the outbox mark it delivered and lose the
\* rooms for good": a merge that returned success has left the guest nothing.  The guest's
\* session goes on, and what it writes after the reads stays under its id.
NothingIsLeftToLose ==
    \A e \in acked \cap Merged, r \in Room : ~HasRow(e.from, r)

\* calls/models.py:146-155 and actions.py:113-115: a call goes only with the erasure of one
\* of its parties.  The merge moves no call, and the guest's deletion takes it.
CallsOutliveTheGuest ==
    [][\A c \in calls \ calls' : Erased(c[1]) \/ Erased(c[2])]_vars
=============================================================================
