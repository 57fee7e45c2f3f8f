---------------------------- MODULE MCUsageReads ----------------------------
(* UsageReads for TLC: a guest and the account it signs into, in one room,   *)
(* and that account in another; months of one second; a claim of the docs.   *)
EXTENDS UsageReads, TLC

Guest1 == 1
Account1 == 2
ErasedGuest == 3

Subjects == (1 :> Guest1) @@ (2 :> Account1) @@ (3 :> Account1)
Rooms == (1 :> 1) @@ (2 :> 1) @@ (3 :> 2)
Connections == (1 :> "c1") @@ (2 :> "c2") @@ (3 :> "c3")
Grants == (1 :> "t1") @@ (2 :> Unscoped) @@ (3 :> "t2")
Tenants == (1 :> "t1") @@ (2 :> "t2")
Unplaced == (1 :> Unscoped) @@ (2 :> "t2")
Ungranted == [i \in Span |-> Unscoped]
Digests == Guest1 :> ErasedGuest
Months == {<<1, 12>>, <<2, 1>>, <<2, 12>>}
Midnights == (<<1, 1>> :> 0) @@ (<<1, 11>> :> 0) @@ (<<1, 12>> :> 0)
             @@ (<<2, 1>> :> 2) @@ (<<2, 2>> :> 4) @@ (<<2, 3>> :> 6)
Readers == {<<Account1, "t1">>, <<Account1, "t2">>}

\* The arithmetic alone, on more and longer stays than the states hold: one
\* timeline, and the time that two have in common.
Intervals == {x \in (0..5) \X (0..5) : x[1] < x[2]}
Timelines == {S \in SUBSET Intervals : Cardinality(S) <= 3}
ASSUME UnionIsExact ==
    \A S \in Timelines : Ticks(Merged(S)) = Cardinality(Instants(S))
ASSUME OverlapIsExact ==
    \A S, T \in {U \in Timelines : Cardinality(U) <= 2} :
        OverlapSeconds(Merged(S), Merged(T)) =
            Cardinality(Instants(S) \cap Instants(T)) \div TicksPerSecond

\* "--limit: for running the backfill in bounded slices on a large table"
\* (video_backfill_scope.py): slice after slice, every room the host can place
\* is placed.
SlicesReachEveryRoom ==
    \A i \in Span : (i \in Here /\ rows[i].tenant = Unscoped /\ TenantOf[RoomOf[i]] # Unscoped)
        ~> (i \notin Here \/ rows[i].tenant # Unscoped)
=============================================================================
