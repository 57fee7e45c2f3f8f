------------------------- MODULE UsageReadsProofs -------------------------
(***************************************************************************)
(* Proofs about UsageReads, for any spans, rooms, tenants, retention and   *)
(* any calendar. A stay keeps the tenant it has: the backfill stamps a     *)
(* batch of ids it read before, so the invariant says that whatever is     *)
(* still there of the batch has no tenant yet. The figures of every read   *)
(* are the presence they are about: UnionIsExact and OverlapIsExact turn   *)
(* each into a count of instants, and a count does not depend on how rows  *)
(* are grouped, on which of the months of a table a stay falls into, or on *)
(* what a person is called. Past months stand because no step moves an     *)
(* instant that is over.                                                   *)
(***************************************************************************)
EXTENDS UsageReads, UsageArithmeticProofs

Filling == [pc: {"rooms", "stamp"}, ids: SUBSET Span, todo: SUBSET Room]

\* The batch in hand: ids are not used twice, so none of them is a later stay.
BatchUnplaced ==
    /\ filling \in Filling \cup {NoFill}
    /\ filling # NoFill => \A i \in filling.ids :
          rows[i] # Absent /\ (IsRow(i) => rows[i].tenant = Unscoped)

ReadsInv == TypeOK /\ BatchUnplaced

LEMMA RowShape == \A r \in Row : r # Absent /\ r # Gone
<1>1. ASSUME NEW r \in Row
      PROVE  r # Absent /\ r # Gone
  BY DEF Row, Absent, Gone
<1> QED BY <1>1

LEMMA NotFilling == (\A f \in Filling : f # NoFill) /\ Absent # Gone
<1>1. ASSUME NEW f \in Filling
      PROVE  f # NoFill
  BY DEF Filling, NoFill
<1>2. Absent # Gone
  BY DEF Absent, Gone
<1> QED BY <1>1, <1>2

\* What there is of a row that is here.
LEMMA HereIsRow ==
    ASSUME TypeOK, NEW i \in Span
    PROVE  /\ i \in Here <=> rows[i] \in Row
           /\ i \in Here <=> IsRow(i)
  BY RowShape DEF TypeOK, Here, IsRow

\* The two changes of a row: who it is of, and what tenant.
Rekeyed(r, to) == [r EXCEPT !.user = to]
Placed(r, tenant) == [r EXCEPT !.tenant = tenant]

LEMMA RekeyedRow ==
    ASSUME NEW r \in Row, NEW to \in User
    PROVE  /\ Rekeyed(r, to) \in Row /\ Rekeyed(r, to).tenant = r.tenant
           /\ Rekeyed(r, to).left = r.left /\ Rekeyed(r, to).joined = r.joined
  BY DEF Row, Rekeyed

LEMMA PlacedRow ==
    ASSUME NEW r \in Row, NEW tenant \in Tenant \cup {Unscoped}
    PROVE  /\ Placed(r, tenant) \in Row
           /\ Placed(r, tenant).left = r.left /\ Placed(r, tenant).joined = r.joined
  BY DEF Row, Placed

\* A step of the table that leaves the backfill alone and every tenant where it is.
LEMMA TableStep ==
    ASSUME ReadsInv, UNCHANGED <<now, filling>>,
           rows' \in [Span -> Row \cup {Absent, Gone}],
           \A i \in Span : rows[i] # Absent =>
              /\ rows'[i] # Absent
              /\ rows'[i] \in Row => rows[i] \in Row /\ rows'[i].tenant = rows[i].tenant,
           \A i \in Span : rows'[i] \in Row /\ rows'[i].left # Open => rows'[i].left >= rows'[i].joined
    PROVE  /\ ReadsInv'
           /\ \A i \in Here \cap Here' : rows'[i].tenant = rows[i].tenant
<1>1. \A i \in Span : (i \in Here)' <=> rows'[i] \in Row
  BY RowShape DEF Here, IsRow
<1>2. TypeOK'
  BY <1>1 DEF ReadsInv, TypeOK, Here
<1>3. BatchUnplaced'
  <2>1. ASSUME NEW i \in filling.ids, filling # NoFill
        PROVE  rows'[i] # Absent /\ (IsRow(i)' => rows'[i].tenant = Unscoped)
    <3>1. i \in Span
      BY <2>1 DEF ReadsInv, BatchUnplaced, Filling
    <3>2. (IsRow(i))' => rows'[i] \in Row
      BY <3>1 DEF IsRow
    <3> QED BY <2>1, <3>1, <3>2, HereIsRow DEF ReadsInv, BatchUnplaced
  <2> QED BY <2>1 DEF ReadsInv, BatchUnplaced
<1>4. \A i \in Here \cap Here' : rows'[i].tenant = rows[i].tenant
  BY <1>1, HereIsRow, NotFilling DEF Here, IsRow, ReadsInv
<1> QED BY <1>2, <1>3, <1>4 DEF ReadsInv

\* The step of the backfill that writes.
LEMMA StampStep ==
    ASSUME ReadsInv, FillStamp
    PROVE  /\ ReadsInv'
           /\ \A i \in Here \cap Here' : rows[i].tenant # Unscoped => rows'[i].tenant = rows[i].tenant
<1>1. /\ filling \in Filling /\ filling.ids \subseteq Span
      /\ filling' \in Filling /\ filling'.ids = {}
  <2>1. filling.pc = "stamp" /\ filling' = [filling EXCEPT !.pc = "rooms", !.ids = {}]
    BY DEF FillStamp
  <2>2. filling \in Filling
    BY <2>1 DEF ReadsInv, BatchUnplaced, NoFill
  <2> QED BY <2>1, <2>2 DEF Filling
<1>2. ASSUME NEW i \in filling.ids \cap Here
      PROVE  /\ rows'[i] \in Row /\ rows[i].tenant = Unscoped
             /\ rows'[i].left = rows[i].left /\ rows'[i].joined = rows[i].joined
  <2>1. rows'[i] = Placed(rows[i], TenantOf[RoomOf[i]])
    <3>1. rows' = [j \in Span |-> IF j \in filling.ids \cap Here
                                    THEN Placed(rows[j], TenantOf[RoomOf[j]]) ELSE rows[j]]
      BY DEF FillStamp, Placed
    <3> QED BY <1>1, <1>2, <3>1
  <2>2. rows[i] \in Row /\ IsRow(i)
    BY <1>1, <1>2, HereIsRow DEF ReadsInv
  <2>3. TenantOf[RoomOf[i]] \in Tenant \cup {Unscoped}
    BY <1>1, <1>2, ReadsAssumption
  <2>4. filling # NoFill
    BY <1>1, NotFilling
  <2>5. rows[i].tenant = Unscoped
    BY <1>2, <2>2, <2>4 DEF ReadsInv, BatchUnplaced
  <2> QED BY <2>1, <2>2, <2>3, <2>5, PlacedRow
<1>3. \A i \in Span \ (filling.ids \cap Here) : rows'[i] = rows[i]
  BY DEF FillStamp
<1>4. DOMAIN rows' = Span /\ rows' = [i \in Span |-> rows'[i]]
  BY DEF FillStamp
<1>5. rows' \in [Span -> Row \cup {Absent, Gone}]
  BY <1>2, <1>3, <1>4 DEF ReadsInv, TypeOK
<1>6. Here' = Here
  BY <1>2, <1>3, <1>5, HereIsRow, RowShape DEF Here, IsRow, ReadsInv
<1>7. TypeOK'
  <2>1. \A i \in Here : rows'[i].left # Open => rows'[i].left >= rows'[i].joined
    BY <1>2, <1>3 DEF ReadsInv, TypeOK, Here
  <2>2. now' = now
    BY DEF FillStamp
  <2> QED BY <1>1, <1>5, <1>6, <2>1, <2>2 DEF ReadsInv, TypeOK, Filling
<1>8. BatchUnplaced'
  BY <1>1 DEF BatchUnplaced
<1> QED BY <1>2, <1>3, <1>7, <1>8 DEF ReadsInv, Here

\* The steps of the backfill that read, and its death.
LEMMA FillStep ==
    ASSUME ReadsInv, FillStart \/ FillRead \/ FillDies
    PROVE  ReadsInv' /\ UNCHANGED rows
<1>1. UNCHANGED <<now, rows>>
  BY DEF FillStart, FillRead, FillDies
<1>2. BatchUnplaced'
  <2>1. CASE FillStart
    <3>1. PICK rooms \in SUBSET Room : filling' = [pc |-> "rooms", ids |-> {}, todo |->
              {r \in rooms : Cardinality({q \in rooms : q < r}) < RoomsPerRun}]
      BY <2>1 DEF FillStart
    <3> QED BY <3>1 DEF BatchUnplaced, Filling
  <2>2. CASE FillRead
    <3>0. filling \in Filling
      BY <2>2, NotFilling DEF FillRead, ReadsInv, BatchUnplaced, NoFill
    <3>1. PICK r : r = Least(filling.todo)
      OBVIOUS
    <3>2. \/ filling' = [filling EXCEPT !.pc = "stamp", !.ids = UnscopedIn(r)]
          \/ filling' = NoFill
          \/ filling' = [filling EXCEPT !.todo = @ \ {r}]
      BY <2>2, <3>1 DEF FillRead
    <3>3. CASE filling' = [filling EXCEPT !.pc = "stamp", !.ids = UnscopedIn(r)]
      <4>1. UnscopedIn(r) \subseteq Span
            /\ \A i \in UnscopedIn(r) : rows[i] # Absent /\ rows[i].tenant = Unscoped
        BY DEF UnscopedIn, Here, IsRow
      <4>2. filling' \in Filling /\ filling'.ids = UnscopedIn(r)
        BY <3>0, <3>3, <4>1 DEF Filling
      <4> QED BY <1>1, <4>1, <4>2 DEF BatchUnplaced
    <3>4. CASE filling' = NoFill
      BY <3>4 DEF BatchUnplaced
    <3>5. CASE filling' = [filling EXCEPT !.todo = @ \ {r}]
      <4>1. filling' \in Filling /\ filling'.ids = filling.ids
        BY <3>0, <3>5 DEF Filling
      <4> QED BY <1>1, <3>0, <4>1, NotFilling DEF ReadsInv, BatchUnplaced, IsRow
    <3> QED BY <3>2, <3>3, <3>4, <3>5
  <2>3. CASE FillDies
    BY <2>3 DEF FillDies, BatchUnplaced
  <2> QED BY <2>1, <2>2, <2>3
<1>3. TypeOK'
  BY <1>1, <1>2 DEF ReadsInv, TypeOK, BatchUnplaced, Filling, Here, IsRow
<1> QED BY <1>1, <1>2, <1>3 DEF ReadsInv

\* The steps of the meter.
LEMMA MeterStep ==
    ASSUME ReadsInv, Meter
    PROVE  ReadsInv' /\ \A i \in Here \cap Here' : rows'[i].tenant = rows[i].tenant
<1>0. /\ rows \in [Span -> Row \cup {Absent, Gone}]
      /\ \A i \in Span : rows[i] \in Row => i \in Here
      /\ \A i \in Here : rows[i] \in Row /\ (rows[i].left # Open => rows[i].left >= rows[i].joined)
  BY HereIsRow DEF ReadsInv, TypeOK, Here
<1>1. CASE Tick
  <2>1. /\ now' \in 0..MaxTime /\ UNCHANGED <<rows, filling>>
    BY <1>1, ReadsAssumption DEF Tick, ReadsInv, TypeOK
  <2>2. Here' = Here /\ \A i \in Span : IsRow(i)' = IsRow(i)
    BY <2>1 DEF Here, IsRow
  <2>3. TypeOK'
    BY <2>1, <2>2 DEF ReadsInv, TypeOK
  <2>4. BatchUnplaced'
    BY <2>1 DEF ReadsInv, BatchUnplaced, IsRow
  <2>5. \A i \in Here \cap Here' : rows'[i].tenant = rows[i].tenant
    BY <2>1
  <2> QED BY <2>3, <2>4, <2>5 DEF ReadsInv
<1>2. ASSUME NEW ids \in SUBSET Here, Deleted(ids)
      PROVE  ReadsInv' /\ \A i \in Here \cap Here' : rows'[i].tenant = rows[i].tenant
  <2>0. Here \subseteq Span
    BY DEF Here
  <2>1. /\ \A i \in Span : rows'[i] = rows[i] \/ (i \in Here /\ rows'[i] = Gone)
        /\ rows' \in [Span -> Row \cup {Absent, Gone}] /\ UNCHANGED <<now, filling>>
    BY <1>0, <1>2, <2>0 DEF Deleted
  <2> QED BY <1>0, <2>1, RowShape, NotFilling, TableStep
<1>3. ASSUME NEW from \in User, NEW to \in User, Renamed(from, to)
      PROVE  ReadsInv' /\ \A i \in Here \cap Here' : rows'[i].tenant = rows[i].tenant
  <2>1. rows' = [i \in Span |-> IF i \in SpansOf(from, Here) THEN Rekeyed(rows[i], to) ELSE rows[i]]
    BY <1>3 DEF Renamed, Rekeyed
  <2>2. \A i \in Span : rows'[i] = rows[i] \/ (i \in Here /\ rows'[i] = Rekeyed(rows[i], to))
    BY <2>1 DEF SpansOf
  <2>3. ASSUME NEW i \in Here
        PROVE  LET r == Rekeyed(rows[i], to)
               IN  r \in Row /\ r.tenant = rows[i].tenant /\ r.left = rows[i].left /\ r.joined = rows[i].joined
    BY <1>0, <2>3, RekeyedRow
  <2>4. \A i \in Span : rows'[i] \in Row \cup {Absent, Gone}
    BY <1>0, <2>2, <2>3
  <2>5. rows' \in [Span -> Row \cup {Absent, Gone}] /\ UNCHANGED <<now, filling>>
    BY <1>3, <2>1, <2>4 DEF Renamed
  <2> QED BY <1>0, <2>2, <2>3, <2>5, RowShape, NotFilling, TableStep
<1>4. ASSUME NEW i \in Span, NEW at \in 0..MaxTime, OpenSpan(i, at)
      PROVE  ReadsInv' /\ \A j \in Here \cap Here' : rows'[j].tenant = rows[j].tenant
  <2>1. PICK r : r = [user |-> Subject[i], joined |-> at, left |-> Open, tenant |-> GrantOf[i]]
    OBVIOUS
  <2>2. r \in Row /\ r.left = Open
    BY <2>1, ReadsAssumption DEF Row
  <2>3. /\ rows[i] = Absent /\ rows' = [rows EXCEPT ![i] = r] /\ UNCHANGED <<now, filling>>
    BY <1>4, <2>1 DEF OpenSpan
  <2>4. /\ rows' \in [Span -> Row \cup {Absent, Gone}]
        /\ \A j \in Span : rows'[j] = IF j = i THEN r ELSE rows[j]
    BY <1>0, <2>2, <2>3
  <2> QED BY <1>0, <2>2, <2>3, <2>4, RowShape, TableStep
<1>5. ASSUME NEW i \in Span, NEW at \in 0..MaxTime, CloseSpan(i, at)
      PROVE  ReadsInv' /\ \A j \in Here \cap Here' : rows'[j].tenant = rows[j].tenant
  <2>0. rows[i] \in Row /\ rows[i].joined \in 0..MaxTime
    BY <1>0, <1>5, HereIsRow DEF CloseSpan, IsOpen, ReadsInv, Row
  <2>1. PICK r : r = [rows[i] EXCEPT !.left = Later(at, rows[i].joined)]
    OBVIOUS
  <2>2. r \in Row /\ r.tenant = rows[i].tenant /\ r.left >= r.joined
    BY <2>0, <2>1, ReadsAssumption DEF Row, Later
  <2>3. rows' = [rows EXCEPT ![i] = r] /\ UNCHANGED <<now, filling>>
    BY <1>5, <2>1 DEF CloseSpan
  <2>4. /\ rows' \in [Span -> Row \cup {Absent, Gone}]
        /\ \A j \in Span : rows'[j] = IF j = i THEN r ELSE rows[j]
    BY <1>0, <2>2, <2>3
  <2> QED BY <1>0, <2>0, <2>2, <2>3, <2>4, RowShape, TableStep
<1>6. CASE Purge
  BY <1>2, <1>6 DEF Purge
<1>7. ASSUME NEW guest \in User, NEW account \in User, MergeSpans(guest, account)
      PROVE  Renamed(guest, account)
  BY <1>7 DEF MergeSpans
<1>8. ASSUME NEW u \in User, PseudonymizeUser(u)
      PROVE  Pseudonym[u] \in User /\ Renamed(u, Pseudonym[u])
  BY <1>8, ReadsAssumption DEF PseudonymizeUser
<1> QED BY <1>1, <1>3, <1>4, <1>5, <1>6, <1>7, <1>8 DEF Meter

LEMMA ReadsInit == Init => ReadsInv
  BY ReadsAssumption, NotFilling
     DEF Init, ReadsInv, TypeOK, BatchUnplaced, Here, IsRow

LEMMA ReadsNext ==
    ASSUME ReadsInv, [Next]_vars
    PROVE  /\ ReadsInv'
           /\ \A i \in Here \cap Here' : rows[i].tenant # Unscoped => rows'[i].tenant = rows[i].tenant
<1>1. CASE Meter
  BY <1>1, MeterStep
<1>2. CASE FillStart \/ FillRead \/ FillDies
  BY <1>2, FillStep
<1>3. CASE FillStamp
  BY <1>3, StampStep
<1>4. CASE UNCHANGED vars
  BY <1>4 DEF vars, ReadsInv, TypeOK, BatchUnplaced, Here, IsRow
<1> QED BY <1>1, <1>2, <1>3, <1>4 DEF Next, Backfill

\* Types hold, and no stay ends before it began (presence.py, close_span).
THEOREM ReadsTypes == Spec => []TypeOK
<1>1. ReadsInv => TypeOK
  BY DEF ReadsInv
<1> QED BY <1>1, ReadsInit, ReadsNext, PTL DEF Spec

\* A stay keeps its tenant, by whatever order redeliveries, merges, erasures, purges
\* and the batches of the backfill come in (presence.py:206-209).
THEOREM TenantsStay == Spec => StayKeepsItsTenant
<1> DEFINE Kept == \A i \in Here \cap Here' :
                      rows[i].tenant # Unscoped => rows'[i].tenant = rows[i].tenant
<1>1. ReadsInv /\ [Next]_vars => [Kept]_rows
  BY ReadsNext
<1> QED BY <1>1, ReadsInit, ReadsNext, PTL DEF Spec, StayKeepsItsTenant

-----------------------------------------------------------------------------
(* One read of the table: what a stay, a person, a room come to.             *)

Windows == Nat \X Nat
EndOf(s, at) == IF s.left = Open THEN at ELSE s.left
PresentAt(ids, w, at) ==
    {t \in w[1]..w[2] - 1 : \E i \in ids : rows[i].joined <= t /\ t < EndOf(rows[i], at)}

LEMMA RowTimes ==
    ASSUME NEW s \in Row, NEW at \in Nat
    PROVE  s.joined \in Nat /\ EndOf(s, at) \in Nat
  BY ReadsAssumption, ArithmeticAssumption DEF Row, EndOf

LEMMA ClipIs ==
    ASSUME NEW s \in Row, NEW w \in Windows, NEW at \in Nat
    PROVE  /\ Clip(s, w[1], w[2], at) \subseteq Interval
           /\ Clip(s, w[1], w[2], at) \subseteq (w[1]..w[2]) \X (w[1]..w[2])
           /\ \A t : (\E x \in Clip(s, w[1], w[2], at) : t \in x[1]..x[2] - 1)
                        <=> t \in w[1]..w[2] - 1 /\ s.joined <= t /\ t < EndOf(s, at)
           /\ Clip(s, w[1], w[2], at) # {} <=>
                 \E t \in w[1]..w[2] - 1 : s.joined <= t /\ t < EndOf(s, at)
<1>1. PICK j \in Nat, e \in Nat : j = s.joined /\ e = EndOf(s, at)
  BY RowTimes
<1>2. PICK w1 \in Nat, w2 \in Nat : w1 = w[1] /\ w2 = w[2]
  BY DEF Windows
<1>3. PICK a \in Nat, b \in Nat : a = Later(j, w1) /\ b = Earlier(e, w2)
  BY DEF Later, Earlier
<1>4. Clip(s, w1, w2, at) = IF b > a THEN {<<a, b>>} ELSE {}
  BY <1>1, <1>3 DEF Clip, EndOf
<1>5. /\ a >= j /\ a >= w1 /\ (a = j \/ a = w1)
      /\ b <= e /\ b <= w2 /\ (b = e \/ b = w2)
  BY <1>3 DEF Later, Earlier
<1>6. ASSUME NEW t
      PROVE  t \in a..b - 1 <=> t \in w1..w2 - 1 /\ j <= t /\ t < e
  BY <1>5
<1>7. CASE b > a
  <2>1. Clip(s, w1, w2, at) = {<<a, b>>} /\ <<a, b>> \in Interval
        /\ <<a, b>> \in (w1..w2) \X (w1..w2)
    BY <1>4, <1>5, <1>7 DEF Interval
  <2>2. a \in a..b - 1
    BY <1>7
  <2>3. \E t \in w1..w2 - 1 : j <= t /\ t < e
    BY <1>6, <2>2
  <2>4. \A t : (\E x \in Clip(s, w1, w2, at) : t \in x[1]..x[2] - 1) <=> t \in a..b - 1
    BY <2>1
  <2> QED BY <1>1, <1>2, <1>6, <2>1, <2>3, <2>4
<1>8. CASE ~(b > a)
  <2>1. Clip(s, w1, w2, at) = {} /\ a..b - 1 = {}
    BY <1>4, <1>8
  <2>2. \A t : ~(t \in w1..w2 - 1 /\ j <= t /\ t < e)
    BY <1>6, <2>1
  <2> QED BY <1>1, <1>2, <2>1, <2>2
<1> QED BY <1>7, <1>8

LEMMA HereRows == TypeOK => Here \subseteq Span /\ \A i \in Here : rows[i] \in Row
  BY HereIsRow DEF Here

LEMMA PresentFinite ==
    \A w \in Windows : \A ids, at :
       /\ IsFiniteSet(PresentAt(ids, w, at)) /\ Cardinality(PresentAt(ids, w, at)) \in Nat
       /\ PresentAt(ids, w, at) \subseteq Nat
<1>1. ASSUME NEW w \in Windows, NEW ids, NEW at
      PROVE  /\ IsFiniteSet(PresentAt(ids, w, at)) /\ Cardinality(PresentAt(ids, w, at)) \in Nat
             /\ PresentAt(ids, w, at) \subseteq Nat
  <2>1. PICK a \in Nat, b \in Int : a = w[1] /\ b = w[2] - 1
    BY DEF Windows
  <2>2. IsFiniteSet(a..b) /\ a..b \subseteq Nat
    BY FS_Interval
  <2>3. PresentAt(ids, w, at) \subseteq a..b
    BY <2>1 DEF PresentAt
  <2> QED BY <2>2, <2>3, FS_Subset, FS_CardinalityType
<1> QED BY <1>1

LEMMA TimelineIs ==
    TypeOK => \A ids \in SUBSET Here, w \in Windows, at \in Nat :
       /\ Timeline(ids, w, at) \in SUBSET Interval /\ IsFiniteSet(Timeline(ids, w, at))
       /\ Instants(Timeline(ids, w, at)) = PresentAt(ids, w, at)
<1>1. ASSUME TypeOK, NEW ids \in SUBSET Here, NEW w \in Windows, NEW at \in Nat
      PROVE  /\ Timeline(ids, w, at) \in SUBSET Interval /\ IsFiniteSet(Timeline(ids, w, at))
             /\ Instants(Timeline(ids, w, at)) = PresentAt(ids, w, at)
  <2>1. \A i \in ids : rows[i] \in Row
    BY <1>1, HereRows
  <2>2. Timeline(ids, w, at) \subseteq Interval
    BY <2>1, ClipIs DEF Timeline
  <2>3. IsFiniteSet(Timeline(ids, w, at))
    <3>1. Timeline(ids, w, at) \subseteq (w[1]..w[2]) \X (w[1]..w[2])
      BY <2>1, ClipIs DEF Timeline
    <3>2. IsFiniteSet(w[1]..w[2])
      <4>1. w[1] \in Int /\ w[2] \in Int
        BY DEF Windows
      <4> QED BY <4>1, FS_Interval
    <3>3. IsFiniteSet((w[1]..w[2]) \X (w[1]..w[2]))
      BY <3>2, FS_Product
    <3> QED BY <3>1, <3>3, FS_Subset
  <2>4. ASSUME NEW t
        PROVE  t \in Instants(Timeline(ids, w, at)) <=> t \in PresentAt(ids, w, at)
    <3>1. t \in Instants(Timeline(ids, w, at)) <=>
             \E i \in ids : \E x \in Clip(rows[i], w[1], w[2], at) : t \in x[1]..x[2] - 1
      BY DEF Instants, Timeline
    <3>2. \A i \in ids : (\E x \in Clip(rows[i], w[1], w[2], at) : t \in x[1]..x[2] - 1)
             <=> t \in w[1]..w[2] - 1 /\ rows[i].joined <= t /\ t < EndOf(rows[i], at)
      BY <2>1, ClipIs
    <3> QED BY <3>1, <3>2 DEF PresentAt
  <2> QED BY <2>2, <2>3, <2>4
<1> QED BY <1>1

\* What a row adds to: itself, seen from any set that has it.
SecondsAt(ids, w, at) == Cardinality(PresentAt(ids, w, at)) \div TicksPerSecond

LEMMA NowIsNat == TypeOK => now \in Nat
  BY ReadsAssumption DEF TypeOK

LEMMA SecondsNat ==
    \A w \in Windows : \A ids, at : SecondsAt(ids, w, at) \in Nat
  BY PresentFinite, DivBounds, ArithmeticAssumption DEF SecondsAt

LEMMA SecondsOfIs ==
    TypeOK => \A ids \in SUBSET Here, w \in Windows : \A u :
       SecondsOf(u, ids, w) = SecondsAt(SpansOf(u, ids), w, now)
<1>1. ASSUME TypeOK, NEW ids \in SUBSET Here, NEW w \in Windows, NEW u
      PROVE  SecondsOf(u, ids, w) = SecondsAt(SpansOf(u, ids), w, now)
  <2>1. PICK mine, n, S : mine = SpansOf(u, ids) /\ n = now /\ S = Timeline(mine, w, n)
    OBVIOUS
  <2>2. mine \in SUBSET Here /\ n \in Nat
    BY <1>1, <2>1, NowIsNat DEF SpansOf
  <2>3. S \in SUBSET Interval /\ IsFiniteSet(S) /\ Instants(S) = PresentAt(mine, w, n)
    BY <1>1, <2>1, <2>2, TimelineIs
  <2>4. Ticks(Merged(S)) = Cardinality(PresentAt(mine, w, n))
    BY <2>3, UnionIsExact
  <2> QED BY <2>1, <2>4 DEF SecondsOf, IntervalSeconds, SecondsAt
<1> QED BY <1>1

\* A window's stays that come to nothing may be left out.
LEMMA CountedIs ==
    TypeOK => \A ids \in SUBSET Here, w \in Windows :
       /\ Counted(ids, w) \in SUBSET ids
       /\ \A u : PresentAt(SpansOf(u, Counted(ids, w)), w, now) = PresentAt(SpansOf(u, ids), w, now)
       /\ \A u : PresentAt(SpansOf(u, ids), w, now) # {} <=> u \in {rows[i].user : i \in Counted(ids, w)}
<1>1. ASSUME TypeOK, NEW ids \in SUBSET Here, NEW w \in Windows
      PROVE  /\ Counted(ids, w) \in SUBSET ids
             /\ \A u : PresentAt(SpansOf(u, Counted(ids, w)), w, now) = PresentAt(SpansOf(u, ids), w, now)
             /\ \A u : PresentAt(SpansOf(u, ids), w, now) # {} <=> u \in {rows[i].user : i \in Counted(ids, w)}
  <2>1. \A i \in ids : i \in Counted(ids, w) <=>
           \E t \in w[1]..w[2] - 1 : rows[i].joined <= t /\ t < EndOf(rows[i], now)
    BY <1>1, HereRows, NowIsNat, ClipIs DEF Counted
  <2>2. Counted(ids, w) \in SUBSET ids
    BY DEF Counted
  <2>3. ASSUME NEW u
        PROVE  PresentAt(SpansOf(u, Counted(ids, w)), w, now) = PresentAt(SpansOf(u, ids), w, now)
    BY <2>1, <2>2 DEF PresentAt, SpansOf
  <2>4. ASSUME NEW u
        PROVE  PresentAt(SpansOf(u, ids), w, now) # {} <=> u \in {rows[i].user : i \in Counted(ids, w)}
    BY <2>1, <2>2 DEF PresentAt, SpansOf
  <2> QED BY <2>2, <2>3, <2>4
<1> QED BY <1>1

LEMMA PersonSecondsIs ==
    TypeOK => \A ids \in SUBSET Here, w \in Windows :
       PersonSeconds(Counted(ids, w), w) = Total([u \in User |-> SecondsAt(SpansOf(u, ids), w, now)])
<1>1. ASSUME TypeOK, NEW ids \in SUBSET Here, NEW w \in Windows
      PROVE  PersonSeconds(Counted(ids, w), w) = Total([u \in User |-> SecondsAt(SpansOf(u, ids), w, now)])
  <2>1. PICK f : f = [u \in User |-> SecondsAt(SpansOf(u, ids), w, now)]
    OBVIOUS
  <2>2. PICK D : D = {rows[i].user : i \in Counted(ids, w)}
    OBVIOUS
  <2>3. PICK g : g = [u \in D |-> SecondsOf(u, Counted(ids, w), w)]
    OBVIOUS
  <2>4. f \in [User -> Nat]
    BY <2>1, SecondsNat
  <2>5. D \in SUBSET User
    <3>1. \A i \in ids : rows[i].user \in User
      BY <1>1, HereRows DEF Row
    <3> QED BY <1>1, <2>2, <3>1, CountedIs
  <2>6. ASSUME NEW u \in D
        PROVE  g[u] = f[u] /\ g[u] \in Nat
    <3>1. PICK c : c = Counted(ids, w) /\ c \in SUBSET Here
      BY <1>1, CountedIs
    <3>2. g[u] = SecondsAt(SpansOf(u, c), w, now)
      BY <1>1, <2>3, <3>1, SecondsOfIs
    <3>3. PresentAt(SpansOf(u, c), w, now) = PresentAt(SpansOf(u, ids), w, now)
      BY <1>1, <3>1, CountedIs
    <3>4. f[u] = SecondsAt(SpansOf(u, ids), w, now)
      BY <2>1, <2>5
    <3>5. g[u] = f[u]
      BY <3>2, <3>3, <3>4 DEF SecondsAt
    <3> QED BY <2>4, <2>5, <3>5
  <2>7. ASSUME NEW u \in User \ D
        PROVE  f[u] = 0
    <3>1. PresentAt(SpansOf(u, ids), w, now) = {}
      BY <1>1, <2>2, CountedIs
    <3>2. f[u] = Cardinality({}) \div TicksPerSecond
      BY <2>1, <3>1 DEF SecondsAt
    <3> QED BY <3>2, FS_EmptySet, ArithmeticAssumption
  <2>8. g \in [D -> Nat]
    BY <2>3, <2>6
  <2>9. IsPart(g, D, f, User)
    BY <2>4, <2>5, <2>6, <2>7, <2>8 DEF IsPart
  <2>10. Total(g) = Total(f)
    BY <2>9, TotalOfPart, ReadsAssumption
  <2> QED BY <2>1, <2>2, <2>3, <2>10 DEF PersonSeconds
<1> QED BY <1>1

\* A question leaves out only stays that come to nothing in its window.
AskedOf(asked, u) ==
    {i \in SpansOf(u, Here) : /\ asked.by = "user" => u = asked.key
                              /\ asked.by = "room" => RoomOf[i] = asked.key}

LEMMA InTheWindow ==
    TypeOK => \A i \in Here, w \in Windows, at \in Nat :
       (\E t \in w[1]..w[2] - 1 : rows[i].joined <= t /\ t < EndOf(rows[i], at)) => InPeriod(i, w)
<1>1. ASSUME TypeOK, NEW i \in Here, NEW w \in Windows, NEW at \in Nat,
             NEW t \in w[1]..w[2] - 1, rows[i].joined <= t, t < EndOf(rows[i], at)
      PROVE  InPeriod(i, w)
  <2>1. rows[i] \in Row /\ IsRow(i)
    BY <1>1, HereRows, HereIsRow
  <2>2. w[1] \in Nat /\ w[2] \in Nat /\ rows[i].joined \in Nat /\ EndOf(rows[i], at) \in Nat
    BY <2>1, RowTimes DEF Windows
  <2>3. rows[i].joined < w[2] /\ w[1] < EndOf(rows[i], at)
    BY <1>1, <2>2
  <2> QED BY <2>1, <2>2, <2>3 DEF InPeriod, EndOf
<1> QED BY <1>1

LEMMA AskedIs ==
    TypeOK => \A w \in Windows : \A asked :
       /\ Asked(asked, w) \in SUBSET Here
       /\ \A u : PresentAt(SpansOf(u, Asked(asked, w)), w, now) = PresentAt(AskedOf(asked, u), w, now)
<1>1. ASSUME TypeOK, NEW w \in Windows, NEW asked
      PROVE  /\ Asked(asked, w) \in SUBSET Here
             /\ \A u : PresentAt(SpansOf(u, Asked(asked, w)), w, now) = PresentAt(AskedOf(asked, u), w, now)
  <2>1. Asked(asked, w) \in SUBSET Here
    BY DEF Asked, InPeriod, Here
  <2>2. ASSUME NEW u, NEW t
        PROVE  t \in PresentAt(SpansOf(u, Asked(asked, w)), w, now) <=>
                  t \in PresentAt(AskedOf(asked, u), w, now)
    <3>1. SpansOf(u, Asked(asked, w)) \subseteq AskedOf(asked, u)
      BY <2>1 DEF SpansOf, AskedOf, Asked
    <3>2. ASSUME NEW i \in AskedOf(asked, u), InPeriod(i, w)
          PROVE  i \in SpansOf(u, Asked(asked, w))
      BY <3>2 DEF SpansOf, AskedOf, Asked, Here
    <3>3. AskedOf(asked, u) \subseteq Here
      BY DEF AskedOf, SpansOf
    <3> QED BY <1>1, <3>1, <3>2, <3>3, InTheWindow, NowIsNat DEF PresentAt
  <2> QED BY <2>1, <2>2
<1> QED BY <1>1

LEMMA SecondsAskedIs ==
    TypeOK => \A w \in Windows : \A asked :
       SecondsAsked(asked, w) = Total([u \in User |-> SecondsAt(AskedOf(asked, u), w, now)])
<1>1. ASSUME TypeOK, NEW w \in Windows, NEW asked
      PROVE  SecondsAsked(asked, w) = Total([u \in User |-> SecondsAt(AskedOf(asked, u), w, now)])
  <2>1. PICK ids : ids = Asked(asked, w) /\ ids \in SUBSET Here
    BY <1>1, AskedIs
  <2>2. SecondsAsked(asked, w) = Total([u \in User |-> SecondsAt(SpansOf(u, ids), w, now)])
    BY <1>1, <2>1, PersonSecondsIs DEF SecondsAsked
  <2>3. \A u : SecondsAt(SpansOf(u, ids), w, now) = SecondsAt(AskedOf(asked, u), w, now)
    BY <1>1, <2>1, AskedIs DEF SecondsAt
  <2>4. [u \in User |-> SecondsAt(SpansOf(u, ids), w, now)]
           = [u \in User |-> SecondsAt(AskedOf(asked, u), w, now)]
    BY <2>3
  <2> QED BY <2>2, <2>4
<1> QED BY <1>1

LEMMA SecondsOfUser ==
    TypeOK => \A w \in Windows, u \in User :
       SecondsAsked(ByUser(u), w) = SecondsAt(SpansOf(u, Here), w, now)
<1>1. ASSUME TypeOK, NEW w \in Windows, NEW u \in User
      PROVE  SecondsAsked(ByUser(u), w) = SecondsAt(SpansOf(u, Here), w, now)
  <2>1. PICK asked : asked = ByUser(u)
    OBVIOUS
  <2>2. AskedOf(asked, u) = SpansOf(u, Here) /\ \A v : v # u => AskedOf(asked, v) = {}
    BY <2>1 DEF AskedOf, ByUser
  <2>3. PICK f : f = [v \in User |-> SecondsAt(AskedOf(asked, v), w, now)]
    OBVIOUS
  <2>4. PICK g : g = [v \in {u} |-> SecondsAt(AskedOf(asked, v), w, now)]
    OBVIOUS
  <2>5. IsPart(g, {u}, f, User)
    <3>1. ASSUME NEW v \in User \ {u}
          PROVE  f[v] = 0
      <4>1. PresentAt(AskedOf(asked, v), w, now) = {}
        BY <2>2 DEF PresentAt
      <4>2. f[v] = Cardinality({}) \div TicksPerSecond
        BY <2>3, <4>1 DEF SecondsAt
      <4> QED BY <4>2, FS_EmptySet, ArithmeticAssumption
    <3>2. f \in [User -> Nat] /\ g \in [{u} -> Nat] /\ g[u] = f[u]
      BY <2>3, <2>4, SecondsNat
    <3> QED BY <3>1, <3>2 DEF IsPart
  <2>6. Total(f) = g[u]
    <3>1. Total(g) = Total(f)
      BY <2>5, TotalOfPart, ReadsAssumption
    <3>2. Total(g) = g[u]
      BY <2>5, TotalOne DEF IsPart
    <3> QED BY <3>1, <3>2
  <2> QED BY <1>1, <2>1, <2>2, <2>3, <2>4, <2>6, SecondsAskedIs
<1> QED BY <1>1

LEMMA SecondsOfRoom ==
    TypeOK => \A w \in Windows, r \in Room :
       SecondsAsked(ByRoom(r), w) = Total([u \in User |-> SecondsAt(SpansOf(u, In(r)), w, now)])
<1>1. ASSUME TypeOK, NEW w \in Windows, NEW r \in Room
      PROVE  SecondsAsked(ByRoom(r), w) = Total([u \in User |-> SecondsAt(SpansOf(u, In(r)), w, now)])
  <2>1. PICK asked : asked = ByRoom(r)
    OBVIOUS
  <2>2. \A u : AskedOf(asked, u) = SpansOf(u, In(r))
    BY <2>1 DEF AskedOf, ByRoom, SpansOf, In
  <2>3. [u \in User |-> SecondsAt(AskedOf(asked, u), w, now)]
           = [u \in User |-> SecondsAt(SpansOf(u, In(r)), w, now)]
    BY <2>2
  <2> QED BY <1>1, <2>1, <2>3, SecondsAskedIs
<1> QED BY <1>1

-----------------------------------------------------------------------------
(* Pairs.                                                                   *)

Together(a, b, ids, w, at) ==
    Cardinality(PresentAt(SpansOf(a, ids), w, at) \cap PresentAt(SpansOf(b, ids), w, at)) \div TicksPerSecond
InRoom(r, ids) == {i \in ids \cap Here : RoomOf[i] = r}

LEMMA TogetherNat ==
    \A w \in Windows : \A a, b, ids, at :
       Together(a, b, ids, w, at) \in Nat /\ Together(a, b, ids, w, at) = Together(b, a, ids, w, at)
<1>1. ASSUME NEW w \in Windows, NEW a, NEW b, NEW ids, NEW at
      PROVE  Together(a, b, ids, w, at) \in Nat /\ Together(a, b, ids, w, at) = Together(b, a, ids, w, at)
  <2>1. PICK A, B : A = PresentAt(SpansOf(a, ids), w, at) /\ B = PresentAt(SpansOf(b, ids), w, at)
    OBVIOUS
  <2>2. IsFiniteSet(A) /\ A \cap B \subseteq A /\ A \cap B = B \cap A
    BY <2>1, PresentFinite
  <2>3. Cardinality(A \cap B) \in Nat
    BY <2>2, FS_Subset, FS_CardinalityType
  <2> QED BY <2>1, <2>2, <2>3, DivBounds, ArithmeticAssumption DEF Together
<1> QED BY <1>1

LEMMA RoomPairsAre ==
    TypeOK => \A w \in Windows, at \in Nat, ids \in SUBSET Span : \A r :
       RoomPairs(r, ids, w, at) =
          {p \in {<<a, b, Together(a, b, InRoom(r, ids), w, at)>> : a, b \in User} : p[1] < p[2] /\ p[3] > 0}
<1>1. ASSUME TypeOK, NEW w \in Windows, NEW at \in Nat, NEW ids \in SUBSET Span, NEW r
      PROVE  RoomPairs(r, ids, w, at) =
          {p \in {<<a, b, Together(a, b, InRoom(r, ids), w, at)>> : a, b \in User} : p[1] < p[2] /\ p[3] > 0}
  <2>1. PICK mine : mine = {i \in ids : InPeriod(i, w) /\ RoomOf[i] = r}
    OBVIOUS
  <2>2. mine \subseteq InRoom(r, ids) /\ mine \subseteq Here /\ InRoom(r, ids) \subseteq Here
        /\ \A i \in InRoom(r, ids) : InPeriod(i, w) => i \in mine
    BY <2>1 DEF InRoom, InPeriod, Here
  <2>3. ASSUME NEW u
        PROVE  PresentAt(SpansOf(u, mine), w, at) = PresentAt(SpansOf(u, InRoom(r, ids)), w, at)
    <3>1. ASSUME NEW t
          PROVE  t \in PresentAt(SpansOf(u, mine), w, at) <=> t \in PresentAt(SpansOf(u, InRoom(r, ids)), w, at)
      BY <1>1, <2>2, InTheWindow DEF PresentAt, SpansOf
    <3> QED BY <3>1
  <2>4. PICK D : D = {rows[i].user : i \in mine}
    OBVIOUS
  <2>5. PICK line : line = [u \in D |-> Merged(Timeline(SpansOf(u, mine), w, at))]
    OBVIOUS
  <2>6. D \subseteq User
    BY <1>1, <2>2, <2>4, HereRows DEF Row
  <2>7. ASSUME NEW a \in D, NEW b \in D
        PROVE  OverlapSeconds(line[a], line[b]) = Together(a, b, InRoom(r, ids), w, at)
    <3>1. PICK S, T : S = Timeline(SpansOf(a, mine), w, at) /\ T = Timeline(SpansOf(b, mine), w, at)
      OBVIOUS
    <3>2. SpansOf(a, mine) \in SUBSET Here /\ SpansOf(b, mine) \in SUBSET Here
      BY <2>2 DEF SpansOf
    <3>3. /\ S \in SUBSET Interval /\ IsFiniteSet(S) /\ Instants(S) = PresentAt(SpansOf(a, mine), w, at)
          /\ T \in SUBSET Interval /\ IsFiniteSet(T) /\ Instants(T) = PresentAt(SpansOf(b, mine), w, at)
      BY <1>1, <3>1, <3>2, TimelineIs
    <3>4. OverlapSeconds(Merged(S), Merged(T)) = Cardinality(Instants(S) \cap Instants(T)) \div TicksPerSecond
      BY <3>3, OverlapIsExact
    <3>5. line[a] = Merged(S) /\ line[b] = Merged(T)
      BY <2>5, <3>1
    <3> QED BY <2>3, <3>3, <3>4, <3>5 DEF Together
  <2>8. ASSUME NEW a, NEW b, a \notin D \/ b \notin D
        PROVE  Together(a, b, InRoom(r, ids), w, at) = 0
    <3>1. PresentAt(SpansOf(a, mine), w, at) = {} \/ PresentAt(SpansOf(b, mine), w, at) = {}
      BY <2>4, <2>8 DEF PresentAt, SpansOf
    <3>2. PresentAt(SpansOf(a, InRoom(r, ids)), w, at) \cap PresentAt(SpansOf(b, InRoom(r, ids)), w, at) = {}
      BY <2>3, <3>1
    <3> QED BY <3>2, FS_EmptySet, ArithmeticAssumption DEF Together
  <2>9. RoomPairs(r, ids, w, at) =
           {p \in {<<a, b, OverlapSeconds(line[a], line[b])>> : a, b \in D} : p[1] < p[2] /\ p[3] > 0}
    <3>1. DOMAIN line = D
      BY <2>5
    <3> QED BY <2>1, <2>4, <2>5, <3>1 DEF RoomPairs
  <2>10. {<<a, b, OverlapSeconds(line[a], line[b])>> : a, b \in D}
            = {<<a, b, Together(a, b, InRoom(r, ids), w, at)>> : a, b \in D}
    BY <2>7
  <2>11. ASSUME NEW p
         PROVE  p \in RoomPairs(r, ids, w, at) <=>
                   p \in {q \in {<<a, b, Together(a, b, InRoom(r, ids), w, at)>> : a, b \in User} :
                             q[1] < q[2] /\ q[3] > 0}
    <3>1. ASSUME NEW a \in User, NEW b \in User, p = <<a, b, Together(a, b, InRoom(r, ids), w, at)>>, p[3] > 0
          PROVE  a \in D /\ b \in D
      BY <2>8, <3>1
    <3> QED BY <2>6, <2>9, <2>10, <3>1
  <2> QED BY <2>11
<1> QED BY <1>1

-----------------------------------------------------------------------------
(* MeterIsPresence.                                                         *)

LEMMA MonthAfter ==
    ASSUME NEW m \in Nat \X (1..12), NEW n \in Nat \X (1..12), Ordinal(n) = Ordinal(m) + 1
    PROVE  n = NextMonth(m) /\ m = PriorMonth(n)
<1>1. PICK y \in Nat, k \in 1..12 : m = <<y, k>>
  OBVIOUS
<1>2. PICK z \in Nat, l \in 1..12 : n = <<z, l>>
  OBVIOUS
<1>3. 12 * z + l = 12 * y + k + 1
  BY <1>1, <1>2 DEF Ordinal
<1>4. (k = 12 /\ z = y + 1 /\ l = 1) \/ (k # 12 /\ l = k + 1 /\ z = y)
  BY <1>3
<1> QED BY <1>1, <1>2, <1>4 DEF NextMonth, PriorMonth

\* The months that may be asked for are in the calendar, one after the other.
LEMMA MonthIs ==
    \A m \in Month : IsPeriod(m) =>
       /\ m \in DOMAIN Midnight /\ NextMonth(m) \in DOMAIN Midnight
       /\ MonthBounds(m) \in Windows
<1>1. ASSUME NEW m \in Month, IsPeriod(m)
      PROVE  /\ m \in DOMAIN Midnight /\ NextMonth(m) \in DOMAIN Midnight
             /\ MonthBounds(m) \in Windows
  <2>1. m \in Nat \X (1..12) /\ MaxYear \in Nat
    BY CalendarAssumption, ArithmeticAssumption
  <2>2. Ordinal(m) < 12 * MaxYear + 12
    BY <1>1, <2>1 DEF IsPeriod, NextMonth, Ordinal
  <2>3. m \in DOMAIN Midnight /\ \E n \in DOMAIN Midnight : Ordinal(n) = Ordinal(m) + 1
    BY <2>2, CalendarAssumption
  <2>4. NextMonth(m) \in DOMAIN Midnight
    BY <2>1, <2>3, CalendarAssumption, MonthAfter
  <2> QED BY <2>3, <2>4, CalendarAssumption DEF MonthBounds, Windows
<1> QED BY <1>1

LEMMA MeterIs == TypeOK => MeterIsPresence
<1>1. SUFFICES ASSUME TypeOK PROVE MeterIsPresence
  OBVIOUS
<1>2. ASSUME NEW w \in Window
      PROVE  w \in Windows
  BY MonthIs, ReadsAssumption DEF Window, Windows
<1>3. \A ids, w : Present(ids, w) = PresentAt(ids, w, now)
  BY DEF Present, PresentAt, EndOf
<1>4. ASSUME NEW w \in Window, NEW u \in User
      PROVE  PersonIsPresence(u, w)
  BY <1>1, <1>2, <1>3, SecondsOfUser DEF PersonIsPresence, SecondsAt, Seconds
<1>5. ASSUME NEW w \in Window, NEW r \in Room
      PROVE  RoomIsPresence(r, w)
  <2>1. InRoom(r, Here) = In(r) /\ Here \in SUBSET Span /\ now \in Nat
    BY <1>1, NowIsNat DEF InRoom, In, Here
  <2>2. SecondsAsked(ByRoom(r), w) = Total([u \in User |-> Seconds(Present(SpansOf(u, In(r)), w))])
    <3>1. [u \in User |-> Seconds(Present(SpansOf(u, In(r)), w))]
             = [u \in User |-> SecondsAt(SpansOf(u, In(r)), w, now)]
      BY <1>3 DEF SecondsAt, Seconds
    <3> QED BY <1>1, <1>2, <3>1, SecondsOfRoom
  <2> DEFINE Q == {<<a, b, SecondsOfBoth(a, b, r, w)>> : a, b \in User}
             R == {<<a, b, Together(a, b, In(r), w, now)>> : a, b \in User}
  <2>3. \A a, b : SecondsOfBoth(a, b, r, w) = Together(a, b, In(r), w, now)
    BY <1>3 DEF SecondsOfBoth, Together, Seconds
  <2>4. ASSUME NEW p
        PROVE  p \in Q <=> p \in R
    BY <2>3
  <2>5. Q = R
    <3> HIDE DEF Q, R
    <3> QED BY <2>4
  <2>6. RoomPairs(r, Here, w, now) = {p \in R : p[1] < p[2] /\ p[3] > 0}
    BY <1>1, <1>2, <2>1, RoomPairsAre
  <2>7. RoomPairs(r, Here, w, now) = {p \in Q : p[1] < p[2] /\ p[3] > 0}
    <3> HIDE DEF Q, R
    <3> QED BY <2>5, <2>6
  <2> QED BY <2>2, <2>7 DEF RoomIsPresence
<1> QED BY <1>4, <1>5 DEF MeterIsPresence

-----------------------------------------------------------------------------
(* UsageIsTheTenants: a page of a tenant.                                   *)

\* A person's row on the page, from the stays that are counted for it.
LEMMA RollupRowIs ==
    TypeOK => \A ids \in SUBSET Here, w \in Windows : \A u \in {rows[i].user : i \in Counted(ids, w)} :
       LET a == RollupRow(u, SpansOf(u, Counted(ids, w)), w)
           seen == PresentAt(SpansOf(u, ids), w, now)
       IN  /\ a.user = u /\ a.seconds = SecondsAt(SpansOf(u, ids), w, now)
           /\ a.first \in seen /\ a.last - 1 \in seen /\ seen \subseteq a.first..a.last - 1
<1>1. ASSUME TypeOK, NEW ids \in SUBSET Here, NEW w \in Windows,
             NEW u \in {rows[i].user : i \in Counted(ids, w)},
             NEW a, a = RollupRow(u, SpansOf(u, Counted(ids, w)), w),
             NEW seen, seen = PresentAt(SpansOf(u, ids), w, now)
      PROVE  /\ a.user = u /\ a.seconds = SecondsAt(SpansOf(u, ids), w, now)
             /\ a.first \in seen /\ a.last - 1 \in seen /\ seen \subseteq a.first..a.last - 1
  <2>1. PICK mine, S, m : mine = SpansOf(u, Counted(ids, w)) /\ S = Timeline(mine, w, now) /\ m = Merged(S)
    OBVIOUS
  <2>2. mine \in SUBSET Here
    BY <1>1, <2>1, CountedIs DEF SpansOf
  <2>3. /\ S \in SUBSET Interval /\ IsFiniteSet(S)
        /\ Instants(S) = PresentAt(mine, w, now)
    BY <1>1, <2>1, <2>2, TimelineIs, NowIsNat
  <2>4. PresentAt(mine, w, now) = seen
    BY <1>1, <2>1, CountedIs
  <2>5. IsTimeline(m) /\ Held(m) = seen
    BY <2>1, <2>3, <2>4, InstantsHeld
  <2>6. Len(m) > 0
    <3>1. PresentAt(SpansOf(u, ids), w, now) # {}
      BY <1>1, CountedIs
    <3>2. PICK t : t \in Held(m)
      BY <1>1, <2>5, <3>1
    <3>3. PICK i \in 1..Len(m) : TRUE
      BY <3>2 DEF Held, Covers
    <3>4. Len(m) \in Nat
      BY <2>5 DEF IsTimeline, Times
    <3> QED BY <3>3, <3>4
  <2>7. m[1][1] \in seen /\ m[Len(m)][2] - 1 \in seen /\ seen \subseteq m[1][1]..m[Len(m)][2] - 1
    BY <2>5, <2>6, TimelineEnds
  <2>8. a.user = u /\ a.seconds = IntervalSeconds(m) /\ a.first = m[1][1] /\ a.last = m[Len(m)][2]
    BY <1>1, <2>1 DEF RollupRow
  <2>9. IntervalSeconds(m) = SecondsAt(SpansOf(u, ids), w, now)
    <3>1. Ticks(m) = Cardinality(Instants(S))
      BY <2>1, <2>3, UnionIsExact
    <3> QED BY <1>1, <2>3, <2>4, <3>1 DEF IntervalSeconds, SecondsAt
  <2> QED BY <2>7, <2>8, <2>9
<1> QED BY <1>1

LEMMA RollupIs ==
    TypeOK => \A w \in Windows : \A tenant :
       /\ Rollup(tenant, w) = RowsOf(Counted(StaysOf(tenant), w), w)
       /\ IsUsageOf(Rollup(tenant, w), StaysOf(tenant), w)
<1>1. ASSUME TypeOK, NEW w \in Windows, NEW tenant
      PROVE  /\ Rollup(tenant, w) = RowsOf(Counted(StaysOf(tenant), w), w)
             /\ IsUsageOf(Rollup(tenant, w), StaysOf(tenant), w)
  <2>1. PICK ids, c : ids = StaysOf(tenant) /\ c = Counted(ids, w)
    OBVIOUS
  <2>2. ids \in SUBSET Here
    BY <2>1 DEF StaysOf
  <2>3. Counted({i \in Span : InPeriod(i, w) /\ rows[i].tenant = tenant}, w) = c
    <3>1. ASSUME NEW i \in ids, i \in c
          PROVE  InPeriod(i, w) /\ i \in Span
      <4>1. \E t \in w[1]..w[2] - 1 : rows[i].joined <= t /\ t < EndOf(rows[i], now)
        BY <1>1, <2>1, <2>2, <3>1, HereRows, NowIsNat, ClipIs DEF Counted
      <4> QED BY <1>1, <2>2, <4>1, InTheWindow, NowIsNat DEF Here
    <3>2. ASSUME NEW i \in Span, InPeriod(i, w), rows[i].tenant = tenant
          PROVE  i \in ids
      BY <2>1, <3>2 DEF StaysOf, Here, InPeriod
    <3>3. \A i \in ids : rows[i].tenant = tenant
      BY <2>1 DEF StaysOf
    <3> QED BY <2>1, <3>1, <3>2, <3>3 DEF Counted
  <2>4. Rollup(tenant, w) = RowsOf(c, w)
    BY <2>3 DEF Rollup
  <2>5. PICK D : D = {rows[i].user : i \in c}
    OBVIOUS
  <2>6. RowsOf(c, w) = {RollupRow(u, SpansOf(u, c), w) : u \in D}
    BY <2>5 DEF RowsOf
  <2>7. ASSUME NEW u \in D, NEW a, a = RollupRow(u, SpansOf(u, c), w)
        PROVE  /\ a.user = u /\ a.seconds = Seconds(Present(SpansOf(u, ids), w))
               /\ a.first \in Present(SpansOf(u, ids), w) /\ a.last - 1 \in Present(SpansOf(u, ids), w)
               /\ Present(SpansOf(u, ids), w) \subseteq a.first..a.last - 1
    <3>1. Present(SpansOf(u, ids), w) = PresentAt(SpansOf(u, ids), w, now)
      BY DEF Present, PresentAt, EndOf
    <3>2. u \in {rows[i].user : i \in Counted(ids, w)} /\ a = RollupRow(u, SpansOf(u, Counted(ids, w)), w)
      BY <2>1, <2>5, <2>7
    <3>3. /\ a.user = u /\ a.seconds = SecondsAt(SpansOf(u, ids), w, now)
          /\ a.first \in PresentAt(SpansOf(u, ids), w, now) /\ a.last - 1 \in PresentAt(SpansOf(u, ids), w, now)
          /\ PresentAt(SpansOf(u, ids), w, now) \subseteq a.first..a.last - 1
      BY <1>1, <2>2, <3>2, RollupRowIs
    <3> QED BY <3>1, <3>3 DEF SecondsAt, Seconds
  <2>8. {a.user : a \in RowsOf(c, w)} = D
    BY <2>6, <2>7
  <2>9. D = {u \in User : Present(SpansOf(u, ids), w) # {}}
    <3>1. ASSUME NEW u
          PROVE  u \in D <=> u \in User /\ Present(SpansOf(u, ids), w) # {}
      <4>1. Present(SpansOf(u, ids), w) = PresentAt(SpansOf(u, ids), w, now)
        BY DEF Present, PresentAt, EndOf
      <4>2. \A i \in c : i \in Here /\ rows[i].user \in User
        BY <1>1, <2>1, <2>2, CountedIs, HereRows DEF Row
      <4>3. PresentAt(SpansOf(u, ids), w, now) # {} <=> u \in {rows[i].user : i \in Counted(ids, w)}
        BY <1>1, <2>2, CountedIs
      <4>4. u \in D => u \in User
        BY <2>5, <4>2
      <4> QED BY <2>1, <2>5, <4>1, <4>3, <4>4
    <3> QED BY <3>1
  <2>10. IsUsageOf(RowsOf(c, w), ids, w)
    <3>1. ASSUME NEW a \in RowsOf(c, w), NEW seen, seen = Present(SpansOf(a.user, ids), w)
          PROVE  /\ a.seconds = Seconds(seen)
                 /\ {a.first, a.last - 1} \subseteq seen /\ seen \subseteq a.first..a.last - 1
      BY <2>6, <2>7, <3>1
    <3> QED BY <2>8, <2>9, <3>1 DEF IsUsageOf
  <2> QED BY <2>1, <2>4, <2>10
<1> QED BY <1>1

LEMMA UsageIs == TypeOK => UsageIsTheTenants
<1>1. ASSUME TypeOK, NEW caller \in User, NEW tenant \in Tenant, NEW m \in Month,
             NEW answer, answer = ScopeUsage(caller, tenant, m)
      PROVE  /\ answer.status = 200 <=> MayRead(caller, tenant) /\ IsPeriod(m)
             /\ answer.status # 200 => answer.users = {}
             /\ answer.status = 200 => IsUsageOf(answer.users, StaysOf(tenant), MonthBounds(m))
  <2>1. /\ answer.status = 200 <=> MayRead(caller, tenant) /\ IsPeriod(m)
        /\ answer.status # 200 => answer.users = {}
        /\ answer.status = 200 => answer.users = Rollup(tenant, MonthBounds(m))
    BY <1>1 DEF ScopeUsage
  <2> QED BY <1>1, <2>1, MonthIs, RollupIs
<1> QED BY <1>1 DEF UsageIsTheTenants

\* The seconds that any question comes to, and any room's pairs, are those of the
\* instants in which somebody was there (functions.py:66-68).
THEOREM MeterOfPresence == Spec => []MeterIsPresence
  BY ReadsTypes, MeterIs, PTL

\* A page of a tenant is the presence of its own people, and of nobody else
\* (usage.py:26-30).
THEOREM PageOfTenant == Spec => []UsageIsTheTenants
  BY ReadsTypes, UsageIs, PTL

-----------------------------------------------------------------------------
(* MonthsAddUp: the months of a table.                                      *)

LEMMA OrdinalIs ==
    \A m, n \in Nat \X (1..12) :
       /\ Ordinal(m) \in Nat /\ Ordinal(n) \in Nat
       /\ (n[1] < m[1] \/ (n[1] = m[1] /\ n[2] < m[2])) <=> Ordinal(n) < Ordinal(m)
       /\ Ordinal(n) = Ordinal(m) => n = m
<1>1. ASSUME NEW m \in Nat \X (1..12), NEW n \in Nat \X (1..12)
      PROVE  /\ Ordinal(m) \in Nat /\ Ordinal(n) \in Nat
             /\ (n[1] < m[1] \/ (n[1] = m[1] /\ n[2] < m[2])) <=> Ordinal(n) < Ordinal(m)
             /\ Ordinal(n) = Ordinal(m) => n = m
  <2>1. PICK y \in Nat, k \in 1..12 : m = <<y, k>>
    OBVIOUS
  <2>2. PICK z \in Nat, l \in 1..12 : n = <<z, l>>
    OBVIOUS
  <2>3. Ordinal(m) = 12 * y + k /\ Ordinal(n) = 12 * z + l
    BY <2>1, <2>2 DEF Ordinal
  <2>4. /\ z < y \/ (z = y /\ l < k) <=> 12 * z + l < 12 * y + k
        /\ 12 * z + l = 12 * y + k => z = y /\ l = k
    OBVIOUS
  <2> QED BY <2>1, <2>2, <2>3, <2>4
<1> QED BY <1>1

\* The calendar has the month it is, the one after it, and those of a table.
HasMonths(h) ==
    /\ h \in DOMAIN Midnight
    /\ \A k \in 1..MonthsShown : \E p \in DOMAIN Midnight : Ordinal(p) + k = Ordinal(h) + 1

LEMMA ThisMonthIs ==
    TypeOK => /\ HasMonths(ThisMonth) /\ Midnight[ThisMonth] <= now
              /\ NextMonth(ThisMonth) \in DOMAIN Midnight /\ now < Midnight[NextMonth(ThisMonth)]
<1>1. SUFFICES ASSUME TypeOK
               PROVE  /\ HasMonths(ThisMonth) /\ Midnight[ThisMonth] <= now
                      /\ NextMonth(ThisMonth) \in DOMAIN Midnight /\ now < Midnight[NextMonth(ThisMonth)]
  OBVIOUS
<1>2. PICK t, D : t = now /\ D = DOMAIN Midnight
  OBVIOUS
<1>3. t \in 0..MaxTime /\ t \in Nat
  BY <1>1, <1>2, ReadsAssumption DEF TypeOK
<1>4. D \subseteq Nat \X (1..12) /\ Midnight \in [D -> Nat]
      /\ \A m, n \in D : Ordinal(m) <= Ordinal(n) => Midnight[m] <= Midnight[n]
  BY <1>2, CalendarAssumption
<1>5. PICK m \in D, n \in D :
          /\ Ordinal(n) = Ordinal(m) + 1 /\ Midnight[m] <= t /\ t < Midnight[n]
          /\ \A k \in 1..MonthsShown : \E p \in D : Ordinal(p) + k = Ordinal(m) + 1
  BY <1>2, <1>3, CalendarAssumption
<1> DEFINE IsNow(h) == Midnight[h] <= now /\ \A q \in DOMAIN Midnight \ {h} :
               Midnight[q] <= now => q[1] < h[1] \/ (q[1] = h[1] /\ q[2] < h[2])
<1>6. ASSUME NEW q \in D, Midnight[q] <= t, q # m
      PROVE  Ordinal(q) < Ordinal(m)
  <2>1. PICK a, b, c, x, y : a = Ordinal(q) /\ b = Ordinal(m) /\ c = Ordinal(n)
                              /\ x = Midnight[q] /\ y = Midnight[n]
    OBVIOUS
  <2>2. a \in Nat /\ b \in Nat /\ c \in Nat /\ x \in Nat /\ y \in Nat /\ a # b
    BY <1>4, <1>6, <2>1, OrdinalIs
  <2>3. c = b + 1 /\ x <= t /\ t < y /\ (c <= a => y <= x)
    BY <1>4, <1>5, <1>6, <2>1
  <2> QED BY <1>3, <2>1, <2>2, <2>3
<1>7. IsNow(m)
  BY <1>2, <1>4, <1>5, <1>6, OrdinalIs
<1>8. ASSUME NEW h \in D, IsNow(h)
      PROVE  h = m
  <2>1. SUFFICES ASSUME h # m PROVE FALSE
    OBVIOUS
  <2>2. Ordinal(h) < Ordinal(m)
    BY <1>2, <1>6, <1>8, <2>1
  <2>3. Ordinal(m) < Ordinal(h)
    BY <1>2, <1>4, <1>5, <1>8, <2>1, OrdinalIs
  <2> QED BY <1>4, <2>2, <2>3, OrdinalIs
<1>9. ThisMonth = m
  <2>1. ThisMonth = CHOOSE h \in DOMAIN Midnight : IsNow(h)
    BY DEF ThisMonth
  <2> HIDE DEF IsNow
  <2> QED BY <1>2, <1>7, <1>8, <2>1
<1>10. n = NextMonth(m)
  BY <1>4, <1>5, MonthAfter
<1> QED BY <1>2, <1>5, <1>9, <1>10 DEF HasMonths

\* recent_months counts back one month at a time.
LEMMA RecentMonthsAre ==
    ASSUME NEW h, HasMonths(h)
    PROVE  \A i \in 1..MonthsShown : /\ RecentMonths(MonthsShown, h)[i] \in DOMAIN Midnight
                                     /\ Ordinal(RecentMonths(MonthsShown, h)[i]) + i = Ordinal(h) + 1
<1> DEFINE N == MonthsShown
           D == DOMAIN Midnight
           At(i) == CHOOSE p \in D : Ordinal(p) + i = Ordinal(h) + 1
           Eq(f) == f = [i \in 1..N |-> IF i = 1 THEN h ELSE PriorMonth(f[i - 1])]
           g == [i \in 1..N |-> At(i)]
           month == CHOOSE f : Eq(f)
<1>1. N \in Nat \ {0} /\ D \subseteq Nat \X (1..12) /\ h \in D
  BY ReadsAssumption, CalendarAssumption DEF HasMonths
<1>2. ASSUME NEW i \in 1..N
      PROVE  g[i] \in D /\ Ordinal(g[i]) + i = Ordinal(h) + 1
  BY <1>2 DEF HasMonths
<1>3. \A p \in D : Ordinal(p) \in Nat
  BY <1>1, OrdinalIs
<1>4. ASSUME 1 \in 1..N
      PROVE  g[1] = h
  <2>1. g[1] \in D /\ Ordinal(g[1]) + 1 = Ordinal(h) + 1
    BY <1>2, <1>4
  <2>2. Ordinal(g[1]) = Ordinal(h)
    BY <1>1, <1>3, <2>1
  <2> QED BY <1>1, <2>1, <2>2, OrdinalIs
<1>5. ASSUME NEW i \in 1..N, i # 1
      PROVE  i - 1 \in 1..N /\ g[i] = PriorMonth(g[i - 1])
  <2>1. i - 1 \in 1..N
    BY <1>1, <1>5
  <2>2. PICK p, q : p = g[i] /\ q = g[i - 1]
    OBVIOUS
  <2>3. p \in D /\ q \in D /\ Ordinal(p) + i = Ordinal(h) + 1 /\ Ordinal(q) + (i - 1) = Ordinal(h) + 1
    BY <1>2, <2>1, <2>2
  <2>4. Ordinal(q) = Ordinal(p) + 1
    BY <1>1, <1>3, <2>3
  <2>5. p = PriorMonth(q)
    BY <1>1, <2>3, <2>4, MonthAfter
  <2> QED BY <2>1, <2>2, <2>5
<1>6. Eq(g)
  <2>1. ASSUME NEW i \in 1..N
        PROVE  g[i] = IF i = 1 THEN h ELSE PriorMonth(g[i - 1])
    <3> HIDE DEF g, N
    <3>1. CASE i = 1
      BY <1>4, <3>1
    <3>2. CASE i # 1
      BY <1>5, <3>2
    <3> QED BY <3>1, <3>2
  <2>2. g = [i \in 1..N |-> g[i]]
    OBVIOUS
  <2> HIDE DEF g
  <2> QED BY <2>1, <2>2
<1>7. Eq(month)
  <2> HIDE DEF Eq, g
  <2> QED BY <1>6
<1>8. \A i \in 1..N : month[i] = g[i]
  <2>1. \A i \in 1..N : month[i] = IF i = 1 THEN h ELSE PriorMonth(month[i - 1])
    <3>1. PICK f : f = month /\ Eq(f)
      BY <1>7
    <3>2. \A i \in 1..N : f[i] = IF i = 1 THEN h ELSE PriorMonth(f[i - 1])
      BY <3>1
    <3> QED BY <3>1, <3>2
  <2> DEFINE T == {k \in Nat : k + 1 \in 1..N => month[k + 1] = g[k + 1]}
  <2> HIDE DEF month, g, N
  <2>2. 0 \in T
    BY <1>4, <2>1
  <2>3. ASSUME NEW k \in T
        PROVE  k + 1 \in T
    <3>1. SUFFICES ASSUME k + 2 \in 1..N PROVE month[k + 2] = g[k + 2]
      OBVIOUS
    <3>2. k \in Nat /\ k + 1 \in 1..N /\ k + 2 # 1 /\ (k + 2) - 1 = k + 1
      BY <1>1, <3>1
    <3>3. month[k + 1] = g[k + 1]
      BY <3>2
    <3>4. month[k + 2] = PriorMonth(month[k + 1]) /\ g[k + 2] = PriorMonth(g[k + 1])
      BY <1>5, <2>1, <3>1, <3>2
    <3> QED BY <3>3, <3>4
  <2>4. T \subseteq Nat
    OBVIOUS
  <2>5. T = Nat
    <3> HIDE DEF T
    <3> QED BY <2>2, <2>3, <2>4, NatIsAll
  <2>6. ASSUME NEW i \in 1..N
        PROVE  month[i] = g[i]
    <3>1. i - 1 \in Nat /\ (i - 1) + 1 = i
      BY <1>1
    <3>2. i - 1 \in T
      BY <2>5, <3>1
    <3> QED BY <3>1, <3>2
  <2> QED BY <2>6
<1>9. RecentMonths(N, h) = [i \in 1..N |-> month[i]]
  BY DEF RecentMonths
<1> HIDE DEF month, g
<1> QED BY <1>2, <1>8, <1>9

\* The months of a table, newest first: each ends where the one before it starts.
IsCalendar(s, e, N) ==
    /\ N \in Nat \ {0} /\ s \in [1..N -> Nat] /\ e \in [1..N -> Nat]
    /\ \A i \in 1..N : s[i] <= e[i] /\ (i # 1 => e[i] = s[i - 1])
    /\ \A i, j \in 1..N : i < j => e[j] <= s[i]
Starts == [i \in 1..MonthsShown |-> MonthBounds(RecentMonths(MonthsShown, ThisMonth)[i])[1]]
Ends == [i \in 1..MonthsShown |-> MonthBounds(RecentMonths(MonthsShown, ThisMonth)[i])[2]]

LEMMA MonthsAre == TypeOK => IsCalendar(Starts, Ends, MonthsShown) /\ now < Ends[1]
<1>1. SUFFICES ASSUME TypeOK PROVE IsCalendar(Starts, Ends, MonthsShown) /\ now < Ends[1]
  OBVIOUS
<1>2. PICK h, N, D, months : /\ h = ThisMonth /\ N = MonthsShown /\ D = DOMAIN Midnight
                             /\ months = RecentMonths(N, h)
  OBVIOUS
<1>3. /\ HasMonths(h) /\ NextMonth(h) \in D /\ now < Midnight[NextMonth(h)]
  BY <1>1, <1>2, ThisMonthIs
<1>4. /\ N \in Nat \ {0} /\ D \subseteq Nat \X (1..12) /\ h \in D /\ Midnight \in [D -> Nat]
      /\ \A m, n \in D : Ordinal(m) <= Ordinal(n) => Midnight[m] <= Midnight[n]
  BY <1>2, <1>3, ReadsAssumption, CalendarAssumption DEF HasMonths
<1>5. \A i \in 1..N : months[i] \in D /\ Ordinal(months[i]) + i = Ordinal(h) + 1
  BY <1>2, <1>3, RecentMonthsAre
<1>6. \A p \in D : Ordinal(p) \in Nat
  BY <1>4, OrdinalIs
<1>7. ASSUME 1 \in 1..N
      PROVE  months[1] = h
  <2>1. Ordinal(months[1]) = Ordinal(h)
    BY <1>4, <1>5, <1>6, <1>7
  <2> QED BY <1>4, <1>5, <1>7, <2>1, OrdinalIs
<1>8. ASSUME NEW i \in 1..N, i # 1
      PROVE  i - 1 \in 1..N /\ NextMonth(months[i]) = months[i - 1]
  <2>1. i - 1 \in 1..N
    BY <1>4, <1>8
  <2>2. PICK p, q : p = months[i] /\ q = months[i - 1]
    OBVIOUS
  <2>3. p \in D /\ q \in D /\ Ordinal(p) + i = Ordinal(h) + 1 /\ Ordinal(q) + (i - 1) = Ordinal(h) + 1
    BY <1>5, <2>1, <2>2
  <2>4. Ordinal(q) = Ordinal(p) + 1
    BY <1>4, <1>6, <2>3
  <2> QED BY <1>4, <2>1, <2>2, <2>3, <2>4, MonthAfter
<1>9. ASSUME NEW i \in 1..N
      PROVE  NextMonth(months[i]) \in D /\ Ordinal(NextMonth(months[i])) = Ordinal(months[i]) + 1
  <2>1. NextMonth(months[i]) \in D
    BY <1>2, <1>3, <1>5, <1>7, <1>8
  <2>2. PICK y \in Nat, k \in 1..12 : months[i] = <<y, k>>
    BY <1>4, <1>5
  <2> QED BY <2>1, <2>2 DEF NextMonth, Ordinal
<1>10. ASSUME NEW i \in 1..N
       PROVE  /\ Starts[i] = Midnight[months[i]] /\ Ends[i] = Midnight[NextMonth(months[i])]
              /\ Starts[i] \in Nat /\ Ends[i] \in Nat /\ Starts[i] <= Ends[i]
              /\ (i # 1 => Ends[i] = Starts[i - 1])
  <2>1. Starts[i] = Midnight[months[i]] /\ Ends[i] = Midnight[NextMonth(months[i])]
    BY <1>2 DEF Starts, Ends, MonthBounds
  <2>2. Starts[i] \in Nat /\ Ends[i] \in Nat
    BY <1>4, <1>5, <1>9, <2>1
  <2>3. Starts[i] <= Ends[i]
    <3>1. PICK p, n : p = months[i] /\ n = NextMonth(p)
      OBVIOUS
    <3>2. p \in D /\ n \in D /\ Ordinal(n) = Ordinal(p) + 1 /\ Ordinal(p) \in Nat
      BY <1>5, <1>6, <1>9, <3>1
    <3>3. Ordinal(p) <= Ordinal(n)
      BY <3>2
    <3> QED BY <1>4, <2>1, <3>1, <3>2, <3>3
  <2>4. i # 1 => Ends[i] = Starts[i - 1]
    <3>1. ASSUME i # 1
          PROVE  Starts[i - 1] = Midnight[months[i - 1]]
      BY <1>2, <1>8, <3>1 DEF Starts, MonthBounds
    <3> QED BY <1>8, <2>1, <3>1
  <2> QED BY <2>1, <2>2, <2>3, <2>4
<1>11. ASSUME NEW i \in 1..N, NEW j \in 1..N, i < j
       PROVE  Ends[j] <= Starts[i]
  <2>1. PICK p, n : p = months[i] /\ n = NextMonth(months[j])
    OBVIOUS
  <2>2. p \in D /\ n \in D /\ Ordinal(n) \in Nat /\ Ordinal(p) \in Nat /\ Ordinal(h) \in Nat
    BY <1>4, <1>5, <1>6, <1>9, <2>1
  <2>3. PICK a \in Nat, b \in Nat, c \in Nat, d \in Nat :
             a = Ordinal(n) /\ b = Ordinal(p) /\ c = Ordinal(h) /\ d = Ordinal(months[j])
    BY <1>5, <1>6, <2>2
  <2>4. a = d + 1 /\ d + j = c + 1 /\ b + i = c + 1
    BY <1>5, <1>9, <2>1, <2>3
  <2>5. a <= b
    BY <1>4, <1>11, <2>4
  <2> QED BY <1>4, <1>10, <2>1, <2>2, <2>3, <2>5
<1>12. 1 \in 1..N
  BY <1>4
<1>13. Starts \in [1..N -> Nat] /\ Ends \in [1..N -> Nat]
  <2>1. Starts = [i \in 1..N |-> Starts[i]] /\ Ends = [i \in 1..N |-> Ends[i]]
    BY <1>2 DEF Starts, Ends
  <2> QED BY <1>10, <2>1
<1>14. now < Ends[1]
  BY <1>3, <1>7, <1>10, <1>12
<1> QED BY <1>2, <1>4, <1>10, <1>11, <1>13, <1>14 DEF IsCalendar

\* Such months tile the time from the oldest to the newest.
LEMMA CalendarTiles ==
    ASSUME NEW s, NEW e, NEW N, IsCalendar(s, e, N)
    PROVE  /\ \A t \in s[N]..e[1] - 1 : \E i \in 1..N : s[i] <= t /\ t < e[i]
           /\ \A t \in Nat, i, j \in 1..N : s[i] <= t /\ t < e[i] /\ s[j] <= t /\ t < e[j] => i = j
           /\ \A i \in 1..N : s[N] <= s[i] /\ e[i] <= e[1]
           /\ 1 \in 1..N /\ N \in 1..N /\ s[N] \in Nat /\ e[1] \in Nat
<1>1. /\ N \in Nat \ {0} /\ \A i \in 1..N : s[i] \in Nat /\ e[i] \in Nat
      /\ \A i \in 1..N : s[i] <= e[i] /\ (i # 1 => e[i] = s[i - 1])
      /\ \A i, j \in 1..N : i < j => e[j] <= s[i]
  BY DEF IsCalendar
<1>2. 1 \in 1..N /\ N \in 1..N /\ s[N] \in Nat /\ e[1] \in Nat
  BY <1>1
<1>3. ASSUME NEW t \in s[N]..e[1] - 1
      PROVE  \E i \in 1..N : s[i] <= t /\ t < e[i]
  <2> DEFINE T == {i \in 1..N : s[i] <= t}
  <2>1. t \in Nat /\ N \in T /\ T \subseteq Nat
    BY <1>2, <1>1
  <2>2. PICK i \in T : \A j \in T : i <= j
    <3> HIDE DEF T
    <3> QED BY <2>1, LeastNat
  <2>3. CASE i = 1
    BY <1>2, <2>2, <2>3
  <2>4. CASE i # 1
    <3>1. i - 1 \in 1..N /\ ~(i <= i - 1)
      BY <1>1, <2>2, <2>4
    <3>2. i - 1 \notin T
      BY <2>2, <3>1
    <3>3. t < s[i - 1]
      BY <1>1, <2>1, <3>1, <3>2
    <3> QED BY <1>1, <2>2, <2>4, <3>3
  <2> QED BY <2>3, <2>4
<1>4. ASSUME NEW t \in Nat, NEW i \in 1..N, NEW j \in 1..N, s[i] <= t, t < e[i], s[j] <= t, t < e[j]
      PROVE  i = j
  <2>1. ~(i < j)
    BY <1>1, <1>4
  <2>2. ~(j < i)
    BY <1>1, <1>4
  <2> QED BY <1>1, <2>1, <2>2
<1>5. ASSUME NEW i \in 1..N
      PROVE  s[N] <= s[i] /\ e[i] <= e[1]
  <2>1. i = N \/ i < N
    BY <1>1
  <2>2. i = 1 \/ 1 < i
    BY <1>1
  <2>3. s[N] <= s[i]
    <3>1. CASE i < N
      <4>1. e[N] <= s[i] /\ s[N] <= e[N]
        BY <1>1, <1>2, <3>1
      <4> QED BY <1>1, <1>2, <4>1
    <3> QED BY <1>2, <2>1, <3>1
  <2>4. e[i] <= e[1]
    <3>1. CASE 1 < i
      <4>1. e[i] <= s[1] /\ s[1] <= e[1]
        BY <1>1, <1>2, <3>1
      <4> QED BY <1>1, <1>2, <4>1
    <3> QED BY <1>2, <2>2, <3>1
  <2> QED BY <2>3, <2>4
<1> QED BY <1>2, <1>3, <1>4, <1>5

LEMMA TableIs ==
    ASSUME NEW tenant, NEW table, table = Table(tenant, MonthsShown)
    PROVE  \A i \in 1..MonthsShown :
              /\ table[i].start = Starts[i] /\ table[i].end = Ends[i]
              /\ table[i].users = Rollup(tenant, <<Starts[i], Ends[i]>>)
<1>1. PICK months : months = RecentMonths(MonthsShown, ThisMonth)
  OBVIOUS
<1>2. ASSUME NEW i \in 1..MonthsShown
      PROVE  /\ table[i].start = Starts[i] /\ table[i].end = Ends[i]
             /\ table[i].users = Rollup(tenant, <<Starts[i], Ends[i]>>)
  <2>1. /\ table[i].start = MonthBounds(months[i])[1] /\ table[i].end = MonthBounds(months[i])[2]
        /\ table[i].users = Rollup(tenant, MonthBounds(months[i]))
    BY <1>1, <1>2 DEF Table
  <2>2. Starts[i] = MonthBounds(months[i])[1] /\ Ends[i] = MonthBounds(months[i])[2]
    BY <1>1, <1>2 DEF Starts, Ends
  <2>3. MonthBounds(months[i]) = <<Starts[i], Ends[i]>>
    BY <2>2 DEF MonthBounds
  <2> QED BY <2>1, <2>2, <2>3
<1> QED BY <1>2

\* A person has one row on a page, or none.
LEMMA SecondsInIs ==
    TypeOK => \A w \in Windows : \A tenant, u :
       SecondsIn(Rollup(tenant, w), u) = SecondsAt(SpansOf(u, StaysOf(tenant)), w, now)
<1>1. ASSUME TypeOK, NEW w \in Windows, NEW tenant, NEW u
      PROVE  SecondsIn(Rollup(tenant, w), u) = SecondsAt(SpansOf(u, StaysOf(tenant)), w, now)
  <2>1. PICK ids, c, D, answer : /\ ids = StaysOf(tenant) /\ c = Counted(ids, w)
                                 /\ D = {rows[i].user : i \in c} /\ answer = Rollup(tenant, w)
    OBVIOUS
  <2>2. ids \in SUBSET Here
    BY <2>1 DEF StaysOf
  <2>3. answer = {RollupRow(v, SpansOf(v, c), w) : v \in D}
    BY <1>1, <2>1, RollupIs DEF RowsOf
  <2>4. \A v \in D : RollupRow(v, SpansOf(v, c), w).user = v
    BY DEF RollupRow
  <2>5. PICK mine : mine = {b \in answer : b.user = u}
    OBVIOUS
  <2>6. PICK f : f = [a \in mine |-> a.seconds]
    OBVIOUS
  <2>7. SecondsIn(answer, u) = Total(f)
    BY <2>5, <2>6 DEF SecondsIn
  <2>8. CASE u \in D
    <3>1. PICK a : a = RollupRow(u, SpansOf(u, c), w)
      OBVIOUS
    <3>2. mine = {a}
      BY <2>3, <2>4, <2>5, <2>8, <3>1
    <3>3. a.seconds = SecondsAt(SpansOf(u, ids), w, now)
      <4>1. u \in {rows[i].user : i \in Counted(ids, w)} /\ a = RollupRow(u, SpansOf(u, Counted(ids, w)), w)
        BY <2>1, <2>8, <3>1
      <4> QED BY <1>1, <2>2, <4>1, RollupRowIs
    <3>4. f \in [{a} -> Nat] /\ f[a] = a.seconds
      <4>1. a.seconds \in Nat
        BY <3>3, SecondsNat
      <4> QED BY <2>6, <3>2, <4>1
    <3>5. Total(f) = f[a]
      BY <3>4, TotalOne
    <3> QED BY <2>1, <2>7, <3>3, <3>4, <3>5
  <2>9. CASE u \notin D
    <3>1. mine = {}
      BY <2>3, <2>4, <2>5, <2>9
    <3>2. f \in [{} -> Nat]
      BY <2>6, <3>1
    <3>3. Total(f) = 0
      BY <3>2, TotalEmpty
    <3>4. PresentAt(SpansOf(u, ids), w, now) = {}
      BY <1>1, <2>1, <2>2, <2>9, CountedIs
    <3>5. SecondsAt(SpansOf(u, ids), w, now) = Cardinality({}) \div TicksPerSecond
      BY <3>4 DEF SecondsAt
    <3> QED BY <2>1, <2>7, <3>3, <3>5, FS_EmptySet, ArithmeticAssumption
  <2> QED BY <2>8, <2>9
<1> QED BY <1>1

\* A person's time, month by month and as a whole.
LEMMA MonthsOfStays ==
    ASSUME NEW ids, NEW at, NEW s, NEW e, NEW N, IsCalendar(s, e, N),
           NEW g, g = [i \in 1..N |-> SecondsAt(ids, <<s[i], e[i]>>, at)],
           NEW all, all = SecondsAt(ids, <<s[N], e[1]>>, at)
    PROVE  Total(g) <= all /\ all <= Total(g) + N - 1
<1>1. /\ N \in Nat \ {0} /\ \A i \in 1..N : s[i] \in Nat /\ e[i] \in Nat
  BY DEF IsCalendar
<1>2. \A i \in 1..N : <<s[i], e[i]>> \in Windows
  BY <1>1 DEF Windows
<1>3. <<s[N], e[1]>> \in Windows
  BY CalendarTiles DEF Windows
<1>4. PICK A : A = [i \in 1..N |-> PresentAt(ids, <<s[i], e[i]>>, at)]
  OBVIOUS
<1>5. PICK B : B = PresentAt(ids, <<s[N], e[1]>>, at)
  OBVIOUS
<1>6. PICK f : f = [i \in 1..N |-> Cardinality(A[i])]
  OBVIOUS
<1>7. \A i \in 1..N : IsFiniteSet(A[i]) /\ Cardinality(A[i]) \in Nat
  BY <1>2, <1>4, PresentFinite
<1>8. f \in [1..N -> Nat] /\ \A i \in 1..N : f[i] = Cardinality(A[i])
  BY <1>6, <1>7
<1>9. \A i \in 1..N : \A t : t \in A[i] <=> t \in s[i]..e[i] - 1 /\ \E k \in ids : rows[k].joined <= t /\ t < EndOf(rows[k], at)
  BY <1>4 DEF PresentAt
<1>10. \A t : t \in B <=> t \in s[N]..e[1] - 1 /\ \E k \in ids : rows[k].joined <= t /\ t < EndOf(rows[k], at)
  BY <1>5 DEF PresentAt
<1>11. \A i \in 1..N : \A t : t \in s[i]..e[i] - 1 <=> t \in Nat /\ s[i] <= t /\ t < e[i]
  BY <1>1
<1>12. Apart(A, 1..N)
  <2>1. ASSUME NEW i \in 1..N, NEW j \in 1..N, i # j, NEW t \in A[i] \cap A[j]
        PROVE  FALSE
    BY <1>9, <1>11, <2>1, CalendarTiles
  <2> QED BY <1>7, <2>1 DEF Apart
<1>13. UNION {A[i] : i \in 1..N} = B
  <2>1. ASSUME NEW i \in 1..N, NEW t \in A[i]
        PROVE  t \in B
    <3>1. s[N] <= s[i] /\ e[i] <= e[1] /\ s[N] \in Nat /\ e[1] \in Nat
      BY CalendarTiles
    <3>2. t \in Nat /\ s[i] <= t /\ t < e[i]
      BY <1>9, <1>11, <2>1
    <3>3. t \in s[N]..e[1] - 1
      BY <1>1, <3>1, <3>2
    <3> QED BY <1>9, <1>10, <2>1, <3>3
  <2>2. ASSUME NEW t \in B
        PROVE  \E i \in 1..N : t \in A[i]
    <3>1. t \in s[N]..e[1] - 1 /\ s[N] \in Nat /\ e[1] \in Nat
      BY <1>10, CalendarTiles
    <3>2. PICK i \in 1..N : s[i] <= t /\ t < e[i]
      BY <3>1, CalendarTiles
    <3>3. t \in A[i]
      BY <1>9, <1>10, <1>11, <3>1, <3>2
    <3> QED BY <3>3
  <2> QED BY <2>1, <2>2
<1>14. IsFiniteSet(1..N) /\ Cardinality(1..N) = N /\ 1..N # {}
  <2>1. N \in Int /\ 1 \in Int /\ 1 <= N /\ N - 1 + 1 = N
    BY <1>1
  <2>2. IsFiniteSet(1..N) /\ Cardinality(1..N) = N
    BY <2>1, FS_Interval
  <2> QED BY <2>1, <2>2, CalendarTiles
<1>15. Total(f) = Cardinality(B)
  <2>1. PICK D : D = 1..N
    OBVIOUS
  <2>2. IsFiniteSet(D) /\ Apart(A, D) /\ f \in [D -> Nat] /\ \A x \in D : f[x] = Cardinality(A[x])
    BY <1>8, <1>12, <1>14, <2>1
  <2>3. Total(f) = Cardinality(UNION {A[x] : x \in D})
    BY <2>2, TotalOfSizes
  <2> QED BY <1>13, <2>1, <2>3
<1>16. g \in [1..N -> Nat] /\ \A i \in 1..N : g[i] = f[i] \div TicksPerSecond
  BY <1>2, <1>4, <1>6, SecondsNat DEF SecondsAt
<1>17. /\ Total(g) <= Total(f) \div TicksPerSecond
       /\ Total(f) \div TicksPerSecond <= Total(g) + Cardinality(1..N) - 1
  BY <1>8, <1>14, <1>16, TotalOfWholes, ArithmeticAssumption
<1> QED BY <1>5, <1>14, <1>15, <1>17 DEF SecondsAt

LEMMA MonthsAddUpIs == TypeOK => MonthsAddUp
<1>1. ASSUME TypeOK, NEW tenant \in Tenant, NEW table, table = Table(tenant, MonthsShown),
             NEW all, all = Rollup(tenant, <<table[MonthsShown].start, table[1].end>>)
      PROVE  /\ Tiles(table)
             /\ \A u \in User :
                   LET parts == Total([i \in 1..MonthsShown |-> SecondsIn(table[i].users, u)])
                   IN  parts <= SecondsIn(all, u) /\ SecondsIn(all, u) <= parts + MonthsShown - 1
  <2>1. PICK s, e, N : s = Starts /\ e = Ends /\ N = MonthsShown
    OBVIOUS
  <2>2. IsCalendar(s, e, N) /\ now < e[1] /\ now \in Nat
    BY <1>1, <2>1, MonthsAre, NowIsNat
  <2>3. \A i \in 1..N : /\ table[i].start = s[i] /\ table[i].end = e[i]
                        /\ table[i].users = Rollup(tenant, <<s[i], e[i]>>)
    BY <1>1, <2>1, TableIs
  <2>4. 1 \in 1..N /\ N \in 1..N /\ s[N] \in Nat /\ e[1] \in Nat
    BY <2>2, CalendarTiles
  <2>5. \A i \in 1..N : <<s[i], e[i]>> \in Windows
    BY <2>2 DEF IsCalendar, Windows
  <2>6. Tiles(table)
    <3>1. ASSUME NEW t \in table[MonthsShown].start..now
          PROVE  \E i \in 1..N : \A j \in 1..N : (table[j].start <= t /\ t < table[j].end) <=> i = j
      <4>1. t \in s[N]..e[1] - 1 /\ t \in Nat
        <5>1. PICK a \in Nat, b \in Nat, n \in Nat : a = s[N] /\ b = e[1] /\ n = now
          BY <2>2, <2>4
        <5>2. t \in a..n
          BY <2>1, <2>3, <2>4, <3>1, <5>1
        <5>3. n < b
          BY <2>2, <5>1
        <5> QED BY <5>1, <5>2, <5>3
      <4>2. PICK i \in 1..N : s[i] <= t /\ t < e[i]
        BY <2>2, <4>1, CalendarTiles
      <4>3. \A j \in 1..N : (s[j] <= t /\ t < e[j]) <=> i = j
        BY <2>2, <4>1, <4>2, CalendarTiles
      <4> QED BY <2>3, <4>3
    <3> QED BY <2>1, <3>1 DEF Tiles
  <2>7. ASSUME NEW u \in User, NEW parts, parts = Total([i \in 1..MonthsShown |-> SecondsIn(table[i].users, u)])
        PROVE  parts <= SecondsIn(all, u) /\ SecondsIn(all, u) <= parts + MonthsShown - 1
    <3>1. PICK ids, at : ids = SpansOf(u, StaysOf(tenant)) /\ at = now
      OBVIOUS
    <3>2. SecondsIn(all, u) = SecondsAt(ids, <<s[N], e[1]>>, at)
      <4>1. <<s[N], e[1]>> \in Windows /\ all = Rollup(tenant, <<s[N], e[1]>>)
        BY <1>1, <2>1, <2>3, <2>4 DEF Windows
      <4> QED BY <1>1, <3>1, <4>1, SecondsInIs
    <3>3. ASSUME NEW i \in 1..N
          PROVE  SecondsIn(table[i].users, u) = SecondsAt(ids, <<s[i], e[i]>>, at)
      BY <1>1, <2>3, <2>5, <3>1, SecondsInIs
    <3>4. PICK g : g = [i \in 1..N |-> SecondsAt(ids, <<s[i], e[i]>>, at)]
      OBVIOUS
    <3>5. [i \in 1..MonthsShown |-> SecondsIn(table[i].users, u)] = g
      BY <2>1, <3>3, <3>4
    <3>6. PICK w : w = SecondsAt(ids, <<s[N], e[1]>>, at)
      OBVIOUS
    <3>7. Total(g) <= w /\ w <= Total(g) + N - 1
      BY <2>2, <3>4, <3>6, MonthsOfStays
    <3>8. parts = Total(g)
      BY <2>7, <3>5
    <3> QED BY <2>1, <3>2, <3>6, <3>7, <3>8
  <2> QED BY <2>6, <2>7
<1> QED BY <1>1 DEF MonthsAddUp

\* The months of a table cover each moment once, and add up to the whole but for the
\* fraction of a second that each of them drops (presence.py, recent_months,
\* usage_rollup_by_month).
THEOREM MonthsOfTable == Spec => []MonthsAddUp
  BY ReadsTypes, MonthsAddUpIs, PTL

-----------------------------------------------------------------------------
(* HistoryStands: what a step leaves of a stay.                             *)

\* The row of a stay that is here before and after: its arrival, and its end if it
\* has one, are what they were.
Stands(i) == /\ rows'[i].joined = rows[i].joined
             /\ rows[i].left # Open => rows'[i].left = rows[i].left

LEMMA StandStep ==
    ASSUME ReadsInv, [Next]_vars
    PROVE  \A i \in Here \cap Here' : Stands(i)
<1>0. \A i \in Here : i \in Span /\ rows[i] \in Row
  BY HereIsRow DEF ReadsInv, Here
<1>1. ASSUME NEW ids, Deleted(ids)
      PROVE  \A i \in Here \cap Here' : Stands(i)
  BY <1>0, <1>1 DEF Deleted, Here, IsRow, Stands
<1>2. ASSUME NEW from \in User, NEW to \in User, Renamed(from, to)
      PROVE  \A i \in Here \cap Here' : Stands(i)
  <2>1. rows' = [i \in Span |-> IF i \in SpansOf(from, Here) THEN Rekeyed(rows[i], to) ELSE rows[i]]
    BY <1>2 DEF Renamed, Rekeyed
  <2>2. \A i \in Here : rows'[i] = rows[i] \/ rows'[i] = Rekeyed(rows[i], to)
    BY <1>0, <2>1
  <2>3. \A i \in Here : Rekeyed(rows[i], to).joined = rows[i].joined /\ Rekeyed(rows[i], to).left = rows[i].left
    BY <1>0, <1>2, RekeyedRow
  <2> QED BY <2>2, <2>3 DEF Stands
<1>3. ASSUME NEW i \in Span, NEW at \in 0..MaxTime, OpenSpan(i, at)
      PROVE  \A j \in Here \cap Here' : Stands(j)
  <2>1. i \notin Here /\ \A j \in Here : rows'[j] = rows[j]
    <3>1. PICK r : rows' = [rows EXCEPT ![i] = r]
      BY <1>3 DEF OpenSpan
    <3>2. i \notin Here
      BY <1>3 DEF OpenSpan, Here, IsRow
    <3>3. DOMAIN rows = Span
      BY DEF ReadsInv, TypeOK
    <3> QED BY <1>0, <3>1, <3>2, <3>3
  <2> QED BY <2>1 DEF Stands
<1>4. ASSUME NEW i \in Span, NEW at \in 0..MaxTime, CloseSpan(i, at)
      PROVE  \A j \in Here \cap Here' : Stands(j)
  <2>1. PICK end : rows' = [rows EXCEPT ![i] = [rows[i] EXCEPT !.left = end]]
    BY <1>4 DEF CloseSpan
  <2>2. rows \in [Span -> Row \cup {Absent, Gone}] /\ rows[i] \in Row /\ rows[i].left = Open
    BY <1>4, HereIsRow DEF CloseSpan, IsOpen, ReadsInv, TypeOK
  <2>3. [rows[i] EXCEPT !.left = end].joined = rows[i].joined
    BY <2>2 DEF Row
  <2>4. \A j \in Here : j # i => rows'[j] = rows[j]
    BY <1>0, <2>1, <2>2
  <2>5. rows'[i].joined = rows[i].joined
    BY <2>1, <2>2, <2>3
  <2> QED BY <2>2, <2>4, <2>5 DEF Stands
<1>5. CASE FillStamp
  <2>1. rows' = [j \in Span |-> IF j \in filling.ids \cap Here
                                  THEN Placed(rows[j], TenantOf[RoomOf[j]]) ELSE rows[j]]
    BY <1>5 DEF FillStamp, Placed
  <2>2. \A i \in Here : rows'[i] = rows[i] \/ rows'[i] = Placed(rows[i], TenantOf[RoomOf[i]])
    BY <1>0, <2>1
  <2>3. \A i \in Here : TenantOf[RoomOf[i]] \in Tenant \cup {Unscoped}
    BY <1>0, ReadsAssumption
  <2>4. \A i \in Here : LET r == Placed(rows[i], TenantOf[RoomOf[i]])
                        IN  r.joined = rows[i].joined /\ r.left = rows[i].left
    BY <1>0, <2>3, PlacedRow
  <2> QED BY <2>2, <2>4 DEF Stands
<1>6. CASE UNCHANGED rows
  BY <1>6 DEF Stands
<1>7. CASE Tick \/ FillStart \/ FillRead \/ FillDies \/ UNCHANGED vars
  <2>1. UNCHANGED rows
    BY <1>7 DEF Tick, FillStart, FillRead, FillDies, vars
  <2> QED BY <1>6, <2>1
<1>8. CASE Purge
  BY <1>1, <1>8 DEF Purge
<1>9. ASSUME NEW guest \in User, NEW account \in User, MergeSpans(guest, account)
      PROVE  Renamed(guest, account)
  BY <1>9 DEF MergeSpans
<1>10. ASSUME NEW u \in User, PseudonymizeUser(u)
       PROVE  Pseudonym[u] \in User /\ Renamed(u, Pseudonym[u])
  BY <1>10, ReadsAssumption DEF PseudonymizeUser
<1> QED BY <1>2, <1>3, <1>4, <1>5, <1>7, <1>8, <1>9, <1>10 DEF Next, Meter, Backfill

LEMMA SecondsOfUserThen ==
    TypeOK' => (\A w \in Windows, u \in User :
                   SecondsAsked(ByUser(u), w) = SecondsAt(SpansOf(u, Here), w, now))'
  BY SecondsOfUser, PTL

\* A month that is over holds no more of a person's time than it did.
LEMMA HistoryStep ==
    ASSUME ReadsInv, [Next]_vars,
           Here' \subseteq Here, \A i \in Here' : rows'[i].user = rows[i].user,
           NEW w \in Windows, w[2] <= now, NEW u \in User
    PROVE  SecondsAsked(ByUser(u), w)' <= SecondsAsked(ByUser(u), w)
<1>1. TypeOK /\ TypeOK'
  BY ReadsNext DEF ReadsInv
<1>2. SecondsAsked(ByUser(u), w) = SecondsAt(SpansOf(u, Here), w, now)
  BY <1>1, SecondsOfUser
<1>4. SecondsAsked(ByUser(u), w)' = SecondsAt(SpansOf(u, Here), w, now)'
  BY <1>1, SecondsOfUserThen
<1>5. PICK A, B : A = PresentAt(SpansOf(u, Here), w, now)' /\ B = PresentAt(SpansOf(u, Here), w, now)
  OBVIOUS
<1>6. A \subseteq B
  <2>1. ASSUME NEW t \in A
        PROVE  t \in B
    <3>1. PICK i \in Here' : /\ rows'[i].user = u /\ rows'[i].joined <= t
                             /\ t < IF rows'[i].left = Open THEN now' ELSE rows'[i].left
      BY <1>5, <2>1 DEF PresentAt, SpansOf, EndOf
    <3>2. t \in w[1]..w[2] - 1 /\ w[2] \in Nat /\ w[1] \in Nat /\ now \in Nat
      BY <1>1, <1>5, <2>1, NowIsNat DEF PresentAt, Windows
    <3>3. t < now
      BY <3>2
    <3>4. i \in Here /\ rows[i].user = u /\ Stands(i)
      BY <3>1, StandStep
    <3>5. rows[i].joined <= t /\ t < EndOf(rows[i], now)
      BY <3>1, <3>3, <3>4 DEF Stands, EndOf
    <3> QED BY <1>5, <3>2, <3>4, <3>5 DEF PresentAt, SpansOf
  <2> QED BY <2>1
<1>7. SecondsAt(SpansOf(u, Here), w, now)' = Cardinality(A) \div TicksPerSecond
  BY <1>5 DEF SecondsAt
<1>8. SecondsAt(SpansOf(u, Here), w, now) = Cardinality(B) \div TicksPerSecond
  BY <1>5 DEF SecondsAt
<1>9. IsFiniteSet(B) /\ Cardinality(B) \in Nat
  BY <1>5, PresentFinite
<1>10. Cardinality(A) \in Nat /\ Cardinality(A) <= Cardinality(B)
  BY <1>6, <1>9, FS_Subset, FS_CardinalityType
<1>11. Cardinality(A) \div TicksPerSecond <= Cardinality(B) \div TicksPerSecond
  BY <1>9, <1>10, DivMonotone, ArithmeticAssumption
<1> QED BY <1>2, <1>4, <1>7, <1>8, <1>11

\* No month that is over grows, but by a stay recorded late or a person's new name
\* (presence.py:686-688).
THEOREM PastMonthsStand == Spec => HistoryStands
<1> DEFINE Stand ==
      (Here' \subseteq Here /\ \A i \in Here' : rows'[i].user = rows[i].user) =>
         \A w \in {MonthBounds(m) : m \in {n \in Month : IsPeriod(n)}} : w[2] <= now =>
            \A u \in {rows[i].user : i \in Here} :
               SecondsAsked(ByUser(u), w)' <= SecondsAsked(ByUser(u), w)
<1>1. ASSUME ReadsInv, [Next]_vars
      PROVE  Stand
  <2>1. ASSUME Here' \subseteq Here, \A i \in Here' : rows'[i].user = rows[i].user,
               NEW w \in {MonthBounds(m) : m \in {n \in Month : IsPeriod(n)}}, w[2] <= now,
               NEW u \in {rows[i].user : i \in Here}
        PROVE  SecondsAsked(ByUser(u), w)' <= SecondsAsked(ByUser(u), w)
    <3>1. w \in Windows
      BY <2>1, MonthIs
    <3>2. u \in User
      BY <1>1, <2>1, HereRows DEF ReadsInv, Row
    <3> QED BY <1>1, <2>1, <3>1, <3>2, HistoryStep
  <2> QED BY <2>1
<1>2. ReadsInv /\ [Next]_vars => [Stand]_<<now, rows>>
  BY <1>1
<1> QED BY <1>2, ReadsInit, ReadsNext, PTL DEF Spec, HistoryStands

-----------------------------------------------------------------------------
(* ErasureKeepsTheMeter: an erasure gives a person a name that nobody has.  *)

LEMMA OneToOne ==
    ASSUME NEW S, IsFiniteSet(S), NEW T, NEW f \in [S -> T],
           \A x, y \in S : f[x] = f[y] => x = y, \A z \in T : \E x \in S : f[x] = z
    PROVE  IsFiniteSet(T) /\ Cardinality(T) = Cardinality(S)
<1>1. f \in Bijection(S, T)
  BY DEF Bijection, Injection, Surjection, IsInjective
<1> QED BY <1>1, FS_Bijection DEF ExistsBijection

\* What a room's people come to, each and by two, whoever they are.
TimesIn(ids, w) == [u \in User |-> SecondsAt(SpansOf(u, ids), w, now)]
TogetherIn(ids, w) == [q \in User \X User |-> Together(q[1], q[2], ids, w, now)]
Triple(T, a, b) == <<a, b, T[<<a, b>>]>>
TriplesOf(T) == {Triple(T, a, b) : a, b \in User}
PairsOf(T) == {p \in TriplesOf(T) : p[1] < p[2] /\ p[3] > 0}

LEMMA PairIs ==
    ASSUME NEW T, NEW p
    PROVE  p \in PairsOf(T) <=> \E a, b \in User : p = Triple(T, a, b) /\ a < b /\ T[<<a, b>>] > 0
<1>1. ASSUME NEW a \in User, NEW b \in User, p = Triple(T, a, b)
      PROVE  p \in TriplesOf(T) /\ p[1] = a /\ p[2] = b /\ p[3] = T[<<a, b>>]
  BY <1>1 DEF TriplesOf, Triple
<1>2. p \in TriplesOf(T) => \E a, b \in User : p = Triple(T, a, b)
  BY DEF TriplesOf
<1>3. p \in PairsOf(T) <=> p \in TriplesOf(T) /\ p[1] < p[2] /\ p[3] > 0
  BY DEF PairsOf
<1>4. ASSUME p \in PairsOf(T)
      PROVE  \E a, b \in User : p = Triple(T, a, b) /\ a < b /\ T[<<a, b>>] > 0
  <2>1. PICK a \in User, b \in User : p = Triple(T, a, b)
    BY <1>2, <1>3, <1>4
  <2>2. a < b /\ T[<<a, b>>] > 0
    BY <1>1, <1>3, <1>4, <2>1
  <2> QED BY <2>1, <2>2
<1> QED BY <1>1, <1>3, <1>4

IsSwap(sw, T, V) ==
    /\ sw \in [User -> User] /\ \A x \in User : sw[sw[x]] = x
    /\ \A a, b \in User : T[<<a, b>>] = T[<<b, a>>] /\ V[<<a, b>>] = V[<<b, a>>]
    /\ \A a, b \in User : V[<<sw[a], sw[b]>>] = T[<<a, b>>]

Swapped(sw, p) ==
    IF sw[p[1]] < sw[p[2]] THEN <<sw[p[1]], sw[p[2]], p[3]>> ELSE <<sw[p[2]], sw[p[1]], p[3]>>

LEMMA SwappedPair ==
    ASSUME NEW sw, NEW T, NEW V, IsSwap(sw, T, V), NEW p \in PairsOf(T)
    PROVE  Swapped(sw, p) \in PairsOf(V) /\ Swapped(sw, Swapped(sw, p)) = p
<1>1. /\ sw \in [User -> User] /\ \A x \in User : sw[sw[x]] = x
      /\ \A a, b \in User : V[<<a, b>>] = V[<<b, a>>]
      /\ \A a, b \in User : V[<<sw[a], sw[b]>>] = T[<<a, b>>]
  BY DEF IsSwap
<1>2. PICK a \in User, b \in User : p = Triple(T, a, b) /\ a < b /\ T[<<a, b>>] > 0
  BY PairIs
<1>3. p = <<a, b, T[<<a, b>>]>> /\ a < b /\ T[<<a, b>>] > 0
  BY <1>2 DEF Triple
<1>4. PICK c \in User, d \in User : c = sw[a] /\ d = sw[b]
  BY <1>1
<1>5. sw[c] = a /\ sw[d] = b
  BY <1>1, <1>4
<1>6. V[<<c, d>>] = T[<<a, b>>] /\ V[<<d, c>>] = T[<<a, b>>]
  BY <1>1, <1>4
<1>7. a \in Nat /\ b \in Nat /\ c \in Nat /\ d \in Nat
  BY ReadsAssumption
<1>8. c # d
  BY <1>3, <1>5, <1>7
<1>9. CASE c < d
  <2>1. Swapped(sw, p) = <<c, d, T[<<a, b>>]>>
    BY <1>3, <1>4, <1>9 DEF Swapped
  <2>2. <<c, d, T[<<a, b>>]>> \in PairsOf(V)
    <3>1. <<c, d, T[<<a, b>>]>> = Triple(V, c, d) /\ V[<<c, d>>] > 0
      BY <1>3, <1>6 DEF Triple
    <3> QED BY <1>9, <3>1, PairIs
  <2>3. Swapped(sw, <<c, d, T[<<a, b>>]>>) = p
    BY <1>3, <1>5 DEF Swapped
  <2> QED BY <2>1, <2>2, <2>3
<1>10. CASE ~(c < d)
  <2>0. d < c /\ ~(b < a)
    BY <1>3, <1>7, <1>8, <1>10
  <2>1. Swapped(sw, p) = <<d, c, T[<<a, b>>]>>
    BY <1>3, <1>4, <1>10 DEF Swapped
  <2>2. <<d, c, T[<<a, b>>]>> \in PairsOf(V)
    <3>1. <<d, c, T[<<a, b>>]>> = Triple(V, d, c) /\ V[<<d, c>>] > 0
      BY <1>3, <1>6 DEF Triple
    <3> QED BY <2>0, <3>1, PairIs
  <2>3. Swapped(sw, <<d, c, T[<<a, b>>]>>) = p
    BY <1>3, <1>5, <2>0 DEF Swapped
  <2> QED BY <2>1, <2>2, <2>3
<1> QED BY <1>9, <1>10

LEMMA PairsFinite == \A T : IsFiniteSet(PairsOf(T))
<1>1. ASSUME NEW T
      PROVE  IsFiniteSet(PairsOf(T))
  <2>1. PICK D : D = User \X User
    OBVIOUS
  <2>2. IsFiniteSet(D)
    BY <2>1, FS_Product, ReadsAssumption
  <2>3. PICK f : f = [q \in D |-> Triple(T, q[1], q[2])]
    OBVIOUS
  <2>4. PICK R : R = {f[q] : q \in D}
    OBVIOUS
  <2>5. f \in Surjection(D, R)
    BY <2>3, <2>4 DEF Surjection
  <2>6. IsFiniteSet(R)
    BY <2>2, <2>5, FS_Surjection
  <2>7. ASSUME NEW p \in PairsOf(T)
        PROVE  p \in R
    <3>1. PICK a \in User, b \in User : p = Triple(T, a, b) /\ a < b /\ T[<<a, b>>] > 0
      BY <2>7, PairIs
    <3>2. <<a, b>> \in D /\ f[<<a, b>>] = Triple(T, a, b)
      BY <2>1, <2>3
    <3> QED BY <2>4, <3>1, <3>2
  <2>8. PairsOf(T) \subseteq R
    BY <2>7
  <2> QED BY <2>6, <2>8, FS_Subset
<1> QED BY <1>1

LEMMA AsManyPairs ==
    ASSUME NEW sw, NEW T, NEW V, IsSwap(sw, T, V)
    PROVE  Cardinality(PairsOf(V)) = Cardinality(PairsOf(T))
<1>1. IsSwap(sw, V, T)
  BY DEF IsSwap
<1>2. PICK f : f = [p \in PairsOf(T) |-> Swapped(sw, p)]
  OBVIOUS
<1>3. f \in [PairsOf(T) -> PairsOf(V)] /\ \A p \in PairsOf(T) : Swapped(sw, f[p]) = p
  BY <1>2, SwappedPair
<1>4. \A p, q \in PairsOf(T) : f[p] = f[q] => p = q
  BY <1>3
<1>5. ASSUME NEW q \in PairsOf(V)
      PROVE  \E p \in PairsOf(T) : f[p] = q
  BY <1>1, <1>2, SwappedPair
<1> QED BY <1>3, <1>4, <1>5, PairsFinite, OneToOne

\* The state lemmas of a room, of this state and of the next.
RoomIs(w, r) ==
    /\ SecondsAsked(ByRoom(r), w) = Total(TimesIn(In(r), w))
    /\ RoomPairs(r, Span, w, now) = PairsOf(TogetherIn(In(r), w))

LEMMA RoomPairsOf ==
    TypeOK => \A w \in Windows, at \in Nat, ids \in SUBSET Span : \A r, T :
       (\A a, b \in User : Together(a, b, InRoom(r, ids), w, at) = T[<<a, b>>]) =>
          RoomPairs(r, ids, w, at) = PairsOf(T)
<1>1. ASSUME TypeOK, NEW w \in Windows, NEW at \in Nat, NEW ids \in SUBSET Span, NEW r, NEW T,
             \A a, b \in User : Together(a, b, InRoom(r, ids), w, at) = T[<<a, b>>]
      PROVE  RoomPairs(r, ids, w, at) = PairsOf(T)
  <2> DEFINE Q == {<<a, b, Together(a, b, InRoom(r, ids), w, at)>> : a, b \in User}
  <2>1. ASSUME NEW p
        PROVE  p \in Q <=> p \in TriplesOf(T)
    <3>1. \A a, b \in User : <<a, b, Together(a, b, InRoom(r, ids), w, at)>> = Triple(T, a, b)
      BY <1>1 DEF Triple
    <3> QED BY <3>1 DEF TriplesOf
  <2>2. RoomPairs(r, ids, w, at) = {p \in Q : p[1] < p[2] /\ p[3] > 0}
    BY <1>1, RoomPairsAre
  <2> HIDE DEF Q
  <2> QED BY <2>1, <2>2 DEF PairsOf
<1> QED BY <1>1

LEMMA RoomsAre == TypeOK => \A w \in Windows, r \in Room : RoomIs(w, r)
<1>1. ASSUME TypeOK, NEW w \in Windows, NEW r \in Room
      PROVE  RoomIs(w, r)
  <2>1. SecondsAsked(ByRoom(r), w) = Total(TimesIn(In(r), w))
    BY <1>1, SecondsOfRoom DEF TimesIn
  <2>2. InRoom(r, Span) = In(r) /\ Span \in SUBSET Span /\ now \in Nat
    BY <1>1, NowIsNat DEF InRoom, In, Here
  <2>3. PICK T : T = TogetherIn(In(r), w)
    OBVIOUS
  <2>4. \A a, b \in User : Together(a, b, InRoom(r, Span), w, now) = T[<<a, b>>]
    BY <2>2, <2>3 DEF TogetherIn
  <2>5. RoomPairs(r, Span, w, now) = PairsOf(T)
    BY <1>1, <2>2, <2>4, RoomPairsOf
  <2> QED BY <2>1, <2>3, <2>5 DEF RoomIs
<1> QED BY <1>1

LEMMA RoomsThen == TypeOK' => (\A w \in Windows, r \in Room : RoomIs(w, r))'
  BY RoomsAre, PTL

\* The two names change places.
Swap(u, p) == [x \in User |-> IF x = u THEN p ELSE IF x = p THEN u ELSE x]

\* What is left of a row by an erasure: all but its name.
Kept(i, sw) ==
    /\ rows'[i].joined = rows[i].joined /\ rows'[i].left = rows[i].left
    /\ rows[i].user \in User /\ rows'[i].user = sw[rows[i].user]

LEMMA ErasedRows ==
    ASSUME ReadsInv, NEW u \in DOMAIN Pseudonym, NEW p, p = Pseudonym[u],
           SpansOf(p, Here) = {}, PseudonymizeUser(u), NEW sw, sw = Swap(u, p)
    PROVE  /\ sw \in [User -> User] /\ \A x \in User : sw[sw[x]] = x
           /\ now' = now /\ Here' = Here /\ \A i \in Here : Kept(i, sw)
           /\ \A w : \A i \in Span : InPeriod(i, w)' <=> InPeriod(i, w)
<1>1. u \in User /\ p \in User
  BY ReadsAssumption
<1>2. /\ SpansOf(u, Here) # {} /\ now' = now
      /\ rows' = [i \in Span |-> IF i \in SpansOf(u, Here) THEN Rekeyed(rows[i], p) ELSE rows[i]]
  BY DEF PseudonymizeUser, Renamed, Rekeyed
<1>3. sw \in [User -> User] /\ sw[u] = p /\ \A x \in User : x # u /\ x # p => sw[x] = x
  BY <1>1 DEF Swap
<1>4. u # p /\ \A x \in User : sw[sw[x]] = x
  BY <1>1, <1>2 DEF Swap
<1>5. \A i \in Here : i \in Span /\ rows[i] \in Row
  BY HereIsRow DEF ReadsInv, Here
<1>6. ASSUME NEW i \in Here
      PROVE  Kept(i, sw) /\ rows'[i] \in Row
  <2>1. rows[i].user \in User /\ rows[i].user # p
    BY <1>5, <1>6 DEF Row, SpansOf
  <2>2. CASE rows[i].user = u
    <3>1. rows'[i] = Rekeyed(rows[i], p)
      BY <1>2, <1>5, <1>6, <2>2 DEF SpansOf
    <3>2. Rekeyed(rows[i], p).user = p
      BY <1>5, <1>6 DEF Row, Rekeyed
    <3> QED BY <1>1, <1>3, <1>5, <1>6, <2>1, <2>2, <3>1, <3>2, RekeyedRow DEF Kept
  <2>3. CASE rows[i].user # u
    <3>1. rows'[i] = rows[i]
      BY <1>2, <1>5, <1>6, <2>3 DEF SpansOf
    <3> QED BY <1>3, <1>5, <1>6, <2>1, <2>3, <3>1 DEF Kept
  <2> QED BY <2>2, <2>3
<1>7. \A i \in Span \ Here : rows'[i] = rows[i]
  BY <1>2 DEF SpansOf
<1>8. \A i \in Span : IsRow(i)' <=> IsRow(i)
  BY <1>6, <1>7, RowShape DEF IsRow, Here
<1>9. Here' = Here
  BY <1>8 DEF Here
<1>10. ASSUME NEW w, NEW i \in Span
       PROVE  InPeriod(i, w)' <=> InPeriod(i, w)
  <2>1. CASE i \in Here
    BY <1>6, <1>8, <2>1 DEF InPeriod, Kept
  <2>2. CASE i \notin Here
    BY <1>8, <2>2 DEF InPeriod, Here
  <2> QED BY <2>1, <2>2
<1> QED BY <1>2, <1>3, <1>4, <1>6, <1>9, <1>10

LEMMA SecondsThen == (\A w \in Windows : \A ids, at : SecondsAt(ids, w, at) \in Nat)'
  BY SecondsNat, PTL

LEMMA TogetherThen ==
    (\A w \in Windows : \A a, b, ids, at :
        Together(a, b, ids, w, at) \in Nat /\ Together(a, b, ids, w, at) = Together(b, a, ids, w, at))'
  BY TogetherNat, PTL

LEMMA ErasureStep ==
    ASSUME ReadsInv, [Next]_vars, NEW u \in DOMAIN Pseudonym, NEW p, p = Pseudonym[u],
           SpansOf(p, Here) = {}, PseudonymizeUser(u), NEW w \in Windows, NEW r \in Room
    PROVE  /\ Aggregate(ByRoom(r), w)' = Aggregate(ByRoom(r), w)
           /\ Cardinality(RoomPairs(r, Span, w, now)') = Cardinality(RoomPairs(r, Span, w, now))
<1>1. PICK sw : sw = Swap(u, p)
  OBVIOUS
<1>2. /\ sw \in [User -> User] /\ \A x \in User : sw[sw[x]] = x
      /\ now' = now /\ Here' = Here /\ \A i \in Here : Kept(i, sw)
      /\ \A i \in Span : InPeriod(i, w)' <=> InPeriod(i, w)
  BY <1>1, ErasedRows
<1>3. TypeOK /\ TypeOK'
  BY ReadsNext DEF ReadsInv
<1>4. RoomIs(w, r) /\ RoomIs(w, r)'
  BY <1>3, RoomsAre, RoomsThen
<1>5. PICK ids, n : ids = In(r) /\ n = now
  OBVIOUS
<1>6. In(r)' = ids /\ now' = n /\ ids \in SUBSET Here /\ ids \in SUBSET Span
  BY <1>2, <1>5 DEF In, Here
<1>7. ASSUME NEW x \in User
      PROVE  PresentAt(SpansOf(sw[x], ids), w, n)' = PresentAt(SpansOf(x, ids), w, n)
  <2>1. ASSUME NEW i \in ids
        PROVE  rows'[i].user = sw[x] <=> rows[i].user = x
    <3>1. rows[i].user \in User /\ rows'[i].user = sw[rows[i].user]
      BY <1>2, <1>6, <2>1 DEF Kept
    <3> QED BY <1>2, <3>1
  <2>2. \A i \in ids : rows'[i].joined = rows[i].joined /\ rows'[i].left = rows[i].left
    BY <1>2, <1>6 DEF Kept
  <2>3. SpansOf(sw[x], ids)' = SpansOf(x, ids) /\ SpansOf(x, ids) \subseteq ids
    BY <2>1 DEF SpansOf
  <2>4. PICK mine : mine = SpansOf(x, ids)
    OBVIOUS
  <2> QED BY <2>2, <2>3, <2>4 DEF PresentAt, EndOf
<1>8. PICK f, g : f = TimesIn(ids, w) /\ g = TimesIn(ids, w)'
  OBVIOUS
<1>9. /\ \A x \in User : f[x] = Cardinality(PresentAt(SpansOf(x, ids), w, n)) \div TicksPerSecond
      /\ \A x \in User : g[x] = Cardinality(PresentAt(SpansOf(x, ids), w, n)') \div TicksPerSecond
      /\ f \in [User -> Nat] /\ g \in [User -> Nat]
  <2>1. \A x \in User : f[x] = Cardinality(PresentAt(SpansOf(x, ids), w, n)) \div TicksPerSecond
    BY <1>5, <1>8 DEF TimesIn, SecondsAt
  <2>2. \A x \in User : g[x] = Cardinality(PresentAt(SpansOf(x, ids), w, n)') \div TicksPerSecond
    BY <1>6, <1>8 DEF TimesIn, SecondsAt
  <2>3. \A s, t : SecondsAt(s, w, t) \in Nat
    BY SecondsNat
  <2>4. \A s, t : SecondsAt(s, w, t)' \in Nat
    BY SecondsThen
  <2>5. f \in [User -> Nat]
    BY <1>8, <2>3 DEF TimesIn
  <2>6. g \in [User -> Nat]
    BY <1>8, <2>4 DEF TimesIn
  <2> QED BY <2>1, <2>2, <2>5, <2>6
<1>10. \A x \in User : g[sw[x]] = f[x]
  BY <1>2, <1>7, <1>9
<1>11. Total(g) = Total(f)
  <2>1. IsRenaming(sw, f, User, g, User)
    BY <1>2, <1>9, <1>10 DEF IsRenaming
  <2> QED BY <2>1, TotalRenamed, ReadsAssumption
<1>12. SecondsAsked(ByRoom(r), w)' = SecondsAsked(ByRoom(r), w)
  BY <1>4, <1>5, <1>6, <1>8, <1>11 DEF RoomIs
<1>13. Cardinality(RoomPairs(r, Span, w, now)') = Cardinality(RoomPairs(r, Span, w, now))
  <2>1. PICK T, V : T = TogetherIn(ids, w) /\ V = TogetherIn(ids, w)'
    OBVIOUS
  <2>2. /\ \A a, b \in User : T[<<a, b>>] = Together(a, b, ids, w, n)
        /\ \A a, b \in User : V[<<a, b>>] = Together(a, b, ids, w, n)'
    BY <1>5, <1>6, <2>1 DEF TogetherIn
  <2>3. ASSUME NEW a \in User, NEW b \in User
        PROVE  T[<<a, b>>] = T[<<b, a>>]
    <3>1. Together(a, b, ids, w, n) = Together(b, a, ids, w, n)
      BY TogetherNat
    <3>2. T[<<a, b>>] = Together(a, b, ids, w, n) /\ T[<<b, a>>] = Together(b, a, ids, w, n)
      BY <2>2
    <3> QED BY <3>1, <3>2
  <2>4. ASSUME NEW a \in User, NEW b \in User
        PROVE  V[<<a, b>>] = V[<<b, a>>]
    <3>1. Together(a, b, ids, w, n)' = Together(b, a, ids, w, n)'
      BY TogetherThen
    <3>2. V[<<a, b>>] = Together(a, b, ids, w, n)' /\ V[<<b, a>>] = Together(b, a, ids, w, n)'
      BY <2>2
    <3> QED BY <3>1, <3>2
  <2>5. ASSUME NEW a \in User, NEW b \in User
        PROVE  V[<<sw[a], sw[b]>>] = T[<<a, b>>]
    <3>1. sw[a] \in User /\ sw[b] \in User
      BY <1>2
    <3>2. Together(sw[a], sw[b], ids, w, n)' = Together(a, b, ids, w, n)
      BY <1>7 DEF Together
    <3> QED BY <2>2, <3>1, <3>2
  <2>6. IsSwap(sw, T, V)
    BY <1>2, <2>3, <2>4, <2>5 DEF IsSwap
  <2>7. Cardinality(PairsOf(V)) = Cardinality(PairsOf(T))
    BY <2>6, AsManyPairs
  <2> QED BY <1>4, <1>5, <1>6, <2>1, <2>7 DEF RoomIs
<1>14. PICK A, C : A = Asked(ByRoom(r), w) /\ C = Counted(A, w)
  OBVIOUS
<1>15. Asked(ByRoom(r), w)' = A /\ A \subseteq Here /\ C \subseteq A
  BY <1>2, <1>14 DEF Asked, ByRoom, Counted, InPeriod, Here
<1>16. Counted(A, w)' = C
  <2>1. \A i \in A : rows'[i].joined = rows[i].joined /\ rows'[i].left = rows[i].left
    BY <1>2, <1>15 DEF Kept
  <2>2. \A i \in A : Clip(rows'[i], w[1], w[2], now') = Clip(rows[i], w[1], w[2], now)
    BY <1>2, <2>1 DEF Clip
  <2> QED BY <1>14, <2>2 DEF Counted
<1>17. PICK D, E : D = {rows[i].user : i \in C} /\ E = {rows'[i].user : i \in C}
  OBVIOUS
<1>18. Cardinality(E) = Cardinality(D)
  <2>1. \A i \in C : rows[i].user \in User /\ rows'[i].user = sw[rows[i].user]
    BY <1>2, <1>15 DEF Kept
  <2>2. D \subseteq User /\ IsFiniteSet(D)
    <3>1. D \subseteq User
      BY <1>17, <2>1
    <3> QED BY <3>1, FS_Subset, ReadsAssumption
  <2>3. PICK h : h = [x \in D |-> sw[x]]
    OBVIOUS
  <2>4. h \in [D -> E]
    BY <1>17, <2>1, <2>3
  <2>5. \A x, y \in D : h[x] = h[y] => x = y
    BY <1>2, <2>2, <2>3
  <2>6. \A z \in E : \E x \in D : h[x] = z
    BY <1>17, <2>1, <2>3
  <2> QED BY <2>2, <2>4, <2>5, <2>6, OneToOne
<1>19. Aggregate(ByRoom(r), w)' = Aggregate(ByRoom(r), w)
  <2>1. Aggregate(ByRoom(r), w) =
          [seconds |-> SecondsAsked(ByRoom(r), w), rooms |-> Cardinality({RoomOf[i] : i \in C}),
           users |-> Cardinality(D), spans |-> Cardinality(A)]
    BY <1>14, <1>17 DEF Aggregate, SecondsAsked
  <2>2. Aggregate(ByRoom(r), w)' =
          [seconds |-> SecondsAsked(ByRoom(r), w)', rooms |-> Cardinality({RoomOf[i] : i \in C}),
           users |-> Cardinality(E), spans |-> Cardinality(A)]
    BY <1>15, <1>16, <1>17 DEF Aggregate, SecondsAsked
  <2> QED BY <1>12, <1>18, <2>1, <2>2
<1> QED BY <1>13, <1>19

\* An erasure restates no room: its totals, its counts and its pairs are what they
\* were (presence.py:524-526).
THEOREM ErasureIsInvisible == Spec => ErasureKeepsTheMeter
<1> DEFINE Keeps ==
      \A u \in DOMAIN Pseudonym :
         SpansOf(Pseudonym[u], Here) = {} /\ PseudonymizeUser(u) =>
         \A w \in Window, r \in Room :
            /\ Aggregate(ByRoom(r), w)' = Aggregate(ByRoom(r), w)
            /\ Cardinality(RoomPairs(r, Span, w, now)') = Cardinality(RoomPairs(r, Span, w, now))
<1>1. ASSUME ReadsInv, [Next]_vars
      PROVE  Keeps
  <2>1. ASSUME NEW u \in DOMAIN Pseudonym, SpansOf(Pseudonym[u], Here) = {}, PseudonymizeUser(u),
               NEW w \in Window, NEW r \in Room
        PROVE  /\ Aggregate(ByRoom(r), w)' = Aggregate(ByRoom(r), w)
               /\ Cardinality(RoomPairs(r, Span, w, now)') = Cardinality(RoomPairs(r, Span, w, now))
    <3>1. w \in Windows
      BY MonthIs, ReadsAssumption DEF Window, Windows
    <3> QED BY <1>1, <2>1, <3>1, ErasureStep
  <2> QED BY <2>1
<1>2. ReadsInv /\ [Next]_vars => [Keeps]_rows
  BY <1>1
<1> QED BY <1>2, ReadsInit, ReadsNext, PTL DEF Spec, ErasureKeepsTheMeter
=============================================================================
