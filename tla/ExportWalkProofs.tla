------------------------- MODULE ExportWalkProofs -------------------------
(***************************************************************************)
(* Proofs about ExportWalk: a walk of pages shows every row that was due   *)
(* from its first page to its last, and none twice. That a walk is         *)
(* complete when it ends is not inductive: WalkInv carries what makes it   *)
(* so. Ids are used once, so a row that is gone does not come back with    *)
(* another key; the cursor is past every row shown and short of every row  *)
(* still owed; and a walk of pairs takes its rooms in the order of their   *)
(* ids, so that what a room owes is still ahead when the page moves on to  *)
(* the next.                                                               *)
(***************************************************************************)
EXTENDS ExportWalk, UsageReadsProofs

-----------------------------------------------------------------------------
(* The order of keys, and what a page takes of it.                          *)

IsOrder(K) ==
    /\ \A k \in K : k # <<>> /\ ~Precedes(k, k)
    /\ \A k, l, m \in K : Precedes(k, l) /\ Precedes(l, m) => Precedes(k, m)
    /\ \A k, l \in K : k = l \/ Precedes(k, l) \/ Precedes(l, k)

LEMMA RowOrder == IsOrder(Nat \X Nat)
<1>1. ASSUME NEW k \in Nat \X Nat, NEW l \in Nat \X Nat
      PROVE  Precedes(k, l) <=> k[1] < l[1] \/ (k[1] = l[1] /\ k[2] < l[2])
  <2>1. DOMAIN k = 1..2 /\ 1..1 - 1 = {} /\ 1..2 - 1 = {1}
    OBVIOUS
  <2>2. Precedes(k, l) <=> \E n \in {1, 2} : k[n] < l[n] /\ \A m \in 1..n - 1 : k[m] = l[m]
    BY <2>1 DEF Precedes
  <2> QED BY <2>1, <2>2
<1>2. \A k \in Nat \X Nat : k # <<>>
  OBVIOUS
<1> QED BY <1>1, <1>2 DEF IsOrder

LEMMA PairOrder == IsOrder(Nat \X Nat \X Nat)
<1>1. ASSUME NEW k \in Nat \X Nat \X Nat, NEW l \in Nat \X Nat \X Nat
      PROVE  Precedes(k, l) <=> \/ k[1] < l[1]
                                \/ k[1] = l[1] /\ k[2] < l[2]
                                \/ k[1] = l[1] /\ k[2] = l[2] /\ k[3] < l[3]
  <2>1. DOMAIN k = 1..3 /\ 1..1 - 1 = {} /\ 1..2 - 1 = {1} /\ 1..3 - 1 = {1, 2}
    OBVIOUS
  <2>2. Precedes(k, l) <=> \E n \in {1, 2, 3} : k[n] < l[n] /\ \A m \in 1..n - 1 : k[m] = l[m]
    BY <2>1 DEF Precedes
  <2> QED BY <2>1, <2>2
<1>2. \A k \in Nat \X Nat \X Nat : k # <<>>
  OBVIOUS
<1> QED BY <1>1, <1>2 DEF IsOrder

Before(S, k) == {l \in S : Precedes(l, k)}
After(S, k) == {l \in S : Precedes(k, l)}

LEMMA Beyond ==
    ASSUME NEW K, IsOrder(K), NEW S \in SUBSET K, IsFiniteSet(S)
    PROVE  /\ \A k \in S : /\ Cardinality(Before(S, k)) \in Nat /\ Cardinality(After(S, k)) \in Nat
                           /\ IsFiniteSet(Before(S, k)) /\ IsFiniteSet(After(S, k))
           /\ \A k, l \in S : Precedes(k, l) =>
                 /\ Cardinality(Before(S, k)) < Cardinality(Before(S, l))
                 /\ Cardinality(After(S, l)) < Cardinality(After(S, k))
<1>1. ASSUME NEW k \in S
      PROVE  /\ Cardinality(Before(S, k)) \in Nat /\ Cardinality(After(S, k)) \in Nat
             /\ IsFiniteSet(Before(S, k)) /\ IsFiniteSet(After(S, k))
  <2>1. Before(S, k) \subseteq S /\ After(S, k) \subseteq S
    BY DEF Before, After
  <2> QED BY <2>1, FS_Subset, FS_CardinalityType
<1>2. ASSUME NEW k \in S, NEW l \in S, Precedes(k, l)
      PROVE  /\ Cardinality(Before(S, k)) < Cardinality(Before(S, l))
             /\ Cardinality(After(S, l)) < Cardinality(After(S, k))
  <2>1. /\ \A x, y, z \in S : Precedes(x, y) /\ Precedes(y, z) => Precedes(x, z)
        /\ \A x \in S : ~Precedes(x, x)
    BY DEF IsOrder
  <2>2. Before(S, k) \subseteq Before(S, l) /\ Before(S, k) # Before(S, l)
    BY <1>2, <2>1 DEF Before
  <2>3. After(S, l) \subseteq After(S, k) /\ After(S, k) # After(S, l)
    BY <1>2, <2>1 DEF After
  <2>4. /\ Cardinality(Before(S, k)) <= Cardinality(Before(S, l))
        /\ Cardinality(Before(S, k)) # Cardinality(Before(S, l))
    BY <1>1, <2>2, FS_Subset
  <2>5. /\ Cardinality(After(S, l)) <= Cardinality(After(S, k))
        /\ Cardinality(After(S, l)) # Cardinality(After(S, k))
    BY <1>1, <2>3, FS_Subset
  <2> QED BY <1>1, <2>4, <2>5
<1> QED BY <1>1, <1>2

LEMMA GreatestIs ==
    ASSUME NEW K, IsOrder(K), NEW S \in SUBSET K, IsFiniteSet(S), S # {}
    PROVE  Greatest(S) \in S /\ \A l \in S : ~Precedes(Greatest(S), l)
<1> DEFINE T == {Cardinality(After(S, k)) : k \in S}
<1>1. T \subseteq Nat /\ T # {}
  BY Beyond
<1>2. PICK x \in T : \A y \in T : x <= y
  <2> HIDE DEF T
  <2> QED BY <1>1, LeastNat
<1>3. PICK k \in S : x = Cardinality(After(S, k))
  OBVIOUS
<1>4. ASSUME NEW l \in S
      PROVE  ~Precedes(k, l)
  <2>1. Cardinality(After(S, l)) \in Nat /\ x \in Nat /\ x <= Cardinality(After(S, l))
    BY <1>1, <1>2, <1>4
  <2>2. Precedes(k, l) => Cardinality(After(S, l)) < x
    BY <1>3, <1>4, Beyond
  <2> QED BY <2>1, <2>2
<1>5. \A l \in S \ {k} : Precedes(l, k)
  BY <1>4 DEF IsOrder
<1>6. Greatest(S) \in S /\ \A l \in S \ {Greatest(S)} : Precedes(l, Greatest(S))
  BY <1>3, <1>5 DEF Greatest
<1>7. ASSUME NEW l \in S
      PROVE  ~Precedes(Greatest(S), l)
  <2>1. CASE l = Greatest(S)
    BY <2>1 DEF IsOrder
  <2>2. CASE l # Greatest(S)
    <3>1. Precedes(l, Greatest(S))
      BY <1>6, <2>2
    <3> QED BY <1>6, <3>1 DEF IsOrder
  <2> QED BY <2>1, <2>2
<1> QED BY <1>6, <1>7

\* A page takes the first of what there is, and something if there is anything.
LEMMA FirstOfIs ==
    ASSUME NEW K, IsOrder(K), NEW S \in SUBSET K, IsFiniteSet(S), NEW n \in Int
    PROVE  /\ FirstOf(S, n) \in SUBSET S /\ IsFiniteSet(FirstOf(S, n))
           /\ \A k \in FirstOf(S, n), l \in S \ FirstOf(S, n) : Precedes(k, l)
           /\ S # {} /\ n > 0 => FirstOf(S, n) # {}
<1>1. \A k : k \in FirstOf(S, n) <=> k \in S /\ Cardinality(Before(S, k)) < n
  BY DEF FirstOf, Before
<1>2. FirstOf(S, n) \in SUBSET S /\ IsFiniteSet(FirstOf(S, n))
  <2>1. FirstOf(S, n) \in SUBSET S
    BY DEF FirstOf
  <2> QED BY <2>1, FS_Subset
<1>3. ASSUME NEW k \in FirstOf(S, n), NEW l \in S \ FirstOf(S, n)
      PROVE  Precedes(k, l)
  <2>1. SUFFICES ASSUME ~Precedes(k, l) PROVE FALSE
    OBVIOUS
  <2>2. k \in S /\ l \in S /\ k # l
    BY <1>1, <1>3
  <2>3. Precedes(l, k)
    BY <2>1, <2>2 DEF IsOrder
  <2>4. Cardinality(Before(S, l)) < Cardinality(Before(S, k))
    BY <2>2, <2>3, Beyond
  <2>5. Cardinality(Before(S, l)) \in Nat /\ Cardinality(Before(S, k)) \in Nat
    BY <2>2, Beyond
  <2> QED BY <1>1, <1>3, <2>4, <2>5
<1>4. ASSUME S # {}, n > 0
      PROVE  FirstOf(S, n) # {}
  <2> DEFINE T == {Cardinality(Before(S, k)) : k \in S}
  <2>1. T \subseteq Nat /\ T # {}
    BY <1>4, Beyond
  <2>2. PICK x \in T : \A y \in T : x <= y
    <3> HIDE DEF T
    <3> QED BY <2>1, LeastNat
  <2>3. PICK k \in S : x = Cardinality(Before(S, k))
    OBVIOUS
  <2>4. ASSUME NEW l \in Before(S, k)
        PROVE  FALSE
    <3>1. l \in S /\ Precedes(l, k)
      BY DEF Before
    <3>2. Cardinality(Before(S, l)) < x /\ Cardinality(Before(S, l)) \in Nat
      BY <2>3, <3>1, Beyond
    <3>3. x <= Cardinality(Before(S, l)) /\ x \in Nat
      BY <2>1, <2>2, <3>1
    <3> QED BY <3>2, <3>3
  <2>5. Cardinality(Before(S, k)) = 0
    BY <2>4, FS_EmptySet
  <2> QED BY <1>1, <1>4, <2>3, <2>5
<1> QED BY <1>2, <1>3, <1>4

-----------------------------------------------------------------------------
(* What the table does under a walk.                                        *)

\* An id is used once.
LEMMA IdsStay ==
    ASSUME ReadsInv, Meter
    PROVE  \A i \in Span : rows[i] # Absent => rows'[i] # Absent /\ (i \in Here' => i \in Here)
<1> DEFINE Stay == \A i \in Span : rows[i] # Absent => rows'[i] # Absent /\ (i \in Here' => i \in Here)
<1>0. /\ rows \in [Span -> Row \cup {Absent, Gone}] /\ Absent # Gone
      /\ \A i \in Here : i \in Span /\ rows[i] \in Row
      /\ \A i \in Span : i \in Here \/ rows[i] = Absent \/ rows[i] = Gone
  BY HereIsRow, NotFilling DEF ReadsInv, TypeOK, Here, IsRow
<1>1. ASSUME \A i \in Span : \/ rows'[i] = rows[i] \/ (i \in Here /\ rows'[i] # Absent)
                             \/ rows[i] = Absent
      PROVE  Stay
  BY <1>0, <1>1 DEF Here, IsRow
<1>2. ASSUME NEW ids \in SUBSET Here, Deleted(ids)
      PROVE  Stay
  <2>1. \A i \in Span : rows'[i] = rows[i] \/ (i \in Here /\ rows'[i] = Gone)
    BY <1>2 DEF Deleted
  <2> QED BY <1>0, <1>1, <2>1
<1>3. ASSUME NEW from \in User, NEW to \in User, Renamed(from, to)
      PROVE  Stay
  <2>1. rows' = [i \in Span |-> IF i \in SpansOf(from, Here) THEN Rekeyed(rows[i], to) ELSE rows[i]]
    BY <1>3 DEF Renamed, Rekeyed
  <2>2. \A i \in Span : rows'[i] = rows[i] \/ (i \in Here /\ rows'[i] = Rekeyed(rows[i], to))
    BY <2>1 DEF SpansOf
  <2>3. \A i \in Here : Rekeyed(rows[i], to) # Absent
    BY <1>0, <1>3, RekeyedRow, RowShape
  <2> QED BY <1>1, <2>2, <2>3
<1>4. ASSUME NEW i \in Span, NEW at \in 0..MaxTime, OpenSpan(i, at)
      PROVE  Stay
  <2>1. PICK r : rows' = [rows EXCEPT ![i] = r]
    BY <1>4 DEF OpenSpan
  <2>2. \A j \in Span : j # i => rows'[j] = rows[j]
    BY <1>0, <2>1
  <2>3. rows[i] = Absent
    BY <1>4 DEF OpenSpan
  <2> QED BY <1>1, <2>2, <2>3
<1>5. ASSUME NEW i \in Span, NEW at \in 0..MaxTime, CloseSpan(i, at)
      PROVE  Stay
  <2>1. i \in Here /\ rows[i] \in Row /\ rows[i].joined \in Nat /\ rows[i].joined \in 0..MaxTime
    BY <1>0, <1>5, ReadsAssumption DEF CloseSpan, IsOpen, Here, Row
  <2>2. PICK r : r = [rows[i] EXCEPT !.left = Later(at, rows[i].joined)]
    OBVIOUS
  <2>3. rows' = [rows EXCEPT ![i] = r]
    BY <1>5, <2>2 DEF CloseSpan
  <2>4. r \in Row
    BY <2>1, <2>2 DEF Row, Later
  <2>5. \A j \in Span : j # i => rows'[j] = rows[j]
    BY <1>0, <2>3
  <2>6. rows'[i] = r /\ r # Absent
    BY <1>0, <2>3, <2>4, RowShape
  <2> QED BY <1>1, <2>1, <2>5, <2>6
<1>6. ASSUME Tick PROVE Stay
  <2>1. UNCHANGED rows
    BY <1>6 DEF Tick
  <2> QED BY <1>1, <2>1
<1>7. ASSUME Purge PROVE Stay
  BY <1>2, <1>7 DEF Purge
<1>8. ASSUME NEW guest \in User, NEW account \in User, MergeSpans(guest, account)
      PROVE  Renamed(guest, account)
  BY <1>8 DEF MergeSpans
<1>9. ASSUME NEW u \in User, PseudonymizeUser(u)
      PROVE  Pseudonym[u] \in User /\ Renamed(u, Pseudonym[u])
  BY <1>9, ReadsAssumption DEF PseudonymizeUser
<1> HIDE DEF Stay
<1>10. Stay
  BY <1>3, <1>4, <1>5, <1>6, <1>7, <1>8, <1>9 DEF Meter
<1> QED BY <1>10 DEF Stay

LEMMA ClockStep ==
    ASSUME TypeOK, Meter
    PROVE  now \in Nat /\ now' \in Nat /\ now <= now'
<1>1. now \in Nat
  BY NowIsNat
<1>2. now' = now \/ now' = now + 1
  BY DEF Meter, Tick, Purge, Deleted, OpenSpan, CloseSpan, MergeSpans, PseudonymizeUser, Renamed
<1> QED BY <1>1, <1>2

\* The pairs of a room, as keys.
LEMMA PairKeysAre ==
    TypeOK => \A w \in Windows, at \in Nat, ids \in SUBSET Span : \A r, k :
       k \in PairKeys(r, ids, w, at) <=>
          \E a, b \in User : k = <<r, a, b>> /\ a < b /\ Together(a, b, InRoom(r, ids), w, at) > 0
<1>1. ASSUME TypeOK, NEW w \in Windows, NEW at \in Nat, NEW ids \in SUBSET Span, NEW r, NEW k
      PROVE  k \in PairKeys(r, ids, w, at) <=>
                \E a, b \in User : k = <<r, a, b>> /\ a < b /\ Together(a, b, InRoom(r, ids), w, at) > 0
  <2>1. PICK T : T = [q \in User \X User |-> Together(q[1], q[2], InRoom(r, ids), w, at)]
    OBVIOUS
  <2>2. \A a, b \in User : Together(a, b, InRoom(r, ids), w, at) = T[<<a, b>>]
    BY <2>1
  <2>3. RoomPairs(r, ids, w, at) = PairsOf(T)
    BY <1>1, <2>2, RoomPairsOf
  <2>4. k \in PairKeys(r, ids, w, at) <=> \E p \in PairsOf(T) : k = <<r, p[1], p[2]>>
    BY <2>3 DEF PairKeys
  <2>5. \A a, b : Triple(T, a, b)[1] = a /\ Triple(T, a, b)[2] = b
    BY DEF Triple
  <2>6. ASSUME NEW p \in PairsOf(T), k = <<r, p[1], p[2]>>
        PROVE  \E a, b \in User : k = <<r, a, b>> /\ a < b /\ Together(a, b, InRoom(r, ids), w, at) > 0
    <3>1. PICK a \in User, b \in User : p = Triple(T, a, b) /\ a < b /\ T[<<a, b>>] > 0
      BY PairIs
    <3> QED BY <2>2, <2>5, <2>6, <3>1
  <2>7. ASSUME NEW a \in User, NEW b \in User, k = <<r, a, b>>, a < b, Together(a, b, InRoom(r, ids), w, at) > 0
        PROVE  \E p \in PairsOf(T) : k = <<r, p[1], p[2]>>
    <3>1. Triple(T, a, b) \in PairsOf(T)
      BY <2>2, <2>7, PairIs
    <3> QED BY <2>5, <2>7, <3>1
  <2> QED BY <2>4, <2>6, <2>7
<1> QED BY <1>1

LEMMA PairKeysFinite ==
    TypeOK => \A w \in Windows, at \in Nat, ids \in SUBSET Span, r \in Room :
       PairKeys(r, ids, w, at) \in SUBSET (Nat \X Nat \X Nat) /\ IsFiniteSet(PairKeys(r, ids, w, at))
<1>1. ASSUME TypeOK, NEW w \in Windows, NEW at \in Nat, NEW ids \in SUBSET Span, NEW r \in Room
      PROVE  PairKeys(r, ids, w, at) \in SUBSET (Nat \X Nat \X Nat) /\ IsFiniteSet(PairKeys(r, ids, w, at))
  <2>1. PICK D, K : D = User \X User /\ K = PairKeys(r, ids, w, at)
    OBVIOUS
  <2>2. \A k \in K : \E a, b \in User : k = <<r, a, b>>
    BY <1>1, <2>1, PairKeysAre
  <2>3. K \in SUBSET (Nat \X Nat \X Nat)
    BY <2>2, ReadsAssumption
  <2>4. PICK f, R : f = [q \in D |-> <<r, q[1], q[2]>>] /\ R = {f[q] : q \in D}
    OBVIOUS
  <2>5. f \in Surjection(D, R)
    BY <2>4 DEF Surjection
  <2>6. IsFiniteSet(D)
    BY <2>1, FS_Product, ReadsAssumption
  <2>7. IsFiniteSet(R)
    BY <2>5, <2>6, FS_Surjection
  <2>8. ASSUME NEW a \in User, NEW b \in User
        PROVE  <<r, a, b>> \in R
    <3>1. <<a, b>> \in D /\ f[<<a, b>>] = <<r, a, b>>
      BY <2>1, <2>4
    <3> QED BY <2>4, <3>1
  <2>9. K \subseteq R
    BY <2>2, <2>8
  <2> QED BY <2>1, <2>3, <2>7, <2>9, FS_Subset
<1> QED BY <1>1

\* A pair that is owed is on the page of its room, whenever that is read: stays that
\* have ended are as long at any moment.
LEMMA OwedPair ==
    TypeOK => \A w \in Windows : \A k \in Due("pairs", w) :
       /\ k \in Nat \X Nat \X Nat /\ k[1] \in Room
       /\ \E i \in Span : InPeriod(i, w) /\ RoomOf[i] = k[1]
       /\ \A at \in Nat : k \in PairKeys(k[1], Span, w, at)
<1>1. ASSUME TypeOK, NEW w \in Windows, NEW k \in Due("pairs", w)
      PROVE  /\ k \in Nat \X Nat \X Nat /\ k[1] \in Room
             /\ \E i \in Span : InPeriod(i, w) /\ RoomOf[i] = k[1]
             /\ \A at \in Nat : k \in PairKeys(k[1], Span, w, at)
  <2>1. PICK closed : closed = {i \in Here : ~IsOpen(i)}
    OBVIOUS
  <2>2. PICK r \in Room : k \in PairKeys(r, closed, w, now)
    BY <1>1, <2>1 DEF Due
  <2>3. closed \in SUBSET Span /\ now \in Nat /\ closed \subseteq Here
        /\ \A i \in closed : rows[i].left # Open
    BY <1>1, <2>1, NowIsNat DEF Here, IsOpen
  <2>4. PICK a \in User, b \in User : k = <<r, a, b>> /\ a < b /\ Together(a, b, InRoom(r, closed), w, now) > 0
    BY <1>1, <2>2, <2>3, PairKeysAre
  <2>5. k \in Nat \X Nat \X Nat /\ k[1] = r
    BY <2>4, ReadsAssumption
  <2>6. PICK A, B : /\ A = PresentAt(SpansOf(a, InRoom(r, closed)), w, now)
                    /\ B = PresentAt(SpansOf(b, InRoom(r, closed)), w, now)
    OBVIOUS
  <2>7. Cardinality(A \cap B) \div TicksPerSecond > 0
    BY <2>4, <2>6 DEF Together
  <2>8. A \cap B # {}
    <3>1. SUFFICES ASSUME A \cap B = {} PROVE FALSE
      OBVIOUS
    <3>2. Cardinality(A \cap B) = 0
      BY <3>1, FS_EmptySet
    <3>3. 0 \div TicksPerSecond = 0
      BY ArithmeticAssumption
    <3> QED BY <2>7, <3>2, <3>3
  <2>9. \E i \in Span : InPeriod(i, w) /\ RoomOf[i] = k[1]
    <3>1. PICK t \in A : TRUE
      BY <2>8
    <3>2. PICK i \in InRoom(r, closed) : rows[i].joined <= t /\ t < EndOf(rows[i], now)
      BY <2>6 DEF PresentAt, SpansOf
    <3>3. t \in w[1]..w[2] - 1 /\ i \in Here /\ i \in Span /\ RoomOf[i] = r
      BY <2>6 DEF PresentAt, InRoom, Here
    <3>4. InPeriod(i, w)
      BY <1>1, <2>3, <3>2, <3>3, InTheWindow
    <3> QED BY <2>5, <3>3, <3>4
  <2>10. ASSUME NEW at \in Nat
         PROVE  k \in PairKeys(k[1], Span, w, at)
    <3>1. PICK C, D : /\ C = PresentAt(SpansOf(a, InRoom(r, Span)), w, at)
                      /\ D = PresentAt(SpansOf(b, InRoom(r, Span)), w, at)
      OBVIOUS
    <3>2. A \subseteq C /\ B \subseteq D
      <4>1. \A i \in InRoom(r, closed) : i \in InRoom(r, Span) /\ EndOf(rows[i], at) = EndOf(rows[i], now)
        BY <2>3 DEF InRoom, EndOf
      <4> QED BY <2>6, <3>1, <4>1 DEF PresentAt, SpansOf
    <3>3. IsFiniteSet(C)
      BY <3>1, PresentFinite
    <3>4. IsFiniteSet(C \cap D)
      BY <3>3, FS_Subset
    <3>5. /\ Cardinality(C \cap D) \in Nat /\ Cardinality(A \cap B) \in Nat
          /\ Cardinality(A \cap B) <= Cardinality(C \cap D)
      <4>1. A \cap B \subseteq C \cap D
        BY <3>2
      <4> QED BY <3>4, <4>1, FS_Subset, FS_CardinalityType
    <3>6. Cardinality(A \cap B) \div TicksPerSecond <= Cardinality(C \cap D) \div TicksPerSecond
      BY <3>5, DivMonotone, ArithmeticAssumption
    <3>7. Together(a, b, InRoom(r, Span), w, at) > 0
      <4>1. PICK x \in Nat, y \in Nat : x = Cardinality(A \cap B) \div TicksPerSecond
                                        /\ y = Cardinality(C \cap D) \div TicksPerSecond
        BY <3>5, DivBounds, ArithmeticAssumption
      <4> QED BY <2>7, <3>1, <3>6, <4>1 DEF Together
    <3> QED BY <1>1, <2>4, <2>5, <3>7, PairKeysAre
  <2> QED BY <2>5, <2>9, <2>10
<1> QED BY <1>1

-----------------------------------------------------------------------------
(* The invariant of a walk.                                                 *)

Triad == Nat \X Nat \X Nat
WalkState ==
    [pc: {"between", "rooms", "done"}, export: {"spans", "pairs"}, window: {x[2] : x \in Export},
     cursor: {<<>>} \cup (Nat \X Nat) \cup Triad, owed: SUBSET (Span \cup Triad),
     seen: SUBSET (Span \cup Triad), again: {FALSE}, todo: SUBSET Room, at: Nat, taken: SUBSET Triad]

\* A walk of the rows: the cursor is past what was shown and short of what is owed;
\* an id that was shown is used up, so that no later arrival brings it back.
SpansWalked ==
    /\ walk.pc # "rooms"
    /\ walk.cursor = <<>> \/ walk.cursor \in Nat \X Nat
    /\ \A i \in walk.seen : /\ i \in Span /\ rows[i] # Absent
                            /\ walk.pc = "between" /\ i \in Here => ~PastCursor(Key(i))
    /\ \A i \in walk.owed : /\ i \in Due("spans", walk.window)
                            /\ i \in walk.seen \/ (walk.pc = "between" /\ PastCursor(Key(i)))

\* A walk of the pairs: likewise, and within a page what is owed has been taken or is
\* in a room still to do, all of them after the rooms that were taken from.
PairsWalked ==
    /\ walk.window \in Windows
    /\ walk.cursor = <<>> \/ walk.cursor \in Triad
    /\ \A k \in walk.seen : k \in Triad /\ (walk.pc # "done" => ~PastCursor(k))
    /\ IsFiniteSet(walk.taken) /\ (walk.pc # "rooms" => walk.taken = {})
    /\ \A k \in walk.taken : PastCursor(k) /\ \A r \in walk.todo : k[1] < r
    /\ \A k \in walk.owed :
          /\ k \in Due("pairs", walk.window)
          /\ \/ k \in walk.seen \cup walk.taken
             \/ walk.pc # "done" /\ PastCursor(k) /\ (walk.pc = "rooms" => k[1] \in walk.todo)

WalkInv ==
    walk # NoWalk => /\ walk \in WalkState
                     /\ walk.export = "spans" => SpansWalked
                     /\ walk.export = "pairs" => PairsWalked

LEMMA WalkShape == \A s \in WalkState : s # NoWalk
<1>1. ASSUME NEW s \in WalkState
      PROVE  s # NoWalk
  BY DEF WalkState, NoWalk
<1> QED BY <1>1

Past(c, k) == c = <<>> \/ Precedes(c, k)

LEMMA AnswerIs ==
    ASSUME walk \in WalkState, NEW page \in SUBSET (Span \cup Triad), NEW keys, NEW more \in BOOLEAN,
           Answer(page, keys, more), page \cap walk.seen = {},
           more => Greatest(keys) \in (Nat \X Nat) \cup Triad
    PROVE  /\ walk' \in WalkState
           /\ walk'.pc = IF more THEN "between" ELSE "done"
           /\ walk'.cursor = IF more THEN Greatest(keys) ELSE walk.cursor
           /\ walk'.export = walk.export /\ walk'.window = walk.window /\ walk'.owed = walk.owed
           /\ walk'.seen = walk.seen \cup page /\ walk'.todo = {} /\ walk'.taken = {}
<1>1. walk' = [walk EXCEPT
        !.seen = walk.seen \cup page, !.again = walk.again \/ page \cap walk.seen # {},
        !.pc = IF more THEN "between" ELSE "done",
        !.cursor = IF more THEN Greatest(keys) ELSE walk.cursor,
        !.todo = {}, !.at = 0, !.taken = {}]
  BY DEF Answer
<1>2. PICK c : c = IF more THEN Greatest(keys) ELSE walk.cursor
  OBVIOUS
<1>3. c \in {<<>>} \cup (Nat \X Nat) \cup Triad
  BY <1>2 DEF WalkState
<1>4. PICK p : p = IF more THEN "between" ELSE "done"
  OBVIOUS
<1>5. p \in {"between", "rooms", "done"}
  BY <1>4
<1>6. (walk.again \/ page \cap walk.seen # {}) = FALSE
  BY DEF WalkState
<1>7. walk' = [walk EXCEPT !.seen = walk.seen \cup page, !.again = FALSE, !.pc = p, !.cursor = c,
                 !.todo = {}, !.at = 0, !.taken = {}]
  BY <1>1, <1>2, <1>4, <1>6
<1>8. walk' = [pc |-> p, export |-> walk.export, window |-> walk.window, cursor |-> c,
               owed |-> walk.owed, seen |-> walk.seen \cup page, again |-> FALSE, todo |-> {},
               at |-> 0, taken |-> {}]
  BY <1>7 DEF WalkState
<1>9. walk' \in WalkState
  BY <1>3, <1>5, <1>8 DEF WalkState
<1> QED BY <1>2, <1>4, <1>8, <1>9

LEMMA KeysOfRows ==
    TypeOK => \A i \in Here : Key(i) \in Nat \X Nat /\ Key(i)[2] = i
<1>1. ASSUME TypeOK, NEW i \in Here
      PROVE  Key(i) \in Nat \X Nat /\ Key(i)[2] = i
  <2>1. i \in Span /\ rows[i] \in Row
    BY <1>1, HereRows
  <2>2. i \in Nat /\ rows[i].joined \in Nat
    BY <2>1, ReadsAssumption DEF Row
  <2> QED BY <2>2 DEF Key
<1> QED BY <1>1

\* A page of rows.
LEMMA SpansPageStep ==
    ASSUME TypeOK, WalkInv, SpansPage
    PROVE  WalkInv'
<1>1. walk.pc = "between" /\ walk.export = "spans" /\ UNCHANGED vars
  BY DEF SpansPage
<1>2. walk \in WalkState /\ SpansWalked
  BY <1>1 DEF WalkInv, NoWalk
<1>3. PICK c, M : c = walk.cursor /\ M = {j \in Span : Matches(j, walk.window)}
  OBVIOUS
<1>4. PICK keys : keys = {k \in {Key(i) : i \in M} : Past(c, k)}
  OBVIOUS
<1>5. PICK page : page = FirstOf(keys, PageLimit)
  OBVIOUS
<1>6. PICK ids : ids = {k[2] : k \in page}
  OBVIOUS
<1>7. PICK more \in BOOLEAN : more <=> page # keys
  OBVIOUS
<1>8. Answer(ids, page, more)
  BY <1>3, <1>4, <1>5, <1>6, <1>7 DEF SpansPage, PastCursor, Past
<1>9. M \subseteq Here /\ M \subseteq Span /\ Due("spans", walk.window) = M
  BY <1>3 DEF Matches, InPeriod, Here, Due
<1>10. \A i \in M : Key(i) \in Nat \X Nat /\ Key(i)[2] = i
  BY <1>9, KeysOfRows
<1>11. keys \in SUBSET (Nat \X Nat)
  BY <1>4, <1>10
<1>12. IsFiniteSet(keys)
  <2>1. PICK f, R : f = [i \in M |-> Key(i)] /\ R = {f[i] : i \in M}
    OBVIOUS
  <2>2. f \in Surjection(M, R)
    BY <2>1 DEF Surjection
  <2>3. IsFiniteSet(M)
    BY <1>9, FS_Subset, ReadsAssumption
  <2>4. IsFiniteSet(R)
    BY <2>2, <2>3, FS_Surjection
  <2>5. keys \subseteq R
    BY <1>4, <2>1
  <2> QED BY <2>4, <2>5, FS_Subset
<1>13. /\ page \in SUBSET keys /\ IsFiniteSet(page)
       /\ \A k \in page, l \in keys \ page : Precedes(k, l)
       /\ keys # {} => page # {}
  BY <1>5, <1>11, <1>12, RowOrder, FirstOfIs, WalkAssumption
<1>14. \A k \in page : k[2] \in M /\ Key(k[2]) = k /\ Past(c, k)
  BY <1>4, <1>10, <1>13
<1>15. ids \in SUBSET M /\ \A i \in ids : Key(i) \in page
  BY <1>6, <1>14
<1>16. /\ c = <<>> \/ c \in Nat \X Nat
       /\ \A i \in walk.seen : i \in Span /\ rows[i] # Absent /\ (i \in Here => ~Past(c, Key(i)))
       /\ \A i \in walk.owed : i \in M /\ (i \in walk.seen \/ Past(c, Key(i)))
  BY <1>1, <1>2, <1>3, <1>9 DEF SpansWalked, PastCursor, Past
<1>17. ids \cap walk.seen = {}
  BY <1>6, <1>9, <1>14, <1>16
<1>18. PICK g : g = Greatest(page)
  OBVIOUS
<1>19. ASSUME more
       PROVE  g \in page /\ g \in Nat \X Nat /\ g # <<>> /\ \A l \in page : ~Precedes(g, l)
  <2>1. page # {} /\ page \in SUBSET (Nat \X Nat)
    BY <1>7, <1>11, <1>13, <1>19
  <2>2. g \in page /\ \A l \in page : ~Precedes(g, l)
    BY <1>13, <1>18, <2>1, RowOrder, GreatestIs
  <2>3. g # <<>>
    BY <2>1, <2>2, RowOrder DEF IsOrder
  <2> QED BY <2>1, <2>2, <2>3
<1>20. PICK d : d = IF more THEN g ELSE c
  OBVIOUS
<1>21. /\ walk' \in WalkState /\ walk'.pc = (IF more THEN "between" ELSE "done")
       /\ walk'.cursor = d /\ walk'.export = "spans" /\ walk'.window = walk.window
       /\ walk'.owed = walk.owed /\ walk'.seen = walk.seen \cup ids
  <2>1. ids \in SUBSET (Span \cup Triad)
    BY <1>9, <1>15
  <2>2. more => Greatest(page) \in (Nat \X Nat) \cup Triad
    BY <1>18, <1>19
  <2>3. walk \in WalkState
    BY <1>2
  <2>4. /\ walk' \in WalkState
        /\ walk'.pc = IF more THEN "between" ELSE "done"
        /\ walk'.cursor = IF more THEN Greatest(page) ELSE walk.cursor
        /\ walk'.export = walk.export /\ walk'.window = walk.window /\ walk'.owed = walk.owed
        /\ walk'.seen = walk.seen \cup ids
    BY <1>8, <1>17, <2>1, <2>2, <2>3, AnswerIs
  <2> QED BY <1>1, <1>3, <1>18, <1>20, <2>4
<1>22. \A x, y, z \in Nat \X Nat : Precedes(x, y) /\ Precedes(y, z) => Precedes(x, z)
  BY RowOrder DEF IsOrder
<1>23. ASSUME NEW i \in walk.seen \cup ids
       PROVE  i \in Span /\ rows[i] # Absent /\ (more /\ i \in Here => ~Past(d, Key(i)))
  <2>1. CASE i \in ids
    <3>1. i \in Span /\ rows[i] # Absent
      BY <1>9, <1>15, <2>1 DEF Here, IsRow
    <3>2. more => ~Past(d, Key(i))
      BY <1>15, <1>19, <1>20, <2>1 DEF Past
    <3> QED BY <3>1, <3>2
  <2>2. CASE i \in walk.seen
    <3>1. ASSUME more, i \in Here, Past(d, Key(i))
          PROVE  FALSE
      <4>1. Precedes(g, Key(i)) /\ c # <<>> /\ ~Precedes(c, Key(i)) /\ Precedes(c, g)
        BY <1>14, <1>16, <1>19, <1>20, <2>2, <3>1 DEF Past
      <4>2. Key(i) \in Nat \X Nat /\ c \in Nat \X Nat /\ g \in Nat \X Nat
        BY <1>16, <1>19, <3>1, <4>1, KeysOfRows
      <4> QED BY <1>22, <4>1, <4>2
    <3> QED BY <1>16, <2>2, <3>1
  <2> QED BY <2>1, <2>2
<1>24. ASSUME NEW i \in walk.owed
       PROVE  i \in M /\ (i \in walk.seen \cup ids \/ (more /\ Past(d, Key(i))))
  <2>1. CASE i \notin walk.seen /\ Key(i) \in page
    BY <1>6, <1>10, <1>16, <2>1
  <2>2. CASE i \notin walk.seen /\ Key(i) \notin page
    <3>1. Key(i) \in keys
      BY <1>4, <1>16, <2>2
    <3>2. more
      BY <1>7, <2>2, <3>1
    <3>3. Precedes(g, Key(i))
      BY <1>13, <1>19, <2>2, <3>1, <3>2
    <3> QED BY <1>16, <1>20, <3>2, <3>3 DEF Past
  <2> QED BY <1>16, <2>1, <2>2
<1>25. UNCHANGED <<rows, now>>
  BY <1>1 DEF vars
<1>26. SpansWalked'
  <2>1. Due("spans", walk.window)' = M
    BY <1>9, <1>21, <1>25 DEF Due, Matches, InPeriod, IsRow, Here
  <2>2. Here' = Here /\ \A i : Key(i)' = Key(i)
    BY <1>25 DEF Here, IsRow, Key
  <2>3. \A k : PastCursor(k)' <=> Past(d, k)
    BY <1>21 DEF PastCursor, Past
  <2>4. d = <<>> \/ d \in Nat \X Nat
    BY <1>16, <1>19, <1>20
  <2>5. walk'.pc = "between" <=> more
    BY <1>21
  <2>6. walk'.pc # "rooms"
    BY <1>21
  <2>7. \A i \in walk'.seen : /\ i \in Span /\ rows'[i] # Absent
                              /\ walk'.pc = "between" /\ i \in Here' => ~PastCursor(Key(i))'
    BY <1>21, <1>23, <1>25, <2>2, <2>3, <2>5 DEF PastCursor, Key
  <2>8. \A i \in walk'.owed : /\ i \in Due("spans", walk.window)'
                              /\ i \in walk'.seen \/ (walk'.pc = "between" /\ PastCursor(Key(i))')
    BY <1>21, <1>24, <1>25, <2>1, <2>2, <2>3, <2>5 DEF PastCursor, Key
  <2> QED BY <1>21, <2>4, <2>6, <2>7, <2>8 DEF SpansWalked
<1>27. walk'.export # "pairs"
  BY <1>21
<1> QED BY <1>21, <1>26, <1>27 DEF WalkInv

-----------------------------------------------------------------------------
(* A page of pairs.                                                         *)

LEMMA RoomsFirst ==
    \A k, l \in Triad : /\ Precedes(k, l) => k[1] <= l[1]
                        /\ k[1] < l[1] => Precedes(k, l)
<1>1. ASSUME NEW k \in Triad, NEW l \in Triad
      PROVE  /\ Precedes(k, l) => k[1] <= l[1]
             /\ k[1] < l[1] => Precedes(k, l)
  <2>1. DOMAIN k = 1..3 /\ 1..1 - 1 = {} /\ 1..2 - 1 = {1} /\ 1..3 - 1 = {1, 2}
        /\ k[1] \in Nat /\ l[1] \in Nat
    BY DEF Triad
  <2>2. Precedes(k, l) <=> \E n \in {1, 2, 3} : k[n] < l[n] /\ \A m \in 1..n - 1 : k[m] = l[m]
    BY <2>1 DEF Precedes
  <2> QED BY <2>1, <2>2
<1> QED BY <1>1

\* What is due is a matter of the table alone.
LEMMA DueStands ==
    ASSUME UNCHANGED <<rows, now>>, NEW export, NEW w
    PROVE  Due(export, w)' = Due(export, w)
  BY DEF Due, Matches, InPeriod, IsRow, Here, IsOpen, PairKeys, RoomPairs, Timeline, SpansOf

\* The rooms of the page are listed.
LEMMA PairsRoomsStep ==
    ASSUME TypeOK, WalkInv, PairsRooms
    PROVE  WalkInv'
<1>1. walk.pc = "between" /\ walk.export = "pairs" /\ UNCHANGED <<rows, now>>
  BY DEF PairsRooms, vars
<1>2. walk \in WalkState /\ PairsWalked
  BY <1>1 DEF WalkInv, NoWalk
<1>3. PICK c, w, todo : /\ c = walk.cursor /\ w = walk.window
                        /\ todo = {r \in Room : /\ \E i \in Span : InPeriod(i, w) /\ RoomOf[i] = r
                                                /\ c = <<>> \/ r >= c[1]}
  OBVIOUS
<1>4. walk' = [walk EXCEPT !.pc = "rooms", !.at = now, !.todo = todo]
  BY <1>3 DEF PairsRooms
<1>5. /\ walk' \in WalkState /\ walk'.pc = "rooms" /\ walk'.todo = todo /\ walk'.export = "pairs"
      /\ walk'.cursor = c /\ walk'.window = w /\ walk'.owed = walk.owed /\ walk'.seen = walk.seen
      /\ walk'.taken = walk.taken
  <2>1. now \in Nat /\ todo \in SUBSET Room
    BY <1>3, NowIsNat
  <2> QED BY <1>1, <1>2, <1>3, <1>4, <2>1 DEF WalkState
<1>6. /\ w \in Windows /\ (c = <<>> \/ c \in Triad) /\ walk.taken = {}
      /\ \A k \in walk.seen : k \in Triad /\ ~Past(c, k)
      /\ \A k \in walk.owed : k \in Due("pairs", w) /\ (k \in walk.seen \/ Past(c, k))
  BY <1>1, <1>2, <1>3 DEF PairsWalked, PastCursor, Past
<1>7. ASSUME NEW k \in walk.owed, k \notin walk.seen
      PROVE  Past(c, k) /\ k[1] \in todo
  <2>1. Past(c, k) /\ k \in Due("pairs", w)
    BY <1>6, <1>7
  <2>2. k \in Triad /\ k[1] \in Room /\ \E i \in Span : InPeriod(i, w) /\ RoomOf[i] = k[1]
    BY <1>6, <2>1, OwedPair DEF Triad
  <2>3. c = <<>> \/ k[1] >= c[1]
    <3>1. ASSUME c # <<>>
          PROVE  k[1] >= c[1]
      <4>1. c \in Triad /\ Precedes(c, k) /\ c[1] \in Nat /\ k[1] \in Nat
        BY <1>6, <2>1, <2>2, <3>1 DEF Past, Triad
      <4>2. c[1] <= k[1]
        BY <2>2, <4>1, RoomsFirst
      <4> QED BY <4>1, <4>2
    <3> QED BY <3>1
  <2> QED BY <1>3, <2>1, <2>2, <2>3
<1>8. Due("pairs", w)' = Due("pairs", w)
  BY <1>1, DueStands
<1>9. PairsWalked'
  <2>1. \A k : PastCursor(k)' <=> Past(c, k)
    BY <1>5 DEF PastCursor, Past
  <2>2. \A k \in walk'.seen : k \in Triad /\ (walk'.pc # "done" => ~PastCursor(k)')
    BY <1>5, <1>6, <2>1
  <2>3. IsFiniteSet(walk'.taken) /\ walk'.taken = {}
    BY <1>5, <1>6, FS_EmptySet
  <2>4. \A k \in walk'.owed :
          /\ k \in Due("pairs", walk.window)'
          /\ \/ k \in walk'.seen \cup walk'.taken
             \/ walk'.pc # "done" /\ PastCursor(k)' /\ (walk'.pc = "rooms" => k[1] \in walk'.todo)
    <3>1. Due("pairs", walk.window)' = Due("pairs", w)
      BY <1>5, <1>8
    <3> QED BY <1>5, <1>6, <1>7, <2>1, <3>1
  <2> QED BY <1>5, <1>6, <2>2, <2>3, <2>4 DEF PairsWalked
<1>10. walk'.export # "spans"
  BY <1>5
<1> QED BY <1>5, <1>9, <1>10 DEF WalkInv

LEMMA LeastIs ==
    ASSUME NEW T, T \subseteq Nat, T # {}
    PROVE  Least(T) \in T /\ \A q \in T : Least(T) <= q
  BY LeastNat DEF Least

\* A room's pairs are taken, and fill the page or do not.
LEMMA PairsOfRoomStep ==
    ASSUME TypeOK, WalkInv, PairsOfRoom
    PROVE  WalkInv'
<1>1. walk.pc = "rooms" /\ walk.todo # {} /\ UNCHANGED <<rows, now>>
  BY DEF PairsOfRoom, vars
<1>2. walk \in WalkState /\ walk.export = "pairs" /\ PairsWalked
  <2>1. walk \in WalkState /\ (walk.export = "spans" => SpansWalked) /\ (walk.export = "pairs" => PairsWalked)
    BY <1>1 DEF WalkInv, NoWalk
  <2>2. walk.export = "spans" \/ walk.export = "pairs"
    BY <2>1 DEF WalkState
  <2>3. walk.export # "spans"
    BY <1>1, <2>1 DEF SpansWalked
  <2> QED BY <2>1, <2>2, <2>3
<1>3. PICK c, w, todo, taken, seen, at : /\ c = walk.cursor /\ w = walk.window /\ todo = walk.todo
                                         /\ taken = walk.taken /\ seen = walk.seen /\ at = walk.at
  OBVIOUS
<1>4. PICK room : room = Least(todo)
  OBVIOUS
<1>5. PICK keys : keys = {k \in PairKeys(room, Span, w, at) : Past(c, k)}
  OBVIOUS
<1>6. PICK n, first : n = PageLimit - Cardinality(taken) /\ first = FirstOf(keys, n)
  OBVIOUS
<1>7. PICK page : page = taken \cup first
  OBVIOUS
<1>8. /\ page = taken \cup keys => walk' = [walk EXCEPT !.taken = page, !.todo = todo \ {room}]
      /\ page # taken \cup keys => Answer(page, page, TRUE)
  BY <1>3, <1>4, <1>5, <1>6, <1>7 DEF PairsOfRoom, PastCursor, Past
<1>9. /\ at \in Nat /\ todo \in SUBSET Room /\ taken \in SUBSET Triad /\ w \in Windows
      /\ c = <<>> \/ c \in Triad
      /\ IsFiniteSet(taken) /\ \A k \in taken : Past(c, k) /\ \A r \in todo : k[1] < r
      /\ \A k \in seen : k \in Triad /\ ~Past(c, k)
      /\ \A k \in walk.owed : /\ k \in Due("pairs", w)
                              /\ k \in seen \cup taken \/ (Past(c, k) /\ k[1] \in todo)
  BY <1>1, <1>2, <1>3 DEF PairsWalked, PastCursor, Past, WalkState
<1>10. room \in todo /\ room \in Room /\ room \in Nat /\ \A q \in todo : q \in Nat /\ room <= q
  <2>1. todo # {} /\ todo \subseteq Nat
    BY <1>1, <1>3, <1>9, ReadsAssumption
  <2> QED BY <1>4, <1>9, <2>1, LeastIs
<1>11. keys \in SUBSET Triad /\ IsFiniteSet(keys) /\ \A k \in keys : k[1] = room /\ Past(c, k)
  <2>1. Span \in SUBSET Span
    OBVIOUS
  <2>2. /\ PairKeys(room, Span, w, at) \in SUBSET (Nat \X Nat \X Nat)
        /\ IsFiniteSet(PairKeys(room, Span, w, at))
    BY <1>9, <1>10, <2>1, PairKeysFinite
  <2>3. \A k \in PairKeys(room, Span, w, at) : k[1] = room
    BY <1>9, <1>10, <2>1, PairKeysAre
  <2>4. keys \subseteq PairKeys(room, Span, w, at)
    BY <1>5
  <2>5. IsFiniteSet(keys)
    BY <2>2, <2>4, FS_Subset
  <2> QED BY <1>5, <2>2, <2>3, <2>4, <2>5 DEF Triad
<1>12. IsOrder(Triad)
  BY PairOrder DEF Triad
<1>13. /\ first \in SUBSET keys /\ IsFiniteSet(first)
       /\ \A k \in first, l \in keys \ first : Precedes(k, l)
       /\ keys # {} /\ n > 0 => first # {}
  <2>1. n \in Int
    BY <1>6, <1>9, FS_CardinalityType, WalkAssumption
  <2> QED BY <1>6, <1>11, <1>12, <2>1, FirstOfIs
<1>14. page \in SUBSET Triad /\ IsFiniteSet(page) /\ \A k \in page : Past(c, k)
  <2>1. IsFiniteSet(page)
    BY <1>7, <1>9, <1>13, FS_Union
  <2> QED BY <1>7, <1>9, <1>11, <1>13, <2>1
\* What is owed and was not shown, or taken yet, is in this room or in a later one.
<1>15. ASSUME NEW k \in walk.owed, k \notin seen \cup taken
       PROVE  k \in Triad /\ Past(c, k) /\ k[1] \in todo /\ (k \in keys \/ (k[1] # room /\ room < k[1]))
  <2>1. k \in Due("pairs", w) /\ Past(c, k) /\ k[1] \in todo
    BY <1>9, <1>15
  <2>2. k \in Triad /\ k \in PairKeys(k[1], Span, w, at)
    BY <1>9, <2>1, OwedPair DEF Triad
  <2>3. k[1] = room => k \in keys
    BY <1>5, <2>1, <2>2
  <2>4. k[1] # room => room < k[1]
    <3>1. PICK q \in todo : q = k[1]
      BY <2>1
    <3>2. q \in Nat /\ room \in Nat /\ room <= q
      BY <1>10
    <3> QED BY <3>1, <3>2
  <2> QED BY <2>1, <2>2, <2>3, <2>4
<1>16. Due("pairs", w)' = Due("pairs", w)
  BY <1>1, DueStands
<1>17. CASE page = taken \cup keys
  <2>1. walk' = [walk EXCEPT !.taken = page, !.todo = todo \ {room}]
    BY <1>8, <1>17
  <2>2. /\ walk' \in WalkState /\ walk'.pc = "rooms" /\ walk'.todo = todo \ {room} /\ walk'.export = "pairs"
        /\ walk'.cursor = c /\ walk'.window = w /\ walk'.owed = walk.owed /\ walk'.seen = seen
        /\ walk'.taken = page
    <3>1. todo \ {room} \in SUBSET Room
      BY <1>9
    <3> QED BY <1>1, <1>2, <1>3, <1>14, <2>1, <3>1 DEF WalkState
  <2>3. \A k : PastCursor(k)' <=> Past(c, k)
    BY <2>2 DEF PastCursor, Past
  <2>4. \A k \in walk'.seen : k \in Triad /\ (walk'.pc # "done" => ~PastCursor(k)')
    BY <1>9, <2>2, <2>3
  <2>5. ASSUME NEW k \in page, NEW r \in todo \ {room}
        PROVE  k[1] < r
    <3>1. k \in taken \/ k[1] = room
      BY <1>11, <1>17, <2>5
    <3> QED BY <1>9, <1>10, <3>1
  <2>6. \A k \in walk'.taken : PastCursor(k)' /\ \A r \in walk'.todo : k[1] < r
    BY <1>14, <2>2, <2>3, <2>5
  <2>7. \A k \in walk'.owed :
          /\ k \in Due("pairs", walk.window)'
          /\ \/ k \in walk'.seen \cup walk'.taken
             \/ walk'.pc # "done" /\ PastCursor(k)' /\ (walk'.pc = "rooms" => k[1] \in walk'.todo)
    <3>1. Due("pairs", walk.window)' = Due("pairs", w)
      BY <1>16, <2>2
    <3>2. ASSUME NEW k \in walk.owed, k \notin seen \cup page
          PROVE  Past(c, k) /\ k[1] \in todo \ {room}
      <4>1. k \notin seen \cup taken /\ k \notin keys
        BY <1>7, <1>17, <3>2
      <4> QED BY <1>15, <3>2, <4>1
    <3> QED BY <1>9, <2>2, <2>3, <3>1, <3>2
  <2>8. PairsWalked'
    BY <1>9, <1>14, <2>2, <2>4, <2>6, <2>7 DEF PairsWalked
  <2>9. walk'.export # "spans"
    BY <2>2
  <2> QED BY <2>2, <2>8, <2>9 DEF WalkInv
<1>18. CASE page # taken \cup keys
  <2>1. page # {}
    <3>1. CASE taken # {}
      BY <1>7, <3>1
    <3>2. CASE taken = {}
      <4>1. n > 0
        BY <1>6, <3>2, FS_EmptySet, WalkAssumption
      <4>2. keys # {}
        BY <1>7, <1>13, <1>18
      <4> QED BY <1>7, <1>13, <4>1, <4>2
    <3> QED BY <3>1, <3>2
  <2>2. PICK g : g = Greatest(page)
    OBVIOUS
  <2>3. g \in page /\ g \in Triad /\ g # <<>> /\ \A l \in page : ~Precedes(g, l)
    <3>1. g \in page /\ \A l \in page : ~Precedes(g, l)
      BY <1>12, <1>14, <2>1, <2>2, GreatestIs
    <3>2. \A k \in Triad : k # <<>>
      BY <1>12 DEF IsOrder
    <3> QED BY <1>14, <3>1, <3>2
  <2>4. page \cap seen = {}
    BY <1>9, <1>14
  <2>5. Answer(page, page, TRUE)
    BY <1>8, <1>18
  <2>6. /\ walk' \in WalkState /\ walk'.pc = "between" /\ walk'.cursor = g /\ walk'.export = "pairs"
        /\ walk'.window = w /\ walk'.owed = walk.owed /\ walk'.seen = seen \cup page /\ walk'.taken = {}
    <3>1. page \in SUBSET (Span \cup Triad) /\ TRUE \in BOOLEAN /\ walk \in WalkState
          /\ Greatest(page) \in (Nat \X Nat) \cup Triad /\ page \cap walk.seen = {}
      BY <1>2, <1>3, <1>14, <2>2, <2>3, <2>4
    <3>2. /\ walk' \in WalkState /\ walk'.pc = "between" /\ walk'.cursor = Greatest(page)
          /\ walk'.export = walk.export /\ walk'.window = walk.window /\ walk'.owed = walk.owed
          /\ walk'.seen = walk.seen \cup page /\ walk'.taken = {}
      BY <2>5, <3>1, AnswerIs
    <3> QED BY <1>2, <1>3, <2>2, <3>2
  <2>7. \A k : PastCursor(k)' <=> Past(g, k)
    BY <2>6 DEF PastCursor, Past
  <2>8. ASSUME NEW k \in seen \cup page
        PROVE  k \in Triad /\ ~Past(g, k)
    <3>1. k \in Triad
      BY <1>9, <1>14
    <3>2. CASE k \in page
      BY <2>3, <3>1, <3>2 DEF Past
    <3>3. CASE k \in seen
      <4>1. c \in Triad /\ ~Precedes(c, k) /\ Precedes(c, g)
        BY <1>9, <1>14, <2>3, <3>3 DEF Past
      <4>2. ~Precedes(g, k)
        BY <1>12, <2>3, <3>1, <4>1 DEF IsOrder
      <4> QED BY <2>3, <3>1, <4>2 DEF Past
    <3> QED BY <3>2, <3>3
  <2>9. ASSUME NEW k \in walk.owed, k \notin seen \cup page
        PROVE  Past(g, k)
    <3>1. k \notin seen \cup taken /\ k \notin first
      BY <1>7, <2>9
    <3>2. k \in Triad /\ (k \in keys \/ room < k[1])
      BY <1>15, <3>1
    <3>3. CASE g \in first /\ k \in keys
      BY <1>13, <3>1, <3>3 DEF Past
    <3>4. CASE g \in taken \/ room < k[1]
      <4>1. k[1] \in todo /\ k[1] \in Nat /\ g[1] \in Nat
        BY <1>10, <1>15, <2>3, <3>1 DEF Triad
      <4>2. g[1] < k[1]
        <5>1. CASE g \in taken
          BY <1>9, <4>1, <5>1
        <5>2. CASE g \notin taken
          BY <1>7, <1>11, <1>13, <2>3, <3>4, <4>1, <5>2
        <5> QED BY <5>1, <5>2
      <4> QED BY <2>3, <3>2, <4>2, RoomsFirst DEF Past
    <3> QED BY <1>7, <2>3, <3>2, <3>3, <3>4
  <2>10. \A k \in walk'.owed :
          /\ k \in Due("pairs", walk.window)'
          /\ \/ k \in walk'.seen \cup walk'.taken
             \/ walk'.pc # "done" /\ PastCursor(k)' /\ (walk'.pc = "rooms" => k[1] \in walk'.todo)
    <3>1. Due("pairs", walk.window)' = Due("pairs", w)
      BY <1>16, <2>6
    <3> QED BY <1>9, <2>6, <2>7, <2>9, <3>1
  <2>11. IsFiniteSet(walk'.taken)
    BY <2>6, FS_EmptySet
  <2>12. PairsWalked'
    BY <1>9, <2>3, <2>6, <2>7, <2>8, <2>10, <2>11 DEF PairsWalked
  <2>13. walk'.export # "spans"
    BY <2>6
  <2> QED BY <2>6, <2>12, <2>13 DEF WalkInv
<1> QED BY <1>17, <1>18

\* The last page.
LEMMA PairsEndStep ==
    ASSUME TypeOK, WalkInv, PairsEnd
    PROVE  WalkInv'
<1>1. walk.pc = "rooms" /\ walk.todo = {} /\ UNCHANGED <<rows, now>> /\ Answer(walk.taken, walk.taken, FALSE)
  BY DEF PairsEnd, vars
<1>2. walk \in WalkState /\ walk.export = "pairs" /\ PairsWalked
  <2>1. walk \in WalkState /\ (walk.export = "spans" => SpansWalked) /\ (walk.export = "pairs" => PairsWalked)
    BY <1>1 DEF WalkInv, NoWalk
  <2>2. walk.export = "spans" \/ walk.export = "pairs"
    BY <2>1 DEF WalkState
  <2>3. walk.export # "spans"
    BY <1>1, <2>1 DEF SpansWalked
  <2> QED BY <2>1, <2>2, <2>3
<1>3. PICK page : page = walk.taken
  OBVIOUS
<1>4. /\ page \in SUBSET (Span \cup Triad) /\ page \in SUBSET Triad /\ page \cap walk.seen = {}
      /\ Answer(page, page, FALSE)
  BY <1>1, <1>2, <1>3 DEF WalkState, PairsWalked
<1>5. /\ walk' \in WalkState /\ walk'.pc = "done" /\ walk'.cursor = walk.cursor /\ walk'.export = "pairs"
      /\ walk'.window = walk.window /\ walk'.owed = walk.owed /\ walk'.seen = walk.seen \cup page
      /\ walk'.taken = {}
  <2>1. FALSE \in BOOLEAN
    OBVIOUS
  <2> QED BY <1>2, <1>4, <2>1, AnswerIs
<1>6. Due("pairs", walk.window)' = Due("pairs", walk.window)
  BY <1>1, <1>5, DueStands
<1>7. PairsWalked'
  <2>1. \A k \in walk'.owed : k \in Due("pairs", walk.window)' /\ k \in walk'.seen \cup walk'.taken
    BY <1>1, <1>2, <1>3, <1>5, <1>6 DEF PairsWalked
  <2>2. IsFiniteSet(walk'.taken)
    BY <1>5, FS_EmptySet
  <2>3. \A k \in walk'.seen : k \in Triad
    BY <1>2, <1>4, <1>5 DEF PairsWalked
  <2>4. walk'.window \in Windows /\ (walk'.cursor = <<>> \/ walk'.cursor \in Triad)
    BY <1>2, <1>5 DEF PairsWalked
  <2> QED BY <1>5, <2>1, <2>2, <2>3, <2>4 DEF PairsWalked
<1>8. walk'.export # "spans"
  BY <1>5
<1> QED BY <1>5, <1>7, <1>8 DEF WalkInv

-----------------------------------------------------------------------------
(* The other steps of a walk, and the theorems.                             *)

LEMMA StartWalkStep ==
    ASSUME TypeOK, NEW x \in Export, StartWalk(x[1], x[2])
    PROVE  WalkInv'
<1>1. UNCHANGED <<rows, now>>
  BY DEF StartWalk, vars
<1>2. PICK export, w, owed : export = x[1] /\ w = x[2] /\ owed = Due(export, w)
  OBVIOUS
<1>3. walk' = [pc |-> "between", export |-> export, window |-> w, cursor |-> <<>>,
               owed |-> owed, seen |-> {}, again |-> FALSE, todo |-> {}, at |-> 0, taken |-> {}]
  BY <1>2 DEF StartWalk
<1>4. export = "spans" \/ (export = "pairs" /\ w \in Windows)
  BY <1>2, WalkAssumption DEF Windows
<1>5. \A k \in owed : IF export = "spans" THEN k \in Span ELSE k \in Triad
  <2>1. CASE export = "spans"
    BY <1>2, <2>1 DEF Due
  <2>2. CASE export = "pairs"
    <3>1. \A k \in owed : k \in Triad
      BY <1>2, <1>4, <2>2, OwedPair DEF Triad
    <3> QED BY <2>2, <3>1
  <2> QED BY <1>4, <2>1, <2>2
<1>6. walk' \in WalkState
  <2>1. owed \in SUBSET (Span \cup Triad)
    BY <1>4, <1>5
  <2>2. w \in {y[2] : y \in Export}
    BY <1>2
  <2> QED BY <1>3, <1>4, <2>1, <2>2 DEF WalkState
<1>7. Due(export, w)' = owed
  BY <1>1, <1>2, DueStands
<1>8. \A k : PastCursor(k)'
  BY <1>3 DEF PastCursor
<1>9. CASE export = "spans"
  <2>1. \A i \in walk'.owed : i \in Due("spans", walk.window)' /\ PastCursor(Key(i))'
    BY <1>3, <1>7, <1>8, <1>9 DEF PastCursor
  <2>2. SpansWalked'
    BY <1>3, <2>1 DEF SpansWalked
  <2> QED BY <1>3, <1>6, <1>9, <2>2 DEF WalkInv
<1>10. CASE export = "pairs"
  <2>1. \A k \in walk'.owed : k \in Due("pairs", walk.window)' /\ PastCursor(k)'
    BY <1>3, <1>7, <1>8, <1>10
  <2>2. IsFiniteSet(walk'.taken)
    BY <1>3, FS_EmptySet
  <2>3. PairsWalked'
    BY <1>3, <1>4, <1>10, <2>1, <2>2 DEF PairsWalked
  <2> QED BY <1>3, <1>6, <1>10, <2>3 DEF WalkInv
<1> QED BY <1>4, <1>9, <1>10

\* The table is written between two pages, or between two rooms of one.
LEMMA TableWalkStep ==
    ASSUME ReadsInv, WalkInv, Meter, StillOwed
    PROVE  WalkInv'
<1>1. CASE walk.pc = "idle"
  <2>1. walk' = walk /\ walk = NoWalk
    BY <1>1 DEF StillOwed, WalkInv, WalkState
  <2> QED BY <2>1 DEF WalkInv
<1>2. CASE walk.pc # "idle"
  <2>1. /\ walk \in WalkState
        /\ walk.export = "spans" => SpansWalked
        /\ walk.export = "pairs" => PairsWalked
    BY <1>2 DEF WalkInv, NoWalk
  <2>2. PICK export, w : export = walk.export /\ w = walk.window
                          /\ walk' = [walk EXCEPT !.owed = walk.owed \cap Due(export, w)']
    BY <1>2 DEF StillOwed
  <2>3. PICK owed : owed = walk.owed \cap Due(export, w)'
    OBVIOUS
  <2>4. /\ walk' \in WalkState /\ walk'.pc = walk.pc /\ walk'.export = export /\ walk'.window = w
        /\ walk'.cursor = walk.cursor /\ walk'.owed = owed /\ walk'.seen = walk.seen
        /\ walk'.todo = walk.todo /\ walk'.taken = walk.taken
    BY <2>1, <2>2, <2>3 DEF WalkState
  <2>5. \A k : PastCursor(k)' <=> PastCursor(k)
    BY <2>4 DEF PastCursor
  <2>6. CASE export = "spans"
    <3>1. SpansWalked
      BY <2>1, <2>2, <2>6
    <3>2. ASSUME NEW i \in Here \cap Here'
          PROVE  Key(i)' = Key(i)
      <4>1. [Next]_vars
        BY DEF Next
      <4> QED BY <3>2, <4>1, StandStep DEF Stands, Key
    <3>3. ASSUME NEW i \in walk.seen
          PROVE  /\ i \in Span /\ rows'[i] # Absent
                 /\ walk.pc = "between" /\ i \in Here' => ~PastCursor(Key(i))'
      <4>1. /\ i \in Span /\ rows[i] # Absent
            /\ walk.pc = "between" /\ i \in Here => ~PastCursor(Key(i))
        BY <3>1, <3>3 DEF SpansWalked
      <4>2. rows'[i] # Absent /\ (i \in Here' => i \in Here)
        BY <4>1, IdsStay
      <4>3. i \in Here' => (PastCursor(Key(i))' <=> PastCursor(Key(i)))
        BY <2>4, <3>2, <4>2 DEF PastCursor
      <4> QED BY <4>1, <4>2, <4>3
    <3>4. ASSUME NEW i \in owed
          PROVE  /\ i \in Due("spans", walk.window)'
                 /\ i \in walk.seen \/ (walk.pc = "between" /\ PastCursor(Key(i))')
      <4>1. i \in Due("spans", walk.window)'
        BY <2>3, <2>4, <2>6, <3>4
      <4>2. i \in Due("spans", walk.window) /\ (i \in walk.seen \/ (walk.pc = "between" /\ PastCursor(Key(i))))
        BY <2>3, <3>1, <3>4 DEF SpansWalked
      <4>3. i \in Here /\ i \in Here'
        BY <4>1, <4>2 DEF Due, Matches, InPeriod, Here
      <4>4. PastCursor(Key(i))' <=> PastCursor(Key(i))
        BY <2>4, <3>2, <4>3 DEF PastCursor
      <4> QED BY <4>1, <4>2, <4>4
    <3>5. SpansWalked'
      BY <2>4, <3>1, <3>3, <3>4 DEF SpansWalked
    <3> QED BY <2>4, <2>6, <3>5 DEF WalkInv
  <2>7. CASE export = "pairs"
    <3>1. PairsWalked
      BY <2>1, <2>2, <2>7
    <3>2. ASSUME NEW k \in owed
          PROVE  k \in Due("pairs", walk.window)' /\ k \in walk.owed
      BY <2>3, <2>4, <2>7, <3>2
    <3>3. PairsWalked'
      BY <2>2, <2>4, <2>5, <3>1, <3>2 DEF PairsWalked
    <3> QED BY <2>4, <2>7, <3>3 DEF WalkInv
  <2> QED BY <2>1, <2>2, <2>6, <2>7 DEF WalkState
<1> QED BY <1>1, <1>2

LEMMA WalkStep ==
    ASSUME ReadsInv, WalkInv, [WalkNext]_walkVars
    PROVE  ReadsInv' /\ WalkInv'
<1>1. CASE Meter /\ StillOwed
  <2>1. [Next]_vars
    BY <1>1 DEF Next
  <2> QED BY <1>1, <2>1, ReadsNext, TableWalkStep
<1>2. ASSUME UNCHANGED vars
      PROVE  ReadsInv'
  BY <1>2, ReadsNext
<1>3. TypeOK
  BY DEF ReadsInv
<1>4. ASSUME NEW x \in Export, StartWalk(x[1], x[2])
      PROVE  ReadsInv' /\ WalkInv'
  <2>1. UNCHANGED vars
    BY <1>4 DEF StartWalk
  <2> QED BY <1>2, <1>3, <1>4, <2>1, StartWalkStep
<1>5. CASE SpansPage
  <2>1. UNCHANGED vars
    BY <1>5 DEF SpansPage
  <2> QED BY <1>2, <1>3, <1>5, <2>1, SpansPageStep
<1>6. CASE PairsRooms
  <2>1. UNCHANGED vars
    BY <1>6 DEF PairsRooms
  <2> QED BY <1>2, <1>3, <1>6, <2>1, PairsRoomsStep
<1>7. CASE PairsOfRoom
  <2>1. UNCHANGED vars
    BY <1>7 DEF PairsOfRoom
  <2> QED BY <1>2, <1>3, <1>7, <2>1, PairsOfRoomStep
<1>8. CASE PairsEnd
  <2>1. UNCHANGED vars
    BY <1>8 DEF PairsEnd
  <2> QED BY <1>2, <1>3, <1>8, <2>1, PairsEndStep
<1>9. CASE EndWalk
  BY <1>2, <1>9 DEF EndWalk, WalkInv
<1>10. CASE UNCHANGED walkVars
  <2>1. UNCHANGED vars /\ UNCHANGED <<rows, now>> /\ walk' = walk
    BY <1>10 DEF walkVars, vars
  <2>2. \A w : Due("spans", w)' = Due("spans", w) /\ Due("pairs", w)' = Due("pairs", w)
    BY <2>1, DueStands
  <2>3. Here' = Here /\ \A i : Key(i)' = Key(i)
    BY <2>1 DEF Here, IsRow, Key
  <2>4. SpansWalked => SpansWalked'
    BY <2>1, <2>2, <2>3 DEF SpansWalked, PastCursor, Key
  <2>5. PairsWalked => PairsWalked'
    BY <2>1, <2>2 DEF PairsWalked, PastCursor
  <2> QED BY <1>2, <2>1, <2>4, <2>5 DEF WalkInv
<1> QED BY <1>1, <1>4, <1>5, <1>6, <1>7, <1>8, <1>9, <1>10 DEF WalkNext, Exporter

LEMMA WalkStart == WalkInit => ReadsInv /\ WalkInv
  BY ReadsInit DEF WalkInit, WalkInv

LEMMA WalkHolds == WalkInv => WalkIsComplete /\ RowIsShownOnce
<1>1. SUFFICES ASSUME WalkInv PROVE WalkIsComplete /\ RowIsShownOnce
  OBVIOUS
<1>2. RowIsShownOnce
  BY <1>1 DEF RowIsShownOnce, WalkInv, WalkState
<1>3. ASSUME walk.pc = "done", NEW k \in walk.owed
      PROVE  k \in walk.seen
  <2>1. /\ walk \in WalkState
        /\ walk.export = "spans" => SpansWalked
        /\ walk.export = "pairs" => PairsWalked
    BY <1>1, <1>3 DEF WalkInv, NoWalk
  <2>2. CASE walk.export = "spans"
    BY <1>3, <2>1, <2>2 DEF SpansWalked
  <2>3. CASE walk.export = "pairs"
    BY <1>3, <2>1, <2>3 DEF PairsWalked
  <2> QED BY <2>1, <2>2, <2>3 DEF WalkState
<1> QED BY <1>2, <1>3 DEF WalkIsComplete

\* A walk that reaches its end has shown all that it was owed and is still there,
\* whatever was written between its pages (functions.py:91-92).
THEOREM WalkShowsAll == WalkSpec => []WalkIsComplete
  BY WalkStart, WalkStep, WalkHolds, PTL DEF WalkSpec

\* No page repeats a row or a pair of an earlier one.
THEOREM WalkShowsOnce == WalkSpec => []RowIsShownOnce
  BY WalkStart, WalkStep, WalkHolds, PTL DEF WalkSpec
=============================================================================
