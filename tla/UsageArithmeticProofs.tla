----------------------- MODULE UsageArithmeticProofs -----------------------
(***************************************************************************)
(* What the sums of intervals come to, for any intervals: the union of a   *)
(* person's spans is the number of instants some span covers, never more   *)
(* for two overlapping spans, and the overlap of two people is the number  *)
(* of instants at which both are there. Finite sets are counted and        *)
(* functions on them summed by induction, which is stated here of sets: a  *)
(* set of numbers that is not empty has a least member.                    *)
(***************************************************************************)
EXTENDS UsageArithmetic, FiniteSetTheorems, WellFoundedInduction, TLAPS

-----------------------------------------------------------------------------
(* Induction, stated of sets rather than of predicates.                      *)

LEMMA LeastNat ==
    ASSUME NEW T, T \subseteq Nat, T # {}
    PROVE  \E x \in T : \A y \in T : x <= y
<1>1. PICK x \in T : \A y \in T : ~(<<y, x>> \in OpToRel(<, Nat))
  BY WFMin, NatLessThanWellFounded
<1>2. \A y \in T : ~(y < x)
  BY <1>1 DEF OpToRel
<1> QED BY <1>2

LEMMA NatIsAll ==
    ASSUME NEW T, T \subseteq Nat, 0 \in T, \A n \in T : n + 1 \in T
    PROVE  T = Nat
<1>1. SUFFICES ASSUME T # Nat PROVE FALSE
  OBVIOUS
<1>2. PICK n \in Nat \ T : \A m \in Nat \ T : n <= m
  BY <1>1, LeastNat
<1>3. n - 1 \in Nat /\ n - 1 \notin Nat \ T
  BY <1>2
<1> QED BY <1>2, <1>3

\* A set of subsets that starts at {} and grows by any element has the whole set.
LEMMA FiniteIsIn ==
    ASSUME NEW S, IsFiniteSet(S), NEW F, {} \in F,
           \A T \in SUBSET S, x \in S : T \in F /\ x \notin T => T \cup {x} \in F
    PROVE  S \in F
<1> DEFINE N == {n \in Nat : \A T \in SUBSET S : Cardinality(T) = n => T \in F}
<1>1. 0 \in N
  <2>1. ASSUME NEW T \in SUBSET S, Cardinality(T) = 0
        PROVE  T \in F
    BY <2>1, FS_Subset, FS_EmptySet
  <2> QED BY <2>1
<1>2. ASSUME NEW n \in N
      PROVE  n + 1 \in N
  <2>1. ASSUME NEW T \in SUBSET S, Cardinality(T) = n + 1
        PROVE  T \in F
    <3>1. IsFiniteSet(T) /\ T # {}
      BY <2>1, FS_Subset, FS_EmptySet
    <3>2. PICK x \in T : TRUE
      BY <3>1
    <3>3. Cardinality(T \ {x}) = n
      <4>1. Cardinality(T \ {x}) = Cardinality(T) - 1
        BY <3>1, FS_RemoveElement
      <4> QED BY <2>1, <4>1
    <3>4. T \ {x} \in F
      BY <3>3
    <3>5. T = (T \ {x}) \cup {x}
      OBVIOUS
    <3> QED BY <3>4, <3>5
  <2> QED BY <2>1
<1>3. N = Nat
  <2> HIDE DEF N
  <2>1. N \subseteq Nat
    BY DEF N
  <2> QED BY <1>1, <1>2, <2>1, NatIsAll
<1>4. Cardinality(S) \in Nat
  BY FS_CardinalityType
<1> QED BY <1>3, <1>4

-----------------------------------------------------------------------------
(* Functions defined by recursion: g[d] is given where d is in B, and is made *)
(* of g[pred[d]] elsewhere, pred[d] being nearer to B.                        *)

Descends(D, B, pred, mu, M) ==
    /\ pred \in [D -> D] /\ mu \in [D -> Nat] /\ \A d \in D \ B : mu[pred[d]] < mu[d]
    /\ M \in Nat /\ \A d \in D : mu[d] <= M

LEMMA RecursionInduction ==
    ASSUME NEW D, NEW B, NEW pred, NEW mu, NEW M, Descends(D, B, pred, mu, M),
           NEW T, \A d \in D : d \in B \/ pred[d] \in T => d \in T
    PROVE  D \subseteq T
<1> USE DEF Descends
<1> DEFINE N == {n \in Nat : \A d \in D : mu[d] < n => d \in T}
<1>1. 0 \in N
  OBVIOUS
<1>2. ASSUME NEW n \in N
      PROVE  n + 1 \in N
  OBVIOUS
<1>3. N = Nat
  <2> HIDE DEF N
  <2>1. N \subseteq Nat
    BY DEF N
  <2> QED BY <1>1, <1>2, <2>1, NatIsAll
<1> QED
  <2>1. ASSUME NEW d \in D
        PROVE  d \in T
    <3>1. mu[d] + 1 \in N
      BY <1>3
    <3> QED BY <3>1
  <2> QED BY <2>1

Recursion(D, B, V, pred, mu, M, base, step) ==
    /\ Descends(D, B, pred, mu, M)
    /\ base \in [D -> V] /\ step \in [D -> [V -> V]]
Solves(g, D, B, V, pred, base, step) ==
    g \in [D -> V] /\ \A d \in D : g[d] = IF d \in B THEN base[d] ELSE step[d][g[pred[d]]]

LEMMA RecursionExists ==
    ASSUME NEW D, NEW B, NEW V, NEW pred, NEW mu, NEW M, NEW base, NEW step,
           Recursion(D, B, V, pred, mu, M, base, step)
    PROVE  \E g : Solves(g, D, B, V, pred, base, step)
<1> USE DEF Recursion, Descends
<1> DEFINE N == {n \in Nat : \E g \in [D -> V] : \A d \in D : mu[d] < n =>
                     g[d] = IF d \in B THEN base[d] ELSE step[d][g[pred[d]]]}
<1>1. 0 \in N
  <2>1. base \in [D -> V] /\ \A d \in D : mu[d] < 0 =>
            base[d] = IF d \in B THEN base[d] ELSE step[d][base[pred[d]]]
    OBVIOUS
  <2> QED BY <2>1
<1>2. ASSUME NEW n \in N
      PROVE  n + 1 \in N
  <2>1. PICK g \in [D -> V] : \A d \in D : mu[d] < n =>
                     g[d] = IF d \in B THEN base[d] ELSE step[d][g[pred[d]]]
    OBVIOUS
  <2>2. PICK h : h = [d \in D |-> IF d \in B THEN base[d] ELSE step[d][g[pred[d]]]]
    OBVIOUS
  <2>3. h \in [D -> V]
    BY <2>2
  <2>4. ASSUME NEW d \in D, mu[d] < n + 1, d \notin B
        PROVE  h[d] = step[d][h[pred[d]]]
    <3>1. mu[pred[d]] < n /\ pred[d] \in D
      BY <2>4
    <3>2. g[pred[d]] = h[pred[d]]
      BY <2>1, <2>2, <3>1
    <3> QED BY <2>2, <2>4, <3>2
  <2>5. \A d \in D : d \in B => h[d] = base[d]
    BY <2>2
  <2>6. h \in [D -> V] /\ \A d \in D : mu[d] < n + 1 =>
            h[d] = IF d \in B THEN base[d] ELSE step[d][h[pred[d]]]
    BY <2>3, <2>4, <2>5
  <2> QED BY <2>6
<1>3. N = Nat
  <2> HIDE DEF N
  <2>1. N \subseteq Nat
    BY DEF N
  <2> QED BY <1>1, <1>2, <2>1, NatIsAll
<1>4. M + 1 \in N
  <2> HIDE DEF N
  <2> QED BY <1>3
<1>5. PICK g \in [D -> V] : \A d \in D : mu[d] < M + 1 =>
          g[d] = IF d \in B THEN base[d] ELSE step[d][g[pred[d]]]
  BY <1>4
<1>6. \A d \in D : g[d] = IF d \in B THEN base[d] ELSE step[d][g[pred[d]]]
  BY <1>5
<1>7. Solves(g, D, B, V, pred, base, step)
  BY <1>6 DEF Solves
<1> QED BY <1>7
-----------------------------------------------------------------------------
(* Sums.                                                                    *)

\* The sums of the parts of f: taking an element out takes its value out, whichever
\* one the fold picks.
IsSums(G, f, D) ==
    /\ G \in [SUBSET D -> Nat] /\ G[{}] = 0
    /\ \A T \in SUBSET D, x \in D : x \in T => G[T] = f[x] + G[T \ {x}]

Picked(T) == CHOOSE x \in T : TRUE

LEMMA FoldsExist ==
    ASSUME NEW D, IsFiniteSet(D), NEW f \in [D -> Nat]
    PROVE  \E G : IsSums(G, f, D) /\ G[D] = SumOf(f)
<1> DEFINE Eq(g) == g = [T \in SUBSET D |-> IF T = {} THEN 0 ELSE f[Picked(T)] + g[T \ {Picked(T)}]]
<1>0. /\ \A T \in SUBSET D : IsFiniteSet(T) /\ Cardinality(T) \in Nat /\ Cardinality(T) <= Cardinality(D)
      /\ Cardinality(D) \in Nat
  BY FS_Subset, FS_CardinalityType
<1>1. ASSUME NEW T \in SUBSET D, T # {}
      PROVE  Picked(T) \in T /\ Cardinality(T \ {Picked(T)}) = Cardinality(T) - 1
  <2>1. Picked(T) \in T
    BY <1>1 DEF Picked
  <2> QED BY <1>0, <2>1, FS_RemoveElement
<1>2. \E g \in [SUBSET D -> Nat] : Eq(g)
  <2>1. PICK pred : pred = [T \in SUBSET D |-> IF T = {} THEN {} ELSE T \ {Picked(T)}]
    OBVIOUS
  <2>2. PICK mu : mu = [T \in SUBSET D |-> Cardinality(T)]
    OBVIOUS
  <2>3. PICK step : step = [T \in SUBSET D |-> [v \in Nat |-> IF T = {} THEN 0 ELSE f[Picked(T)] + v]]
    OBVIOUS
  <2>4. PICK base : base = [T \in SUBSET D |-> 0]
    OBVIOUS
  <2>5. /\ pred \in [SUBSET D -> SUBSET D] /\ mu \in [SUBSET D -> Nat]
        /\ base \in [SUBSET D -> Nat]
    BY <1>0, <2>1, <2>2, <2>4
  <2>6. step \in [SUBSET D -> [Nat -> Nat]]
    <3>1. ASSUME NEW T \in SUBSET D, NEW v \in Nat
          PROVE  (IF T = {} THEN 0 ELSE f[Picked(T)] + v) \in Nat
      BY <1>1
    <3>2. \A T \in SUBSET D : step[T] = [v \in Nat |-> IF T = {} THEN 0 ELSE f[Picked(T)] + v]
      BY <2>3
    <3>3. \A T \in SUBSET D : step[T] \in [Nat -> Nat]
      BY <3>1, <3>2
    <3> QED BY <2>3, <3>3
  <2>7. ASSUME NEW T \in (SUBSET D) \ {{}}
        PROVE  mu[pred[T]] < mu[T]
    <3>1. mu[pred[T]] = Cardinality(T) - 1 /\ mu[T] = Cardinality(T)
      BY <1>1, <2>1, <2>2
    <3>2. Cardinality(T) \in Nat
      BY <1>0
    <3> QED BY <3>1, <3>2
  <2>8. \A T \in SUBSET D : mu[T] <= Cardinality(D)
    BY <1>0, <2>2
  <2>9. PICK g \in [SUBSET D -> Nat] : \A T \in SUBSET D :
            g[T] = IF T \in {{}} THEN base[T] ELSE step[T][g[pred[T]]]
    <3>1. PICK P : P = SUBSET D
      OBVIOUS
    <3>2. PICK B, V : B = {{}} /\ V = Nat
      OBVIOUS
    <3>3. PICK M \in Nat : M = Cardinality(D)
      BY <1>0
    <3>4. Recursion(P, B, V, pred, mu, M, base, step)
      BY <2>5, <2>6, <2>7, <2>8, <3>1, <3>2, <3>3 DEF Recursion, Descends
    <3>5. PICK g : Solves(g, P, B, V, pred, base, step)
      BY <3>4, RecursionExists
    <3> QED BY <3>1, <3>2, <3>5 DEF Solves
  <2>10. ASSUME NEW T \in SUBSET D
         PROVE  g[T] = IF T = {} THEN 0 ELSE f[Picked(T)] + g[T \ {Picked(T)}]
    <3>1. CASE T = {}
      BY <2>4, <2>9, <3>1
    <3>2. CASE T # {}
      <4>1. g[T] = step[T][g[pred[T]]] /\ pred[T] = T \ {Picked(T)} /\ g[pred[T]] \in Nat
        BY <2>1, <2>5, <2>9, <3>2
      <4> QED BY <2>3, <3>2, <4>1
    <3> QED BY <3>1, <3>2
  <2>11. Eq(g)
    BY <2>9, <2>10
  <2> QED BY <2>9, <2>11
<1>3. PICK G : Eq(G) /\ SumOf(f) = G[D]
  <2>1. PICK G : G = CHOOSE g : Eq(g)
    OBVIOUS
  <2>2. Eq(G)
    BY <1>2, <2>1
  <2>3. SumOf(f) = G[D]
    <3>1. DOMAIN f = D
      OBVIOUS
    <3> QED BY <2>1, <3>1 DEF SumOf, MapThenFoldSet, Picked
  <2> QED BY <2>2, <2>3
<1>4. /\ G[{}] = 0
      /\ \A T \in SUBSET D : T # {} => G[T] = f[Picked(T)] + G[T \ {Picked(T)}]
  <2>1. {} \in SUBSET D
    OBVIOUS
  <2> QED BY <1>3, <2>1
<1> DEFINE N == {n \in Nat : \A T \in SUBSET D : Cardinality(T) < n =>
                    G[T] \in Nat /\ \A x \in T : G[T] = f[x] + G[T \ {x}]}
<1>5. 0 \in N
  BY <1>0
<1>6. ASSUME NEW n \in N
      PROVE  n + 1 \in N
  <2>1. ASSUME NEW T \in SUBSET D, Cardinality(T) < n + 1
        PROVE  G[T] \in Nat
    <3>1. CASE T = {}
      BY <1>4, <3>1
    <3>2. CASE T # {}
      <4>1. Picked(T) \in D /\ Cardinality(T \ {Picked(T)}) < n
        BY <1>0, <1>1, <2>1, <3>2
      <4>2. G[T \ {Picked(T)}] \in Nat /\ f[Picked(T)] \in Nat
        BY <4>1
      <4>3. G[T] = f[Picked(T)] + G[T \ {Picked(T)}]
        BY <1>4, <3>2
      <4> QED BY <4>2, <4>3
    <3> QED BY <3>1, <3>2
  <2>2. ASSUME NEW T \in SUBSET D, Cardinality(T) < n + 1, NEW x \in T
        PROVE  G[T] = f[x] + G[T \ {x}]
    <3>1. PICK p : p = Picked(T)
      OBVIOUS
    <3>2. p \in T /\ Cardinality(T \ {p}) < n /\ Cardinality(T \ {x}) < n
      <4>1. Cardinality(T \ {x}) = Cardinality(T) - 1
        BY <1>0, FS_RemoveElement
      <4> QED BY <1>0, <1>1, <2>2, <3>1, <4>1
    <3>3. G[T] = f[p] + G[T \ {p}]
      BY <1>4, <3>1, <3>2
    <3>4. CASE x = p
      BY <3>3, <3>4
    <3>5. CASE x # p
      <4>1. G[T \ {p}] = f[x] + G[(T \ {p}) \ {x}]
        BY <3>2, <3>5
      <4>2. G[T \ {x}] = f[p] + G[(T \ {x}) \ {p}]
        BY <3>2, <3>5
      <4>3. (T \ {p}) \ {x} = (T \ {x}) \ {p}
        OBVIOUS
      <4>4. G[(T \ {x}) \ {p}] \in Nat
        <5>1. Cardinality((T \ {x}) \ {p}) < n
          <6>1. (T \ {x}) \ {p} \in SUBSET D /\ T \ {x} \in SUBSET D
            OBVIOUS
          <6>2. Cardinality((T \ {x}) \ {p}) = Cardinality(T \ {x}) - 1
            BY <1>0, <3>2, <3>5, <6>1, FS_RemoveElement
          <6> QED BY <1>0, <3>2, <6>1, <6>2
        <5> QED BY <5>1
      <4>5. f[x] \in Nat /\ f[p] \in Nat
        BY <3>2
      <4>6. PICK a \in Nat, b \in Nat, c \in Nat :
                a = f[x] /\ b = f[p] /\ c = G[(T \ {x}) \ {p}]
        BY <4>4, <4>5
      <4>7. G[T] = b + (a + c) /\ G[T \ {x}] = b + c
        BY <3>3, <4>1, <4>2, <4>3, <4>6
      <4> QED BY <4>6, <4>7
    <3> QED BY <3>4, <3>5
  <2>3. \A T \in SUBSET D : Cardinality(T) < n + 1 =>
                    G[T] \in Nat /\ \A x \in T : G[T] = f[x] + G[T \ {x}]
    BY <2>1, <2>2
  <2>4. n + 1 \in Nat
    OBVIOUS
  <2> QED BY <2>3, <2>4
<1>7. N = Nat
  <2> HIDE DEF N
  <2>1. N \subseteq Nat
    BY DEF N
  <2> QED BY <1>5, <1>6, <2>1, NatIsAll
<1>8. Cardinality(D) + 1 \in N
  <2> HIDE DEF N
  <2> QED BY <1>0, <1>7
<1>9. \A T \in SUBSET D : G[T] \in Nat /\ \A x \in T : G[T] = f[x] + G[T \ {x}]
  <2>1. \A T \in SUBSET D : Cardinality(T) < Cardinality(D) + 1
    BY <1>0
  <2> QED BY <1>8, <2>1
<1>10. G \in [SUBSET D -> Nat] /\ G[{}] = 0
  BY <1>3, <1>4, <1>9
<1> QED BY <1>3, <1>9, <1>10 DEF IsSums

LEMMA SumsExist ==
    ASSUME NEW D, IsFiniteSet(D), NEW f \in [D -> Nat]
    PROVE  \E G : IsSums(G, f, D) /\ G[D] = Total(f)
<1>1. Total(f) = SumOf(f)
  BY DEF Total
<1> QED BY <1>1, FoldsExist

LEMMA SumsAdd ==
    ASSUME NEW D, NEW f, NEW G, IsSums(G, f, D),
           NEW T \in SUBSET D, NEW x \in D, x \notin T, NEW U, U = T \cup {x}
    PROVE  G[U] = f[x] + G[T] /\ G[T] \in Nat /\ G[U] \in Nat
<1>1. U \in SUBSET D /\ x \in U /\ U \ {x} = T
  OBVIOUS
<1> QED BY <1>1 DEF IsSums

LEMMA TotalIs ==
    ASSUME NEW D, IsFiniteSet(D), NEW f \in [D -> Nat], NEW G, IsSums(G, f, D)
    PROVE  Total(f) = G[D] /\ Total(f) \in Nat
<1>1. PICK H : IsSums(H, f, D) /\ H[D] = Total(f)
  BY SumsExist
<1> DEFINE F == {T \in SUBSET D : G[T] = H[T]}
<1>2. {} \in F
  BY <1>1 DEF IsSums
<1>3. ASSUME NEW T \in SUBSET D, NEW x \in D, T \in F, x \notin T
      PROVE  T \cup {x} \in F
  <2>1. T \cup {x} \in SUBSET D /\ (T \cup {x}) \ {x} = T
    BY <1>3
  <2>2. G[T \cup {x}] = f[x] + G[T] /\ H[T \cup {x}] = f[x] + H[T]
    BY <1>1, <1>3, SumsAdd
  <2> QED BY <1>3, <2>1, <2>2
<1>4. D \in F
  <2> HIDE DEF F
  <2> QED BY <1>2, <1>3, FiniteIsIn
<1> QED BY <1>1, <1>4 DEF IsSums

LEMMA TotalType ==
    ASSUME NEW D, IsFiniteSet(D), NEW f \in [D -> Nat]
    PROVE  Total(f) \in Nat
  BY SumsExist, TotalIs

LEMMA TotalEmpty ==
    ASSUME NEW f \in [{} -> Nat]
    PROVE  Total(f) = 0
<1>1. PICK G : IsSums(G, f, {}) /\ G[{}] = Total(f)
  BY SumsExist, FS_EmptySet
<1> QED BY <1>1 DEF IsSums

LEMMA TotalOne ==
    ASSUME NEW d, NEW f \in [{d} -> Nat]
    PROVE  Total(f) = f[d]
<1>1. PICK G : IsSums(G, f, {d}) /\ G[{d}] = Total(f)
  BY SumsExist, FS_Singleton
<1>2. G[{d}] = f[d] + G[{d} \ {d}]
  <2>1. {d} \in SUBSET {d} /\ d \in {d}
    OBVIOUS
  <2> QED BY <1>1, <2>1 DEF IsSums
<1>3. {d} \ {d} = {} /\ f[d] \in Nat
  OBVIOUS
<1> QED BY <1>1, <1>2, <1>3 DEF IsSums

\* What is nothing may be left out of a sum.
IsPart(g, D, f, E) ==
    /\ f \in [E -> Nat] /\ D \in SUBSET E /\ g \in [D -> Nat]
    /\ \A x \in D : g[x] = f[x]
    /\ \A x \in E \ D : f[x] = 0

LEMMA TotalOfPart ==
    ASSUME NEW E, IsFiniteSet(E), NEW f, NEW D, NEW g, IsPart(g, D, f, E)
    PROVE  Total(g) = Total(f)
<1> USE DEF IsPart
<1>0. IsFiniteSet(D)
  BY FS_Subset
<1>1. PICK G : IsSums(G, f, E) /\ G[E] = Total(f)
  BY SumsExist
<1>2. PICK H : H = [T \in SUBSET D |-> G[T]]
  OBVIOUS
<1>3. IsSums(H, g, D)
  <2>1. ASSUME NEW T \in SUBSET D
        PROVE  T \in SUBSET E /\ H[T] = G[T] /\ H[T] \in Nat
    BY <1>1, <1>2 DEF IsSums
  <2>2. ASSUME NEW T \in SUBSET D, NEW x \in D, x \in T
        PROVE  H[T] = g[x] + H[T \ {x}]
    <3>1. T \ {x} \in SUBSET D
      OBVIOUS
    <3>2. H[T] = G[T] /\ H[T \ {x}] = G[T \ {x}] /\ T \in SUBSET E /\ x \in E
      BY <2>1, <3>1
    <3>3. G[T] = f[x] + G[T \ {x}]
      BY <1>1, <2>2, <3>2 DEF IsSums
    <3> QED BY <3>2, <3>3
  <2>3. H[{}] = 0
    <3>1. H[{}] = G[{}]
      BY <1>2
    <3> QED BY <1>1, <3>1 DEF IsSums
  <2> QED BY <1>2, <2>1, <2>2, <2>3 DEF IsSums
<1>4. Total(g) = G[D]
  <2>1. D \in SUBSET D
    OBVIOUS
  <2> QED BY <1>0, <1>2, <1>3, <2>1, TotalIs
<1> DEFINE F == {T \in SUBSET E : G[T] = G[T \cap D]}
<1>5. {} \in F
  <2>1. {} \cap D = {}
    OBVIOUS
  <2> QED BY <2>1
<1>6. ASSUME NEW T \in SUBSET E, NEW x \in E, T \in F, x \notin T
      PROVE  T \cup {x} \in F
  <2>1. /\ T \cup {x} \in SUBSET E /\ (T \cup {x}) \ {x} = T /\ x \in T \cup {x}
        /\ T \cap D \in SUBSET E /\ T \in SUBSET E
    BY <1>6
  <2>2. G[T \cup {x}] = f[x] + G[T] /\ G[T] \in Nat /\ G[T] = G[T \cap D]
    BY <1>1, <1>6, <2>1 DEF IsSums
  <2>3. CASE x \in D
    <3>1. /\ (T \cup {x}) \cap D = (T \cap D) \cup {x}
          /\ x \notin T \cap D /\ T \cap D \in SUBSET E
      BY <1>6, <2>3
    <3>2. G[(T \cap D) \cup {x}] = f[x] + G[T \cap D]
      BY <1>1, <3>1, SumsAdd
    <3> QED BY <2>1, <2>2, <3>1, <3>2
  <2>4. CASE x \notin D
    <3>1. (T \cup {x}) \cap D = T \cap D /\ f[x] = 0
      BY <2>4
    <3> QED BY <2>1, <2>2, <3>1
  <2> QED BY <2>3, <2>4
<1>7. E \in F
  <2> HIDE DEF F
  <2> QED BY <1>5, <1>6, FiniteIsIn
<1>8. E \cap D = D
  OBVIOUS
<1> QED BY <1>1, <1>4, <1>7, <1>8

\* A sum does not depend on what its values are called.
IsRenaming(b, f, D, g, E) ==
    /\ f \in [D -> Nat] /\ g \in [E -> Nat] /\ b \in [D -> E]
    /\ \A x, y \in D : b[x] = b[y] => x = y
    /\ \A z \in E : \E x \in D : b[x] = z
    /\ \A x \in D : g[b[x]] = f[x]

LEMMA TotalRenamed ==
    ASSUME NEW D, IsFiniteSet(D), NEW f, NEW E, IsFiniteSet(E), NEW g, NEW b, IsRenaming(b, f, D, g, E)
    PROVE  Total(g) = Total(f)
<1> USE DEF IsRenaming
<1> DEFINE Image(T) == {b[x] : x \in T}
<1>1. PICK G : IsSums(G, g, E) /\ G[E] = Total(g)
  BY SumsExist
<1>2. PICK H : H = [T \in SUBSET D |-> G[Image(T)]]
  OBVIOUS
<1>3. IsSums(H, f, D)
  <2>1. ASSUME NEW T \in SUBSET D
        PROVE  Image(T) \in SUBSET E /\ H[T] = G[Image(T)] /\ H[T] \in Nat
    <3>1. Image(T) \in SUBSET E
      OBVIOUS
    <3> HIDE DEF Image
    <3> QED BY <1>1, <1>2, <3>1 DEF IsSums
  <2>2. ASSUME NEW T \in SUBSET D, NEW x \in D, x \in T
        PROVE  H[T] = f[x] + H[T \ {x}]
    <3>1. T \ {x} \in SUBSET D /\ T \in SUBSET D /\ b[x] \in E
      BY <2>2
    <3>2. Image(T \ {x}) = Image(T) \ {b[x]} /\ b[x] \in Image(T)
      BY <2>2
    <3>3. G[Image(T)] = g[b[x]] + G[Image(T) \ {b[x]}]
      <4>1. Image(T) = Image(T \ {x}) \cup {b[x]} /\ b[x] \notin Image(T \ {x})
        BY <3>2
      <4>2. Image(T \ {x}) \in SUBSET E
        BY <2>1, <3>1
      <4> HIDE DEF Image
      <4>3. PICK z, P, Q : z = b[x] /\ P = Image(T \ {x}) /\ Q = Image(T)
        OBVIOUS
      <4>4. z \in E /\ P \in SUBSET E /\ z \notin P /\ Q = P \cup {z}
        BY <3>1, <4>1, <4>2, <4>3
      <4>5. G[Q] = g[z] + G[P]
        BY <1>1, <4>4, SumsAdd
      <4> QED BY <3>2, <4>3, <4>5
    <3>4. H[T] = G[Image(T)] /\ H[T \ {x}] = G[Image(T) \ {b[x]}]
      BY <2>1, <3>1, <3>2
    <3> QED BY <3>3, <3>4
  <2>3. H[{}] = 0
    <3>1. {} \in SUBSET D /\ Image({}) = {}
      OBVIOUS
    <3>2. H[{}] = G[{}]
      <4> HIDE DEF Image
      <4> QED BY <2>1, <3>1
    <3> QED BY <1>1, <3>2 DEF IsSums
  <2>4. H = [T \in SUBSET D |-> H[T]] /\ \A T \in SUBSET D : H[T] \in Nat
    BY <1>2, <2>1
  <2> QED BY <2>2, <2>3, <2>4 DEF IsSums
<1>4. Total(f) = H[D]
  BY <1>3, TotalIs
<1>5. Image(D) = E
  OBVIOUS
<1>6. H[D] = G[E]
  <2>1. D \in SUBSET D
    OBVIOUS
  <2> QED BY <1>2, <1>5, <2>1
<1> QED BY <1>1, <1>4, <1>6

\* Sets that have nothing in common add up to their union.
Apart(A, D) ==
    /\ \A x \in D : IsFiniteSet(A[x])
    /\ \A x, y \in D : x # y => A[x] \cap A[y] = {}

LEMMA TotalOfSizes ==
    ASSUME NEW D, IsFiniteSet(D), NEW A, Apart(A, D),
           NEW f \in [D -> Nat], \A x \in D : f[x] = Cardinality(A[x])
    PROVE  /\ IsFiniteSet(UNION {A[x] : x \in D})
           /\ Total(f) = Cardinality(UNION {A[x] : x \in D})
<1> USE DEF Apart
<1> DEFINE All(T) == UNION {A[x] : x \in T}
<1> DEFINE F == {T \in SUBSET D : IsFiniteSet(All(T))}
<1>2. {} \in F
  <2>1. All({}) = {}
    OBVIOUS
  <2> QED BY <2>1, FS_EmptySet
<1>3. ASSUME NEW T \in SUBSET D, NEW x \in D, x \notin T
      PROVE  All(T \cup {x}) = All(T) \cup A[x] /\ All(T) \cap A[x] = {}
  <2>1. \A y \in T : A[y] \cap A[x] = {}
    BY <1>3
  <2> QED BY <2>1
<1>4. ASSUME NEW T \in SUBSET D, NEW x \in D, T \in F, x \notin T
      PROVE  T \cup {x} \in F
  <2>1. IsFiniteSet(All(T) \cup A[x])
    <3> HIDE DEF All
    <3>1. IsFiniteSet(All(T)) /\ IsFiniteSet(A[x])
      BY <1>4
    <3> QED BY <3>1, FS_Union
  <2>2. T \cup {x} \in SUBSET D
    OBVIOUS
  <2> HIDE DEF All
  <2> QED BY <1>3, <1>4, <2>1, <2>2
<1>5. D \in F
  <2> HIDE DEF F
  <2> QED BY <1>2, <1>4, FiniteIsIn
<1>6. ASSUME NEW T \in SUBSET D
      PROVE  IsFiniteSet(All(T)) /\ Cardinality(All(T)) \in Nat
  <2>1. All(T) \subseteq All(D)
    OBVIOUS
  <2> HIDE DEF All
  <2> QED BY <1>5, <2>1, FS_Subset, FS_CardinalityType
<1>7. PICK H : H = [T \in SUBSET D |-> Cardinality(All(T))]
  OBVIOUS
<1>8. IsSums(H, f, D)
  <2>1. ASSUME NEW T \in SUBSET D, NEW x \in D, x \in T
        PROVE  H[T] = f[x] + H[T \ {x}]
    <3>1. T \ {x} \in SUBSET D /\ x \notin T \ {x} /\ T = (T \ {x}) \cup {x}
      BY <2>1
    <3>2. All(T) = All(T \ {x}) \cup A[x] /\ All(T \ {x}) \cap A[x] = {}
      BY <1>3, <3>1
    <3>3. PICK B, C : B = All(T \ {x}) /\ C = A[x]
      OBVIOUS
    <3>4. IsFiniteSet(B) /\ IsFiniteSet(C) /\ Cardinality(B) \in Nat /\ Cardinality(C) \in Nat
      BY <1>6, <3>1, <3>3, FS_CardinalityType
    <3>5. Cardinality(B \cup C) = Cardinality(B) + Cardinality(C) - Cardinality(B \cap C)
      BY <3>4, FS_Union
    <3>6. Cardinality(B \cap C) = 0
      BY <3>2, <3>3, FS_EmptySet
    <3>7. H[T] = Cardinality(B \cup C) /\ H[T \ {x}] = Cardinality(B) /\ f[x] = Cardinality(C)
      <4>1. H[T] = Cardinality(All(T)) /\ H[T \ {x}] = Cardinality(All(T \ {x}))
        BY <1>7, <3>1
      <4> HIDE DEF All
      <4> QED BY <3>2, <3>3, <4>1
    <3> QED BY <3>4, <3>5, <3>6, <3>7
  <2>2. H[{}] = 0
    <3>1. All({}) = {} /\ {} \in SUBSET D
      OBVIOUS
    <3> QED BY <1>7, <3>1, FS_EmptySet
  <2>3. H \in [SUBSET D -> Nat]
    BY <1>6, <1>7
  <2> QED BY <2>1, <2>2, <2>3 DEF IsSums
<1>9. Total(f) = H[D]
  BY <1>8, TotalIs
<1>10. H[D] = Cardinality(All(D))
  <2>1. D \in SUBSET D
    OBVIOUS
  <2> QED BY <1>7, <2>1
<1>11. IsFiniteSet(All(D))
  <2>1. D \in SUBSET D
    OBVIOUS
  <2> QED BY <1>6, <2>1
<1> QED BY <1>9, <1>10, <1>11

-----------------------------------------------------------------------------
(* A person's time: _merge_intervals.                                       *)

Interval == {x \in Nat \X Nat : x[1] < x[2]}
Times == Seq(Nat \X Nat)

\* What the loop keeps: intervals in order that do not touch.
IsTimeline(m) ==
    /\ m \in Times /\ \A i \in 1..Len(m) : m[i][1] < m[i][2]
    /\ \A i, j \in 1..Len(m) : i < j => m[i][2] < m[j][1]
Covers(m, t) == \E i \in 1..Len(m) : m[i][1] <= t /\ t < m[i][2]

Below(y, x) == y[1] < x[1] \/ (y[1] = x[1] /\ y[2] <= x[2])

LEMMA FarthestExists ==
    ASSUME NEW S \in SUBSET (Nat \X Nat), IsFiniteSet(S), S # {}
    PROVE  FarthestOf(S) \in S /\ \A y \in S : Below(y, FarthestOf(S))
<1> DEFINE F == {T \in SUBSET S : T # {} => \E x \in T : \A y \in T : Below(y, x)}
<1>1. {} \in F
  OBVIOUS
<1>2. ASSUME NEW T \in SUBSET S, NEW x \in S, T \in F, x \notin T
      PROVE  T \cup {x} \in F
  <2>0. x \in Nat \X Nat /\ T \subseteq Nat \X Nat
    OBVIOUS
  <2>1. CASE T = {}
    <3>1. Below(x, x)
      BY <2>0 DEF Below
    <3>2. \A y \in T \cup {x} : Below(y, x)
      BY <2>1, <3>1
    <3> QED BY <3>2
  <2>2. CASE T # {}
    <3>1. PICK z \in T : \A y \in T : Below(y, z)
      BY <1>2, <2>2
    <3>2. CASE Below(x, z)
      <4>1. \A y \in T \cup {x} : Below(y, z)
        BY <3>1, <3>2
      <4> QED BY <4>1
    <3>3. CASE ~Below(x, z)
      <4>1. ASSUME NEW y \in T \cup {x}
            PROVE  Below(y, x)
        <5>1. y \in Nat \X Nat /\ z \in Nat \X Nat
          BY <2>0
        <5>2. y = x \/ Below(y, z)
          BY <3>1
        <5> QED BY <2>0, <3>3, <5>1, <5>2 DEF Below
      <4> QED BY <4>1
    <3> QED BY <3>2, <3>3
  <2> QED BY <2>1, <2>2
<1>3. S \in F
  <2> HIDE DEF F
  <2> QED BY <1>1, <1>2, FiniteIsIn
<1>4. \E x \in S : \A y \in S : y[1] < x[1] \/ (y[1] = x[1] /\ y[2] <= x[2])
  BY <1>3 DEF Below
<1> QED BY <1>4 DEF FarthestOf, Below

LEMMA AbsorbType ==
    ASSUME NEW m \in Times, NEW x \in Nat \X Nat
    PROVE  Absorb(x, m) \in Times
<1>1. CASE Len(m) > 0 /\ x[1] <= m[Len(m)][2]
  <2>1. PICK n \in 1..Len(m) : n = Len(m)
    BY <1>1 DEF Times
  <2>2. m[n] \in Nat \X Nat
    BY DEF Times
  <2>3. PICK y : y = <<m[n][1], Later(m[n][2], x[2])>>
    OBVIOUS
  <2>4. y \in Nat \X Nat
    BY <2>2, <2>3 DEF Later
  <2>5. Absorb(x, m) = [m EXCEPT ![n] = y]
    BY <1>1, <2>1, <2>3 DEF Absorb
  <2> QED BY <2>4, <2>5 DEF Times
<1>2. CASE ~(Len(m) > 0 /\ x[1] <= m[Len(m)][2])
  <2>1. Absorb(x, m) = Append(m, x)
    BY <1>2 DEF Absorb
  <2> QED BY <2>1 DEF Times
<1> QED BY <1>1, <1>2

NoneAfter(m, x) == \A i \in 1..Len(m) : m[i][1] <= x[1]

\* One turn of the loop, on an interval that starts after all that is merged so far.
LEMMA AbsorbStep ==
    ASSUME NEW m, IsTimeline(m), NEW x \in Interval, NoneAfter(m, x)
    PROVE  /\ IsTimeline(Absorb(x, m)) /\ Len(Absorb(x, m)) > 0
           /\ \A t \in Nat : Covers(Absorb(x, m), t) <=> Covers(m, t) \/ (x[1] <= t /\ t < x[2])
           /\ \A i \in 1..Len(Absorb(x, m)) :
                 Absorb(x, m)[i][1] = x[1] \/ \E j \in 1..Len(m) : Absorb(x, m)[i][1] = m[j][1]
<1> USE DEF NoneAfter
<1>1. PICK k : k = Absorb(x, m)
  OBVIOUS
<1>2. PICK n \in Nat : n = Len(m)
  BY DEF IsTimeline, Times
<1>3. x[1] \in Nat /\ x[2] \in Nat /\ x[1] < x[2] /\ x \in Nat \X Nat /\ k \in Times
  BY <1>1, AbsorbType DEF Interval, IsTimeline
<1>4. \A i \in 1..n : m[i][1] \in Nat /\ m[i][2] \in Nat /\ m[i][1] < m[i][2] /\ m[i][1] <= x[1]
  <2>1. \A i \in 1..n : m[i] \in Nat \X Nat
    BY <1>2 DEF IsTimeline, Times
  <2> QED BY <1>2, <2>1 DEF IsTimeline
<1>5. \A i, j \in 1..n : i < j => m[i][2] < m[j][1]
  BY <1>2 DEF IsTimeline
<1>6. CASE n > 0 /\ x[1] <= m[n][2]
  <2>1. PICK y : y = <<m[n][1], Later(m[n][2], x[2])>>
    OBVIOUS
  <2>2. n \in 1..n /\ y[1] = m[n][1] /\ y[2] = Later(m[n][2], x[2])
    BY <1>6, <2>1
  <2>3. y[2] \in Nat /\ y[1] < y[2] /\ y[2] >= m[n][2] /\ y[2] >= x[2]
        /\ (y[2] = m[n][2] \/ y[2] = x[2])
    BY <1>3, <1>4, <2>2 DEF Later
  <2>4. k = [m EXCEPT ![n] = y]
    BY <1>1, <1>2, <1>6, <2>1 DEF Absorb
  <2>5. Len(k) = n /\ k[n] = y /\ \A i \in 1..n - 1 : k[i] = m[i]
    BY <1>2, <2>2, <2>4 DEF IsTimeline, Times
  <2>6. \A i \in 1..n : i = n \/ i \in 1..n - 1
    OBVIOUS
  <2>7. \A i \in 1..n : k[i][1] = m[i][1] /\ k[i][1] < k[i][2]
    BY <1>4, <2>2, <2>3, <2>5, <2>6
  <2>8. ASSUME NEW i \in 1..n, NEW j \in 1..n, i < j
        PROVE  k[i][2] < k[j][1]
    <3>1. i \in 1..n - 1
      BY <2>8
    <3> QED BY <1>5, <2>5, <2>7, <2>8, <3>1
  <2>9. ASSUME NEW t \in Nat
        PROVE  Covers(k, t) <=> Covers(m, t) \/ (x[1] <= t /\ t < x[2])
    <3>1. ASSUME NEW i \in 1..n, k[i][1] <= t, t < k[i][2]
          PROVE  Covers(m, t) \/ (x[1] <= t /\ t < x[2])
      <4>1. CASE i = n
        <5>1. m[n][1] <= t /\ (t < m[n][2] \/ t < x[2])
          BY <1>3, <1>4, <2>2, <2>3, <2>5, <3>1, <4>1
        <5>2. CASE t < m[n][2]
          BY <1>2, <2>2, <5>1, <5>2 DEF Covers
        <5>3. CASE t >= m[n][2] /\ t < x[2]
          BY <1>3, <1>4, <1>6, <2>2, <5>3
        <5> QED BY <1>4, <2>2, <5>1, <5>2, <5>3
      <4>2. CASE i \in 1..n - 1
        BY <1>2, <2>5, <3>1, <4>2 DEF Covers
      <4> QED BY <2>6, <4>1, <4>2
    <3>2. ASSUME NEW i \in 1..n, m[i][1] <= t, t < m[i][2]
          PROVE  Covers(k, t)
      <4>1. k[i][1] <= t /\ t < k[i][2]
        BY <1>4, <2>2, <2>3, <2>5, <2>6, <3>2
      <4> QED BY <2>5, <4>1 DEF Covers
    <3>3. ASSUME x[1] <= t, t < x[2]
          PROVE  Covers(k, t)
      <4>1. k[n][1] <= t /\ t < k[n][2]
        BY <1>3, <1>4, <2>2, <2>3, <2>5, <3>3
      <4> QED BY <2>2, <2>5, <4>1 DEF Covers
    <3> QED BY <1>2, <2>5, <3>1, <3>2, <3>3 DEF Covers
  <2> QED BY <1>1, <1>2, <1>3, <1>6, <2>5, <2>7, <2>8, <2>9 DEF IsTimeline
<1>7. CASE ~(n > 0 /\ x[1] <= m[n][2])
  <2>1. k = Append(m, x)
    BY <1>1, <1>2, <1>7 DEF Absorb
  <2>2. Len(k) = n + 1 /\ k[n + 1] = x /\ \A i \in 1..n : k[i] = m[i]
    BY <1>2, <1>3, <2>1 DEF IsTimeline, Times
  <2>3. \A i \in 1..n + 1 : i = n + 1 \/ i \in 1..n
    OBVIOUS
  <2>4. \A i \in 1..n + 1 : k[i][1] < k[i][2]
    BY <1>3, <1>4, <2>2, <2>3
  <2>5. ASSUME NEW i \in 1..n
        PROVE  m[i][2] < x[1]
    <3>1. n \in 1..n /\ n > 0 /\ m[n][2] < x[1]
      BY <1>3, <1>4, <1>7
    <3>2. i = n \/ m[i][2] < m[n][1]
      BY <1>5, <3>1
    <3> QED BY <1>3, <1>4, <3>1, <3>2
  <2>6. ASSUME NEW i \in 1..n + 1, NEW j \in 1..n + 1, i < j
        PROVE  k[i][2] < k[j][1]
    <3>1. i \in 1..n /\ (j = n + 1 \/ j \in 1..n)
      BY <2>6
    <3> QED BY <1>5, <2>2, <2>5, <2>6, <3>1
  <2>7. ASSUME NEW t \in Nat
        PROVE  Covers(k, t) <=> Covers(m, t) \/ (x[1] <= t /\ t < x[2])
    <3>1. n + 1 \in 1..n + 1 /\ \A i \in 1..n : i \in 1..n + 1
      OBVIOUS
    <3> QED BY <1>2, <2>2, <2>3, <3>1 DEF Covers
  <2>8. \A i \in 1..n + 1 : k[i][1] = x[1] \/ \E j \in 1..n : k[i][1] = m[j][1]
    BY <2>2, <2>3
  <2> QED BY <1>1, <1>2, <1>3, <2>2, <2>4, <2>6, <2>7, <2>8 DEF IsTimeline
<1> QED BY <1>6, <1>7

\* What merging keeps: the same instants, each in one interval, and starts that
\* are starts of what was merged.
IsMerged(m, S) ==
    /\ IsTimeline(m) /\ (S # {} => Len(m) > 0)
    /\ \A t \in Nat : Covers(m, t) <=> \E x \in S : x[1] <= t /\ t < x[2]
    /\ \A i \in 1..Len(m) : \E x \in S : m[i][1] = x[1]

LEMMA MergedStep ==
    ASSUME NEW T \in SUBSET Interval, IsFiniteSet(T), T # {}, NEW x, x = FarthestOf(T),
           NEW m, IsMerged(m, T \ {x})
    PROVE  IsMerged(Absorb(x, m), T)
<1>1. /\ x \in T /\ x \in Interval
      /\ \A y \in T : y[1] \in Nat /\ y[2] \in Nat /\ y[1] <= x[1]
  <2>1. T \in SUBSET (Nat \X Nat)
    BY DEF Interval
  <2>2. x \in T /\ \A y \in T : Below(y, x)
    BY <2>1, FarthestExists
  <2>3. \A y \in T : y[1] \in Nat /\ y[2] \in Nat
    BY <2>1
  <2> QED BY <2>2, <2>3 DEF Below
<1>2. IsTimeline(m) /\ \A i \in 1..Len(m) : m[i][1] <= x[1]
  BY <1>1 DEF IsMerged
<1>3. PICK k : k = Absorb(x, m)
  OBVIOUS
<1>4. /\ IsTimeline(k) /\ Len(k) > 0
      /\ \A t \in Nat : Covers(k, t) <=> Covers(m, t) \/ (x[1] <= t /\ t < x[2])
      /\ \A i \in 1..Len(k) : k[i][1] = x[1] \/ \E j \in 1..Len(m) : k[i][1] = m[j][1]
  <2>1. x \in Interval /\ NoneAfter(m, x)
    BY <1>1, <1>2 DEF NoneAfter
  <2> QED BY <1>2, <1>3, <2>1, AbsorbStep
<1>5. ASSUME NEW t \in Nat
      PROVE  Covers(k, t) <=> \E y \in T : y[1] <= t /\ t < y[2]
  <2>1. Covers(m, t) <=> \E y \in T \ {x} : y[1] <= t /\ t < y[2]
    BY DEF IsMerged
  <2> QED BY <1>1, <1>4, <2>1
<1>6. ASSUME NEW i \in 1..Len(k)
      PROVE  \E y \in T : k[i][1] = y[1]
  <2>1. \A j \in 1..Len(m) : \E y \in T \ {x} : m[j][1] = y[1]
    BY DEF IsMerged
  <2> QED BY <1>1, <1>4, <2>1
<1> QED BY <1>3, <1>4, <1>5, <1>6 DEF IsMerged

LEMMA MergedIs ==
    ASSUME NEW S \in SUBSET Interval, IsFiniteSet(S)
    PROVE  IsMerged(Merged(S), S)
<1> DEFINE Eq(g) == g = [T \in SUBSET S |-> IF T = {} THEN <<>>
                            ELSE Absorb(FarthestOf(T), g[T \ {FarthestOf(T)}])]
<1>0. /\ Cardinality(S) \in Nat
      /\ \A T \in SUBSET S : IsFiniteSet(T) /\ Cardinality(T) \in Nat /\ Cardinality(T) <= Cardinality(S)
  BY FS_Subset, FS_CardinalityType
<1>1. ASSUME NEW T \in SUBSET S, T # {}
      PROVE  /\ FarthestOf(T) \in T /\ FarthestOf(T) \in Nat \X Nat
             /\ Cardinality(T \ {FarthestOf(T)}) = Cardinality(T) - 1
  <2>1. T \in SUBSET (Nat \X Nat)
    BY DEF Interval
  <2>2. FarthestOf(T) \in T /\ FarthestOf(T) \in Nat \X Nat
    BY <1>0, <1>1, <2>1, FarthestExists
  <2> QED BY <1>0, <2>2, FS_RemoveElement
<1>2. \E g : Eq(g)
  <2>1. PICK pred : pred = [T \in SUBSET S |-> IF T = {} THEN {} ELSE T \ {FarthestOf(T)}]
    OBVIOUS
  <2>2. PICK mu : mu = [T \in SUBSET S |-> Cardinality(T)]
    OBVIOUS
  <2>3. PICK step : step = [T \in SUBSET S |-> [v \in Times |->
                        IF T = {} THEN <<>> ELSE Absorb(FarthestOf(T), v)]]
    OBVIOUS
  <2>4. PICK base : base = [T \in SUBSET S |-> <<>>]
    OBVIOUS
  <2>5. /\ pred \in [SUBSET S -> SUBSET S] /\ mu \in [SUBSET S -> Nat]
        /\ base \in [SUBSET S -> Times]
    BY <1>0, <2>1, <2>2, <2>4 DEF Times
  <2>6. step \in [SUBSET S -> [Times -> Times]]
    <3>1. ASSUME NEW T \in SUBSET S, NEW v \in Times
          PROVE  (IF T = {} THEN <<>> ELSE Absorb(FarthestOf(T), v)) \in Times
      <4>1. <<>> \in Times
        BY DEF Times
      <4> QED BY <1>1, <4>1, AbsorbType
    <3>2. \A T \in SUBSET S : step[T] = [v \in Times |-> IF T = {} THEN <<>> ELSE Absorb(FarthestOf(T), v)]
      BY <2>3
    <3>3. \A T \in SUBSET S : step[T] \in [Times -> Times]
      BY <3>1, <3>2
    <3> QED BY <2>3, <3>3
  <2>7. ASSUME NEW T \in (SUBSET S) \ {{}}
        PROVE  mu[pred[T]] < mu[T]
    <3>1. mu[pred[T]] = Cardinality(T) - 1 /\ mu[T] = Cardinality(T)
      BY <1>1, <2>1, <2>2
    <3>2. Cardinality(T) \in Nat
      BY <1>0
    <3> QED BY <3>1, <3>2
  <2>8. \A T \in SUBSET S : mu[T] <= Cardinality(S)
    BY <1>0, <2>2
  <2>9. PICK g \in [SUBSET S -> Times] : \A T \in SUBSET S :
            g[T] = IF T \in {{}} THEN base[T] ELSE step[T][g[pred[T]]]
    <3>1. PICK P : P = SUBSET S
      OBVIOUS
    <3>2. PICK B : B = {{}}
      OBVIOUS
    <3>3. PICK M \in Nat : M = Cardinality(S)
      BY <1>0
    <3>4. Recursion(P, B, Times, pred, mu, M, base, step)
      BY <2>5, <2>6, <2>7, <2>8, <3>1, <3>2, <3>3 DEF Recursion, Descends
    <3>5. PICK g : Solves(g, P, B, Times, pred, base, step)
      BY <3>4, RecursionExists
    <3> QED BY <3>1, <3>2, <3>5 DEF Solves
  <2>10. ASSUME NEW T \in SUBSET S
         PROVE  g[T] = IF T = {} THEN <<>> ELSE Absorb(FarthestOf(T), g[T \ {FarthestOf(T)}])
    <3>1. CASE T = {}
      BY <2>4, <2>9, <3>1
    <3>2. CASE T # {}
      <4>1. g[T] = step[T][g[pred[T]]] /\ pred[T] = T \ {FarthestOf(T)} /\ g[pred[T]] \in Times
        BY <2>1, <2>5, <2>9, <3>2
      <4> QED BY <2>3, <3>2, <4>1
    <3> QED BY <3>1, <3>2
  <2>11. Eq(g)
    BY <2>9, <2>10
  <2> QED BY <2>11
<1>3. PICK G : Eq(G) /\ Merged(S) = G[S]
  <2>1. PICK G : G = CHOOSE g : Eq(g)
    OBVIOUS
  <2>2. Eq(G)
    BY <1>2, <2>1
  <2>3. Merged(S) = G[S]
    BY <2>1 DEF Merged, MapThenFoldSet
  <2> QED BY <2>2, <2>3
<1>4. /\ G[{}] = <<>>
      /\ \A T \in SUBSET S : T # {} => G[T] = Absorb(FarthestOf(T), G[T \ {FarthestOf(T)}])
  <2>1. {} \in SUBSET S
    OBVIOUS
  <2> QED BY <1>3, <2>1
<1> DEFINE N == {n \in Nat : \A T \in SUBSET S : Cardinality(T) < n => IsMerged(G[T], T)}
<1>5. 0 \in N
  BY <1>0
<1>6. ASSUME NEW n \in N
      PROVE  n + 1 \in N
  <2>1. ASSUME NEW T \in SUBSET S, Cardinality(T) < n + 1
        PROVE  IsMerged(G[T], T)
    <3>1. CASE T = {}
      <4>1. IsMerged(<<>>, {})
        BY DEF IsMerged, IsTimeline, Times, Covers
      <4> QED BY <1>4, <3>1, <4>1
    <3>2. CASE T # {}
      <4>1. PICK x : x = FarthestOf(T)
        OBVIOUS
      <4>2. T \ {x} \in SUBSET S /\ Cardinality(T \ {x}) < n
        BY <1>0, <1>1, <2>1, <3>2, <4>1
      <4>3. IsMerged(G[T \ {x}], T \ {x})
        BY <4>2
      <4>4. T \in SUBSET Interval /\ IsFiniteSet(T)
        BY <1>0
      <4>5. IsMerged(Absorb(x, G[T \ {x}]), T)
        BY <3>2, <4>1, <4>3, <4>4, MergedStep
      <4> QED BY <1>4, <3>2, <4>1, <4>5
    <3> QED BY <3>1, <3>2
  <2>2. n + 1 \in Nat
    OBVIOUS
  <2> QED BY <2>1, <2>2
<1>7. N = Nat
  <2> HIDE DEF N
  <2>1. N \subseteq Nat
    BY DEF N
  <2> QED BY <1>5, <1>6, <2>1, NatIsAll
<1>8. Cardinality(S) + 1 \in N
  <2> HIDE DEF N
  <2> QED BY <1>0, <1>7
<1>9. S \in SUBSET S /\ Cardinality(S) < Cardinality(S) + 1
  BY <1>0
<1>10. IsMerged(G[S], S)
  BY <1>8, <1>9
<1> QED BY <1>3, <1>10

\* The length of a timeline is the number of its instants.
Held(m) == {t \in Nat : Covers(m, t)}

LEMMA TicksAre ==
    ASSUME NEW m, IsTimeline(m)
    PROVE  IsFiniteSet(Held(m)) /\ Ticks(m) = Cardinality(Held(m))
<1>1. PICK n \in Nat : n = Len(m) /\ DOMAIN m = 1..n
  BY DEF IsTimeline, Times
<1>2. \A i \in 1..n : m[i][1] \in Nat /\ m[i][2] \in Nat /\ m[i][1] < m[i][2]
  <2>1. \A i \in 1..n : m[i] \in Nat \X Nat
    BY <1>1 DEF IsTimeline, Times
  <2> QED BY <1>1, <2>1 DEF IsTimeline
<1>3. \A i, j \in 1..n : i < j => m[i][2] < m[j][1]
  BY <1>1 DEF IsTimeline
<1>4. PICK D : D = 1..n
  OBVIOUS
<1>5. PICK A : A = [i \in D |-> m[i][1]..m[i][2] - 1]
  OBVIOUS
<1>6. ASSUME NEW i \in D
      PROVE  IsFiniteSet(A[i]) /\ Cardinality(A[i]) = m[i][2] - m[i][1] /\ A[i] \in SUBSET Nat
  <2>1. PICK a \in Nat, b \in Nat : a = m[i][1] /\ b = m[i][2] /\ a < b
    BY <1>2, <1>4
  <2>2. A[i] = a..b - 1 /\ b - 1 \in Int /\ a \in Int /\ ~(a > b - 1)
    BY <1>5, <2>1
  <2>3. IsFiniteSet(a..b - 1) /\ Cardinality(a..b - 1) = (b - 1) - a + 1
    BY <2>2, FS_Interval
  <2> QED BY <2>1, <2>2, <2>3
<1>7. ASSUME NEW i \in D, NEW j \in D, i # j
      PROVE  A[i] \cap A[j] = {}
  <2>1. /\ m[i][2] < m[j][1] \/ m[j][2] < m[i][1]
        /\ m[i][1] \in Nat /\ m[i][2] \in Nat /\ m[j][1] \in Nat /\ m[j][2] \in Nat
    BY <1>2, <1>3, <1>4, <1>7
  <2> QED BY <1>5, <2>1
<1>8. PICK f : f = [i \in DOMAIN m |-> m[i][2] - m[i][1]]
  OBVIOUS
<1>9. /\ IsFiniteSet(D) /\ Apart(A, D) /\ f \in [D -> Nat]
      /\ \A i \in D : f[i] = Cardinality(A[i])
  <2>1. ASSUME NEW i \in D
        PROVE  f[i] = Cardinality(A[i]) /\ f[i] \in Nat
    <3>1. f[i] = m[i][2] - m[i][1] /\ m[i][1] \in Nat /\ m[i][2] \in Nat /\ m[i][1] < m[i][2]
      BY <1>1, <1>2, <1>4, <1>8
    <3> QED BY <1>6, <3>1
  <2>2. Apart(A, D)
    BY <1>6, <1>7 DEF Apart
  <2>3. IsFiniteSet(D)
    BY <1>4, 1 \in Int, n \in Int, FS_Interval
  <2> QED BY <1>1, <1>4, <1>8, <2>1, <2>2, <2>3
<1>10. /\ IsFiniteSet(UNION {A[i] : i \in D})
       /\ Total(f) = Cardinality(UNION {A[i] : i \in D})
  BY <1>9, TotalOfSizes
<1>11. UNION {A[i] : i \in D} = Held(m)
  <2>1. ASSUME NEW t
        PROVE  t \in Held(m) <=> \E i \in D : t \in A[i]
    <3>1. \A i \in D : t \in A[i] <=> t \in Nat /\ m[i][1] <= t /\ t < m[i][2]
      BY <1>2, <1>4, <1>5
    <3>2. t \in Held(m) <=> t \in Nat /\ \E i \in D : m[i][1] <= t /\ t < m[i][2]
      BY <1>1, <1>4 DEF Held, Covers
    <3> QED BY <3>1, <3>2
  <2> QED BY <2>1
<1> QED BY <1>8, <1>10, <1>11 DEF Ticks

LEMMA InstantsHeld ==
    ASSUME NEW S \in SUBSET Interval, IsFiniteSet(S)
    PROVE  /\ IsTimeline(Merged(S)) /\ Held(Merged(S)) = Instants(S)
           /\ IsFiniteSet(Instants(S)) /\ Cardinality(Instants(S)) \in Nat
<1>1. IsMerged(Merged(S), S)
  BY MergedIs
<1>2. Held(Merged(S)) = Instants(S)
  <2>1. ASSUME NEW t
        PROVE  t \in Instants(S) <=> t \in Nat /\ \E x \in S : x[1] <= t /\ t < x[2]
    <3>1. \A x \in S : x[1] \in Nat /\ x[2] \in Nat
      BY DEF Interval
    <3> QED BY <3>1 DEF Instants
  <2> QED BY <1>1, <2>1 DEF IsMerged, Held
<1>3. IsFiniteSet(Instants(S))
  BY <1>1, <1>2, TicksAre DEF IsMerged
<1> QED BY <1>1, <1>2, <1>3, FS_CardinalityType DEF IsMerged

\* The ends of a timeline are in it, and it is between them.
LEMMA TimelineEnds ==
    ASSUME NEW m, IsTimeline(m), Len(m) > 0
    PROVE  /\ m[1][1] \in Held(m) /\ m[Len(m)][2] - 1 \in Held(m)
           /\ Held(m) \subseteq m[1][1]..m[Len(m)][2] - 1
<1>1. PICK n \in Nat : n = Len(m) /\ 1 \in 1..n /\ n \in 1..n
  <2>1. Len(m) \in Nat
    BY DEF IsTimeline, Times
  <2> QED BY <2>1
<1>2. /\ \A k \in 1..n : m[k][1] \in Nat /\ m[k][2] \in Nat /\ m[k][1] < m[k][2]
      /\ \A k, l \in 1..n : k < l => m[k][2] < m[l][1]
  <2>1. \A k \in 1..n : m[k] \in Nat \X Nat
    BY <1>1 DEF IsTimeline, Times
  <2> QED BY <1>1, <2>1 DEF IsTimeline
<1>3. m[1][1] \in Held(m)
  BY <1>1, <1>2 DEF Held, Covers
<1>4. m[n][2] - 1 \in Held(m)
  <2>1. m[n][2] - 1 \in Nat /\ m[n][1] <= m[n][2] - 1 /\ m[n][2] - 1 < m[n][2]
    BY <1>1, <1>2
  <2> QED BY <1>1, <2>1 DEF Held, Covers
<1>5. ASSUME NEW t \in Held(m)
      PROVE  t \in m[1][1]..m[n][2] - 1
  <2>1. PICK k \in 1..n : m[k][1] <= t /\ t < m[k][2]
    BY <1>1 DEF Held, Covers
  <2>2. t \in Nat /\ (k = 1 \/ m[1][2] < m[k][1]) /\ (k = n \/ m[k][2] < m[n][1])
    BY <1>1, <1>2 DEF Held
  <2> QED BY <1>1, <1>2, <2>1, <2>2
<1> QED BY <1>1, <1>3, <1>4, <1>5

\* Merged stays last as long as they cover instants, whatever overlaps or touches
\* (presence.py, _merge_intervals and _interval_seconds).
THEOREM UnionIsExact ==
    ASSUME NEW S \in SUBSET Interval, IsFiniteSet(S)
    PROVE  Ticks(Merged(S)) = Cardinality(Instants(S))
  BY InstantsHeld, TicksAre

-----------------------------------------------------------------------------
(* Two people's time together: _overlap_seconds.                            *)

Shared(x, y) == IF Earlier(x[2], y[2]) > Later(x[1], y[1]) THEN Earlier(x[2], y[2]) - Later(x[1], y[1]) ELSE 0

\* The instants that both hold from the i-th interval of the one and the j-th of the
\* other on.
HeldFrom(m, i) == {t \in Nat : \E k \in i..Len(m) : m[k][1] <= t /\ t < m[k][2]}
Both(left, right, p) == HeldFrom(left, p[1]) \cap HeldFrom(right, p[2])
Pointers(left, right) == (1..Len(left) + 1) \X (1..Len(right) + 1)
AtEnd(left, right, p) == p[1] > Len(left) \/ p[2] > Len(right)
Advanced(left, right, p) ==
    IF left[p[1]][2] < right[p[2]][2] THEN <<p[1] + 1, p[2]>> ELSE <<p[1], p[2] + 1>>

\* What a timeline is from one interval on: that interval, and what is wholly after it.
LEMMA HeldFromStep ==
    ASSUME NEW m, IsTimeline(m), NEW i \in 1..Len(m)
    PROVE  /\ m[i][1] \in Nat /\ m[i][2] \in Nat /\ m[i][1] < m[i][2]
           /\ HeldFrom(m, i) = (m[i][1]..m[i][2] - 1) \cup HeldFrom(m, i + 1)
           /\ \A t \in HeldFrom(m, i + 1) : m[i][2] < t
           /\ i + 1 \in 1..Len(m) + 1
<1>1. PICK n \in Nat : n = Len(m)
  BY DEF IsTimeline, Times
<1>2. /\ \A k \in 1..n : m[k][1] \in Nat /\ m[k][2] \in Nat /\ m[k][1] < m[k][2]
      /\ \A k, l \in 1..n : k < l => m[k][2] < m[l][1]
  <2>1. \A k \in 1..n : m[k] \in Nat \X Nat
    BY <1>1 DEF IsTimeline, Times
  <2> QED BY <1>1, <2>1 DEF IsTimeline
<1>3. ASSUME NEW t
      PROVE  t \in HeldFrom(m, i) <=> t \in (m[i][1]..m[i][2] - 1) \/ t \in HeldFrom(m, i + 1)
  <2>1. \A k : k \in i..n <=> k = i \/ k \in i + 1..n
    BY <1>1
  <2> QED BY <1>1, <1>2, <2>1 DEF HeldFrom
<1>4. ASSUME NEW t \in HeldFrom(m, i + 1)
      PROVE  m[i][2] < t
  <2>1. PICK k \in i + 1..n : m[k][1] <= t
    BY <1>1 DEF HeldFrom
  <2>2. t \in Nat /\ k \in 1..n /\ i < k
    BY <1>1 DEF HeldFrom
  <2>3. m[i][2] < m[k][1]
    BY <1>1, <1>2, <2>2
  <2> QED BY <1>1, <1>2, <2>1, <2>2, <2>3
<1> QED BY <1>1, <1>2, <1>3, <1>4

LEMMA BothFinite ==
    ASSUME NEW left, IsTimeline(left), NEW right, NEW p \in Pointers(left, right)
    PROVE  IsFiniteSet(Both(left, right, p)) /\ Cardinality(Both(left, right, p)) \in Nat
<1>1. Both(left, right, p) \subseteq Held(left)
  BY DEF Both, HeldFrom, Held, Covers, Pointers
<1>2. IsFiniteSet(Both(left, right, p))
  BY <1>1, TicksAre, FS_Subset
<1> QED BY <1>2, FS_CardinalityType

\* One turn of the two pointers.
LEMMA BothStep ==
    ASSUME NEW left, IsTimeline(left), NEW right, IsTimeline(right),
           NEW p \in Pointers(left, right), ~AtEnd(left, right, p)
    PROVE  /\ Advanced(left, right, p) \in Pointers(left, right)
           /\ Shared(left[p[1]], right[p[2]]) \in Nat
           /\ Cardinality(Both(left, right, p)) =
                Shared(left[p[1]], right[p[2]]) + Cardinality(Both(left, right, Advanced(left, right, p)))
<1>1. PICK i, j : i = p[1] /\ j = p[2]
  OBVIOUS
<1>2. i \in 1..Len(left) /\ j \in 1..Len(right) /\ p = <<i, j>>
      /\ Len(left) \in Nat /\ Len(right) \in Nat
  <2>1. Len(left) \in Nat /\ Len(right) \in Nat
    BY DEF IsTimeline, Times
  <2>2. i \in 1..Len(left) + 1 /\ j \in 1..Len(right) + 1 /\ p = <<i, j>>
    BY <1>1 DEF Pointers
  <2>3. ~(i > Len(left)) /\ ~(j > Len(right))
    BY <1>1 DEF AtEnd
  <2> QED BY <2>1, <2>2, <2>3
<1>3. PICK a1 \in Nat, b1 \in Nat, a2 \in Nat, b2 \in Nat :
          a1 = left[i][1] /\ b1 = left[i][2] /\ a2 = right[j][1] /\ b2 = right[j][2]
          /\ a1 < b1 /\ a2 < b2
  <2>1. /\ left[i][1] \in Nat /\ left[i][2] \in Nat /\ left[i][1] < left[i][2]
        /\ right[j][1] \in Nat /\ right[j][2] \in Nat /\ right[j][1] < right[j][2]
    BY <1>2, HeldFromStep
  <2> QED BY <2>1
<1>4. PICK a \in Nat, b \in Nat : a = Later(a1, a2) /\ b = Earlier(b1, b2)
  BY DEF Later, Earlier
<1>5. PICK q : q = Advanced(left, right, p)
  OBVIOUS
<1>6. PICK X, Y, X1, Y1 : /\ X = HeldFrom(left, i) /\ Y = HeldFrom(right, j)
                          /\ X1 = HeldFrom(left, i + 1) /\ Y1 = HeldFrom(right, j + 1)
  OBVIOUS
<1>7. /\ X = (a1..b1 - 1) \cup X1 /\ \A t \in X1 : t \in Nat /\ b1 < t
      /\ Y = (a2..b2 - 1) \cup Y1 /\ \A t \in Y1 : t \in Nat /\ b2 < t
      /\ i + 1 \in 1..Len(left) + 1 /\ j + 1 \in 1..Len(right) + 1
  <2>1. X1 \subseteq Nat /\ Y1 \subseteq Nat
    BY <1>6 DEF HeldFrom
  <2> QED BY <1>2, <1>3, <1>6, <2>1, HeldFromStep
<1>8. /\ X \cap Y = (a..b - 1) \cup Both(left, right, q)
      /\ (a..b - 1) \cap Both(left, right, q) = {}
      /\ q \in Pointers(left, right)
  <2>1. CASE b1 < b2
    <3>1. q = <<i + 1, j>>
      BY <1>1, <1>3, <1>5, <2>1 DEF Advanced
    <3>2. Both(left, right, q) = X1 \cap Y
      BY <1>6, <3>1 DEF Both
    <3>3. X \cap Y = (a..b - 1) \cup (X1 \cap Y) /\ (a..b - 1) \cap (X1 \cap Y) = {}
      <4>1. ASSUME NEW t
            PROVE  /\ t \in X \cap Y <=> t \in a..b - 1 \/ t \in X1 \cap Y
                   /\ ~(t \in a..b - 1 /\ t \in X1 \cap Y)
        BY <1>4, <1>7, <2>1 DEF Later, Earlier
      <4> QED BY <4>1
    <3>4. q \in Pointers(left, right)
      BY <1>2, <1>7, <3>1 DEF Pointers
    <3> QED BY <3>2, <3>3, <3>4
  <2>2. CASE ~(b1 < b2)
    <3>1. q = <<i, j + 1>>
      BY <1>1, <1>3, <1>5, <2>2 DEF Advanced
    <3>2. Both(left, right, q) = X \cap Y1
      BY <1>6, <3>1 DEF Both
    <3>3. X \cap Y = (a..b - 1) \cup (X \cap Y1) /\ (a..b - 1) \cap (X \cap Y1) = {}
      <4>1. ASSUME NEW t
            PROVE  /\ t \in X \cap Y <=> t \in a..b - 1 \/ t \in X \cap Y1
                   /\ ~(t \in a..b - 1 /\ t \in X \cap Y1)
        BY <1>4, <1>7, <2>2 DEF Later, Earlier
      <4> QED BY <4>1
    <3>4. q \in Pointers(left, right)
      BY <1>2, <1>7, <3>1 DEF Pointers
    <3> QED BY <3>2, <3>3, <3>4
  <2> QED BY <2>1, <2>2
<1>9. Both(left, right, p) = X \cap Y
  BY <1>1, <1>6 DEF Both
<1>10. Shared(left[i], right[j]) = IF b > a THEN b - a ELSE 0
  BY <1>3, <1>4 DEF Shared
<1>11. IsFiniteSet(a..b - 1) /\ Cardinality(a..b - 1) = IF b > a THEN b - a ELSE 0
  <2>1. b - 1 \in Int /\ a \in Int
    OBVIOUS
  <2>2. IsFiniteSet(a..b - 1) /\ Cardinality(a..b - 1) = IF a > b - 1 THEN 0 ELSE (b - 1) - a + 1
    BY <2>1, FS_Interval
  <2> QED BY <2>2
<1>12. PICK C, D : C = a..b - 1 /\ D = Both(left, right, q)
  OBVIOUS
<1>13. IsFiniteSet(C) /\ IsFiniteSet(D) /\ Cardinality(D) \in Nat
  BY <1>8, <1>11, <1>12, BothFinite
<1>14. Cardinality(C \cup D) = Cardinality(C) + Cardinality(D) - Cardinality(C \cap D)
  BY <1>13, FS_Union
<1>15. Cardinality(C \cap D) = 0
  BY <1>8, <1>12, FS_EmptySet
<1>16. Cardinality(C) = Shared(left[i], right[j]) /\ Cardinality(C) \in Nat
  BY <1>10, <1>11, <1>12, <1>13, FS_CardinalityType
<1>17. Cardinality(X \cap Y) = Cardinality(C) + Cardinality(D)
  <2>1. X \cap Y = C \cup D
    BY <1>8, <1>12
  <2>2. PICK c \in Nat, d \in Nat : c = Cardinality(C) /\ d = Cardinality(D)
    BY <1>13, <1>16
  <2>3. Cardinality(C \cup D) = c + d
    BY <1>14, <1>15, <2>2
  <2> QED BY <2>1, <2>2, <2>3
<1> QED BY <1>1, <1>5, <1>8, <1>9, <1>12, <1>16, <1>17

LEMMA OverlapIs ==
    ASSUME NEW left, IsTimeline(left), NEW right, IsTimeline(right)
    PROVE  OverlapSeconds(left, right) = Cardinality(Held(left) \cap Held(right)) \div TicksPerSecond
<1> DEFINE P == Pointers(left, right)
           End(p) == AtEnd(left, right, p)
           Gain(p) == Shared(left[p[1]], right[p[2]])
           On(p) == Advanced(left, right, p)
           Eq(g) == g = [p \in P |-> IF End(p) THEN 0 ELSE Gain(p) + g[On(p)]]
<1>1. PICK n \in Nat : n = Len(left)
  BY DEF IsTimeline, Times
<1>2. PICK l \in Nat : l = Len(right)
  BY DEF IsTimeline, Times
<1>3. ASSUME NEW p \in P
      PROVE  p = <<p[1], p[2]>> /\ p[1] \in 1..n + 1 /\ p[2] \in 1..l + 1
  BY <1>1, <1>2 DEF Pointers
<1>4. ASSUME NEW p \in P, ~End(p)
      PROVE  /\ On(p) \in P /\ Gain(p) \in Nat
             /\ Cardinality(Both(left, right, p)) = Gain(p) + Cardinality(Both(left, right, On(p)))
             /\ Cardinality(Both(left, right, On(p))) \in Nat
  <2>1. On(p) \in P
    BY <1>4, BothStep
  <2> QED BY <1>4, <2>1, BothStep, BothFinite
<1>5. ASSUME NEW p \in P, ~End(p)
      PROVE  On(p)[1] + On(p)[2] = p[1] + p[2] + 1
  BY <1>3 DEF Advanced
<1>6. PICK pred : pred = [p \in P |-> IF End(p) THEN p ELSE On(p)]
  OBVIOUS
<1>7. PICK mu : mu = [p \in P |-> (n + 1 - p[1]) + (l + 1 - p[2])]
  OBVIOUS
<1>8. PICK B : B = {p \in P : End(p)}
  OBVIOUS
<1>9. Descends(P, B, pred, mu, n + l)
  <2>1. pred \in [P -> P]
    BY <1>4, <1>6
  <2>2. ASSUME NEW p \in P
        PROVE  mu[p] \in Nat /\ mu[p] <= n + l /\ mu[p] = (n + 1 - p[1]) + (l + 1 - p[2])
    <3>1. p[1] \in 1..n + 1 /\ p[2] \in 1..l + 1
      BY <1>3
    <3>2. mu[p] = (n + 1 - p[1]) + (l + 1 - p[2])
      BY <1>7
    <3> HIDE DEF P
    <3> QED BY <3>1, <3>2
  <2>3. ASSUME NEW p \in P \ B
        PROVE  mu[pred[p]] < mu[p]
    <3>1. pred[p] = On(p) /\ On(p) \in P /\ ~End(p)
      BY <1>4, <1>6, <1>8
    <3>2. PICK q \in P : q = On(p) /\ q[1] + q[2] = p[1] + p[2] + 1
      BY <1>5, <3>1
    <3>3. q[1] \in 1..n + 1 /\ q[2] \in 1..l + 1 /\ p[1] \in 1..n + 1 /\ p[2] \in 1..l + 1
      BY <1>3
    <3>4. mu[q] = (n + 1 - q[1]) + (l + 1 - q[2]) /\ mu[p] = (n + 1 - p[1]) + (l + 1 - p[2])
      BY <2>2
    <3> HIDE DEF P
    <3> QED BY <3>1, <3>2, <3>3, <3>4
  <2>4. mu \in [P -> Nat]
    BY <1>7, <2>2
  <2> HIDE DEF P
  <2> QED BY <2>1, <2>2, <2>3, <2>4 DEF Descends
<1>10. \E g : Eq(g)
  <2>1. PICK step : step = [p \in P |-> [v \in Nat |-> IF End(p) THEN 0 ELSE Gain(p) + v]]
    OBVIOUS
  <2>2. PICK base : base = [p \in P |-> 0]
    OBVIOUS
  <2>3. step \in [P -> [Nat -> Nat]] /\ base \in [P -> Nat]
    <3>1. ASSUME NEW p \in P, NEW v \in Nat
          PROVE  (IF End(p) THEN 0 ELSE Gain(p) + v) \in Nat
      BY <1>4
    <3>2. \A p \in P : step[p] = [v \in Nat |-> IF End(p) THEN 0 ELSE Gain(p) + v]
      BY <2>1
    <3>3. \A p \in P : step[p] \in [Nat -> Nat]
      BY <3>1, <3>2
    <3> QED BY <2>1, <2>2, <3>3
  <2>4. PICK g \in [P -> Nat] : \A p \in P : g[p] = IF p \in B THEN base[p] ELSE step[p][g[pred[p]]]
    <3>1. PICK Q, V, M : Q = P /\ V = Nat /\ M = n + l
      OBVIOUS
    <3>2. Recursion(Q, B, V, pred, mu, M, base, step)
      <4> HIDE DEF P
      <4> QED BY <1>9, <2>3, <3>1 DEF Recursion
    <3>3. PICK g : Solves(g, Q, B, V, pred, base, step)
      BY <3>2, RecursionExists
    <3> QED BY <3>1, <3>3 DEF Solves
  <2>5. ASSUME NEW p \in P
        PROVE  g[p] = IF End(p) THEN 0 ELSE Gain(p) + g[On(p)]
    <3>1. CASE End(p)
      BY <1>8, <2>2, <2>4, <3>1
    <3>2. CASE ~End(p)
      <4>1. g[p] = step[p][g[pred[p]]] /\ pred[p] = On(p) /\ g[pred[p]] \in Nat
        BY <1>4, <1>6, <1>8, <2>4, <3>2
      <4> QED BY <2>1, <3>2, <4>1
    <3> QED BY <3>1, <3>2
  <2>6. Eq(g)
    BY <2>4, <2>5
  <2> QED BY <2>6
<1>11. PICK G : Eq(G) /\ OverlapSeconds(left, right) = G[<<1, 1>>] \div TicksPerSecond
  <2>1. PICK G : G = CHOOSE g : Eq(g)
    OBVIOUS
  <2>2. Eq(G)
    BY <1>10, <2>1
  <2>3. OverlapSeconds(left, right) = G[<<1, 1>>] \div TicksPerSecond
    BY <2>1 DEF OverlapSeconds, Pointers, AtEnd, Shared, Advanced
  <2> QED BY <2>2, <2>3
<1>12. /\ \A p \in P : End(p) => G[p] = 0
       /\ \A p \in P : ~End(p) => G[p] = Gain(p) + G[On(p)]
  BY <1>11
<1> DEFINE T == {p \in P : G[p] = Cardinality(Both(left, right, p))}
<1>13. ASSUME NEW p \in P, End(p)
       PROVE  p \in T
  <2>1. Both(left, right, p) = {}
    <3>1. p[1] > n \/ p[2] > l
      BY <1>1, <1>2, <1>13 DEF AtEnd
    <3>2. HeldFrom(left, p[1]) = {} \/ HeldFrom(right, p[2]) = {}
      BY <1>1, <1>2, <1>3, <3>1 DEF HeldFrom
    <3> QED BY <3>2 DEF Both
  <2> QED BY <1>12, <1>13, <2>1, FS_EmptySet
<1>14. ASSUME NEW p \in P, ~End(p), On(p) \in T
       PROVE  p \in T
  BY <1>4, <1>12, <1>14
<1>15. P \subseteq T
  <2>1. \A p \in P : p \in B \/ pred[p] \in T => p \in T
    BY <1>6, <1>8, <1>13, <1>14
  <2>2. PICK Q, M : Q = P /\ M = n + l
    OBVIOUS
  <2> HIDE DEF T, P
  <2> QED BY <1>9, <2>1, <2>2, RecursionInduction
<1>16. <<1, 1>> \in P /\ Both(left, right, <<1, 1>>) = Held(left) \cap Held(right)
  BY <1>1, <1>2 DEF Pointers, Both, HeldFrom, Held, Covers
<1> QED BY <1>11, <1>15, <1>16

\* Two people's time together is the instants in which both were there, whatever
\* the stays of each overlap (presence.py, _overlap_seconds).
THEOREM OverlapIsExact ==
    ASSUME NEW S \in SUBSET Interval, IsFiniteSet(S), NEW T \in SUBSET Interval, IsFiniteSet(T)
    PROVE  OverlapSeconds(Merged(S), Merged(T)) =
              Cardinality(Instants(S) \cap Instants(T)) \div TicksPerSecond
<1>1. IsTimeline(Merged(S)) /\ Held(Merged(S)) = Instants(S)
  BY InstantsHeld
<1>2. IsTimeline(Merged(T)) /\ Held(Merged(T)) = Instants(T)
  BY InstantsHeld
<1> QED BY <1>1, <1>2, OverlapIs

\* Whole seconds: a part is no longer than the whole, and two parts lose less than
\* a second each.
LEMMA DivBounds ==
    ASSUME NEW a \in Nat, NEW q \in Nat \ {0}
    PROVE  /\ a \div q \in Nat /\ q * (a \div q) <= a /\ a < q * (a \div q) + q
<1>1. a = q * (a \div q) + (a % q) /\ 0 <= a % q /\ a % q < q /\ a \div q \in Nat
  OBVIOUS
<1> QED BY <1>1

LEMMA DivMonotone ==
    ASSUME NEW a \in Nat, NEW b \in Nat, a <= b, NEW q \in Nat \ {0}
    PROVE  a \div q <= b \div q
<1>1. PICK x \in Nat, y \in Nat : x = a \div q /\ y = b \div q
  BY DivBounds
<1>2. q * x <= a /\ b < q * y + q
  BY <1>1, DivBounds
<1>3. SUFFICES ASSUME y + 1 <= x PROVE FALSE
  BY <1>1
<1>4. q * (y + 1) <= q * x
  BY <1>3
<1>5. q * (y + 1) = q * y + q
  OBVIOUS
<1> QED BY <1>2, <1>4, <1>5

LEMMA DivAdd ==
    ASSUME NEW a \in Nat, NEW b \in Nat, NEW q \in Nat \ {0}
    PROVE  /\ (a \div q) + (b \div q) <= (a + b) \div q
           /\ (a + b) \div q <= (a \div q) + (b \div q) + 1
<1>0. a + b \in Nat /\ a \div q \in Nat /\ b \div q \in Nat /\ (a + b) \div q \in Nat
  BY DivBounds
<1>1. PICK x \in Nat, y \in Nat, z \in Nat : x = a \div q /\ y = b \div q /\ z = (a + b) \div q
  BY <1>0
<1>2. /\ q * x <= a /\ a < q * x + q /\ q * y <= b /\ b < q * y + q
      /\ q * z <= a + b /\ a + b < q * z + q
  BY <1>0, <1>1, DivBounds
<1>3. x + y <= z
  <2>1. SUFFICES ASSUME z + 1 <= x + y PROVE FALSE
    OBVIOUS
  <2>2. q * (z + 1) <= q * (x + y)
    BY <2>1
  <2>3. q * (z + 1) = q * z + q /\ q * (x + y) = q * x + q * y
    OBVIOUS
  <2> QED BY <1>2, <2>2, <2>3
<1>4. z <= x + y + 1
  <2>1. SUFFICES ASSUME x + y + 2 <= z PROVE FALSE
    OBVIOUS
  <2>2. q * (x + y + 2) <= q * z
    BY <2>1
  <2>3. q * (x + y + 2) = q * x + q * y + q + q
    OBVIOUS
  <2> QED BY <1>2, <2>2, <2>3
<1> QED BY <1>1, <1>3, <1>4

\* Truncating every part of a sum loses less than one for each part but one.
LEMMA TotalOfWholes ==
    ASSUME NEW D, IsFiniteSet(D), D # {}, NEW q \in Nat \ {0}, NEW f \in [D -> Nat],
           NEW g \in [D -> Nat], \A x \in D : g[x] = f[x] \div q
    PROVE  /\ Total(g) <= Total(f) \div q
           /\ Total(f) \div q <= Total(g) + Cardinality(D) - 1
<1>1. PICK F : IsSums(F, f, D) /\ F[D] = Total(f)
  BY SumsExist
<1>2. PICK G : IsSums(G, g, D) /\ G[D] = Total(g)
  BY SumsExist
<1>3. \A T \in SUBSET D : IsFiniteSet(T) /\ Cardinality(T) \in Nat /\ F[T] \in Nat /\ G[T] \in Nat
  BY <1>1, <1>2, FS_Subset, FS_CardinalityType DEF IsSums
<1> DEFINE Bounds(T) == G[T] <= F[T] \div q /\ F[T] \div q <= G[T] + Cardinality(T) - 1
           N == {T \in SUBSET D : T # {} => Bounds(T)}
<1>4. {} \in N
  OBVIOUS
<1>5. ASSUME NEW T \in SUBSET D, NEW x \in D, T \in N, x \notin T
      PROVE  T \cup {x} \in N
  <2>1. PICK U : U = T \cup {x}
    OBVIOUS
  <2>2. U \in SUBSET D /\ F[U] = f[x] + F[T] /\ G[U] = g[x] + G[T] /\ g[x] = f[x] \div q
    BY <1>1, <1>2, <1>5, <2>1, SumsAdd
  <2>3. Cardinality(U) = Cardinality(T) + 1
    BY <1>3, <1>5, <2>1, FS_AddElement
  <2>4. PICK a, b, c, d, k : a = f[x] /\ b = F[T] /\ c = g[x] /\ d = G[T] /\ k = Cardinality(T)
    OBVIOUS
  <2>5. a \in Nat /\ b \in Nat /\ c \in Nat /\ d \in Nat /\ k \in Nat
    BY <1>3, <2>4
  <2>6. PICK e \in Nat, h \in Nat : e = b \div q /\ h = (a + b) \div q
    <3>1. a + b \in Nat
      BY <2>5
    <3>2. b \div q \in Nat /\ (a + b) \div q \in Nat
      BY <2>5, <3>1, DivBounds
    <3> QED BY <3>2
  <2>7. c = a \div q
    BY <2>2, <2>4
  <2>8. c + e <= h /\ h <= c + e + 1
    BY <2>5, <2>6, <2>7, DivAdd
  <2>9. F[U] \div q = h /\ G[U] = c + d /\ Cardinality(U) = k + 1
    BY <2>2, <2>3, <2>4, <2>6
  <2>10. CASE T = {}
    <3>1. b = 0 /\ d = 0 /\ k = 0
      BY <1>1, <1>2, <2>4, <2>10, FS_EmptySet DEF IsSums
    <3>2. h = c
      BY <2>5, <2>6, <2>7, <3>1
    <3>3. Bounds(U)
      BY <2>5, <2>6, <2>9, <3>1, <3>2
    <3> QED BY <2>1, <2>2, <3>3
  <2>11. CASE T # {}
    <3>1. d <= e /\ e <= d + k - 1
      BY <1>5, <2>4, <2>6, <2>11
    <3>2. Bounds(U)
      BY <2>5, <2>6, <2>8, <2>9, <3>1
    <3> QED BY <2>1, <2>2, <3>2
  <2> QED BY <2>10, <2>11
<1>6. D \in N
  <2> HIDE DEF N
  <2> QED BY <1>4, <1>5, FiniteIsIn
<1> QED BY <1>1, <1>2, <1>6
=============================================================================
