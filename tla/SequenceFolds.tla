---------------------------- MODULE SequenceFolds ----------------------------
(***************************************************************************)
(* Induction for the proofs about folds: the least element of a set of     *)
(* naturals, induction over a set, what FoldLeft computes element by       *)
(* element, and sorting by rank.  A module that proves something of a fold *)
(* instantiates this one with its operator.                                *)
(***************************************************************************)
EXTENDS SequencesExt, SequenceTheorems, FiniteSetTheorems, TLAPS

\* The step and the start of a fold, with what the loop around it has fixed.
CONSTANTS Op(_,_,_), Base(_)

-----------------------------------------------------------------------------
(* Induction over the naturals, stated of a set: the provers can           *)
(* instantiate it where they cannot instantiate a predicate.               *)

LEMMA Smallest ==
  ASSUME NEW S \in SUBSET Nat, S # {}
  PROVE  \E m \in S : \A k \in S : m <= k
<1> DEFINE T == {0..m : m \in S}
<1>1. \A m \in Nat : 0..m \in FiniteSubsetsOf(Nat)
  BY FS_Interval DEF FiniteSubsetsOf
<1>2. T \subseteq FiniteSubsetsOf(Nat) /\ T # {}
  BY <1>1
<1>3. \E x \in T : \A y \in T : ~ (<<y, x>> \in StrictSubsetOrdering(Nat))
  BY <1>2, WFMin, FS_StrictSubsetOrderingWellFounded
<1>4. PICK m \in S : \A k \in S : ~ (<<0..k, 0..m>> \in StrictSubsetOrdering(Nat))
  BY <1>3
<1>5. ASSUME NEW k \in S, k < m PROVE FALSE
  <2>1. 0..k \subseteq 0..m /\ 0..k # 0..m /\ 0..k \in SUBSET Nat /\ 0..m \in SUBSET Nat
    BY <1>5
  <2> QED
    BY <1>4, <2>1 DEF StrictSubsetOrdering
<1> QED
  BY <1>5

LEMMA Induction ==
  ASSUME NEW S, 0 \in S, \A n \in Nat : n \in S => n + 1 \in S
  PROVE  Nat \subseteq S
<1> SUFFICES ASSUME Nat \ S # {} PROVE FALSE
  OBVIOUS
<1>1. PICK m \in Nat \ S : \A k \in Nat \ S : m <= k
  BY Smallest
<1>2. m # 0 /\ m - 1 \in Nat /\ m - 1 \in S
  BY <1>1
<1> QED
  BY <1>1, <1>2

-----------------------------------------------------------------------------
(* FoldLeft                                                                *)

Folded(p, s) == FoldLeft(LAMBDA acc, x : Op(p, acc, x), Base(p), s)

\* g is the recursive function by which a fold over s, of length n, is defined.
Folds(g, p, s, n) ==
    g = [t \in SUBSET (1..n) |->
            IF t = {} THEN Base(p) ELSE Op(p, g[t \ {Max(t)}], s[Max(t)])]

LEMMA MaxLast ==
  ASSUME NEW n \in Nat, NEW t \in SUBSET (1..n), n \in t
  PROVE  Max(t) = n
<1>1. \A y \in t : n >= y
  OBVIOUS
<1>2. \A x \in t : (\A y \in t : x >= y) => x = n
  OBVIOUS
<1> QED
  BY <1>1, <1>2 DEF Max

LEMMA FoldsExtend ==
  ASSUME NEW p, NEW s, NEW n \in Nat, NEW g, Folds(g, p, s, n)
  PROVE  \E h : Folds(h, p, s, n + 1)
<1> DEFINE h == [t \in SUBSET (1..(n + 1)) |->
                    IF n + 1 \in t THEN Op(p, g[t \ {n + 1}], s[n + 1]) ELSE g[t]]
<1>1. ASSUME NEW t \in SUBSET (1..(n + 1))
      PROVE  h[t] = IF t = {} THEN Base(p) ELSE Op(p, h[t \ {Max(t)}], s[Max(t)])
  <2>1. CASE n + 1 \in t
    <3>1. /\ Max(t) = n + 1 /\ t \ {n + 1} \in SUBSET (1..(n + 1))
          /\ n + 1 \notin t \ {n + 1}
      BY <2>1, MaxLast
    <3>2. h[t \ {n + 1}] = g[t \ {n + 1}]
      BY <3>1
    <3> QED
      BY <2>1, <3>1, <3>2
  <2>2. CASE n + 1 \notin t
    <3>1. t \in SUBSET (1..n)
      BY <2>2
    <3>2. g[t] = IF t = {} THEN Base(p) ELSE Op(p, g[t \ {Max(t)}], s[Max(t)])
      BY <3>1 DEF Folds
    <3>3. h[t \ {Max(t)}] = g[t \ {Max(t)}]
      BY <2>2, <3>1
    <3> QED
      BY <2>2, <3>2, <3>3
  <2> QED
    BY <2>1, <2>2
<1>2. Folds(h, p, s, n + 1)
  BY <1>1 DEF Folds
<1> QED
  BY <1>2

LEMMA FoldsExist == ASSUME NEW p, NEW s PROVE \A n \in Nat : \E g : Folds(g, p, s, n)
<1> DEFINE S == {n \in Nat : \E g : Folds(g, p, s, n)}
<1>1. 0 \in S
  <2>1. Folds([t \in SUBSET (1..0) |-> Base(p)], p, s, 0)
    BY DEF Folds
  <2> QED
    BY <2>1
<1>2. ASSUME NEW n \in Nat, n \in S PROVE n + 1 \in S
  BY <1>2, FoldsExtend
<1> HIDE DEF S
<1>3. Nat \subseteq S
  BY <1>1, <1>2, Induction
<1> QED
  BY <1>3 DEF S

LEMMA Initial ==
  ASSUME NEW n \in Nat, NEW i \in 1..n
  PROVE  /\ 1..i \in SUBSET (1..n) /\ 1..i # {} /\ i \in Nat
         /\ (1..i) \ {i} = 1..(i - 1) /\ i - 1 \in 0..n /\ i \in 0..n
         /\ Max(1..i) = i
<1>1. i \in Nat /\ i >= 1 /\ i <= n
  OBVIOUS
<1>2. i \in 1..i /\ 1..i \in SUBSET (1..i)
  BY <1>1
<1>3. 1..i \in SUBSET (1..n)
  BY <1>1
<1>4. (1..i) \ {i} = 1..(i - 1)
  BY <1>1
<1>5. Max(1..i) = i
  BY <1>1, <1>2, MaxLast
<1> QED
  BY <1>1, <1>2, <1>3, <1>4, <1>5

\* A fold runs through the sequence: run[i] is its value after i elements.
IsRun(run, p, s, n) ==
    run[0] = Base(p) /\ \A i \in 1..n : run[i] = Op(p, run[i - 1], s[i])

LEMMA FoldRun ==
  ASSUME NEW p, NEW s, NEW n \in Nat, DOMAIN s = 1..n
  PROVE  \E run : IsRun(run, p, s, n) /\ Folded(p, s) = run[n]
<1>1. Folded(p, s) = (CHOOSE g : Folds(g, p, s, n))[1..n]
  BY DEF Folded, FoldLeft, MapThenFoldSet, Folds
<1>2. PICK g : Folds(g, p, s, n) /\ Folded(p, s) = g[1..n]
  BY <1>1, FoldsExist
<1> DEFINE run == [i \in 0..n |-> g[1..i]]
<1>3. run[0] = Base(p)
  <2>1. 1..0 = {} /\ {} \in SUBSET (1..n)
    OBVIOUS
  <2> QED
    BY <1>2, <2>1 DEF Folds
<1>4. ASSUME NEW i \in 1..n PROVE run[i] = Op(p, run[i - 1], s[i])
  <2>1. g[1..i] = Op(p, g[(1..i) \ {i}], s[i])
    BY <1>2, Initial DEF Folds
  <2>2. run[i] = g[1..i] /\ run[i - 1] = g[1..(i - 1)]
    BY Initial
  <2> QED
    BY <2>1, <2>2, Initial
<1>5. Folded(p, s) = run[n]
  BY <1>2
<1> QED
  BY <1>3, <1>4, <1>5 DEF IsRun

LEMMA RunsAgree ==
  ASSUME NEW p, NEW s, NEW n \in Nat, NEW run, IsRun(run, p, s, n),
         NEW q, NEW m \in Nat, NEW other, IsRun(other, p, q, m),
         n <= m, \A i \in 1..n : q[i] = s[i]
  PROVE  other[n] = run[n]
<1> DEFINE S == {i \in Nat : i <= n => other[i] = run[i]}
<1>1. 0 \in S
  BY DEF IsRun
<1>2. ASSUME NEW i \in Nat, i \in S PROVE i + 1 \in S
  <2> SUFFICES ASSUME i + 1 <= n PROVE other[i + 1] = run[i + 1]
    OBVIOUS
  <2>1. i + 1 \in 1..n /\ i + 1 \in 1..m /\ (i + 1) - 1 = i
    OBVIOUS
  <2>2. run[i + 1] = Op(p, run[i], s[i + 1]) /\ other[i + 1] = Op(p, other[i], q[i + 1])
    BY <2>1 DEF IsRun
  <2> QED
    BY <1>2, <2>1, <2>2
<1> HIDE DEF S
<1>3. Nat \subseteq S
  BY <1>1, <1>2, Induction
<1> QED
  BY <1>3 DEF S

LEMMA FoldAppend ==
  ASSUME NEW p, NEW T, NEW s \in Seq(T), NEW x \in T
  PROVE  Folded(p, Append(s, x)) = Op(p, Folded(p, s), x)
<1> DEFINE n == Len(s)
           q == Append(s, x)
<1>1. /\ n \in Nat /\ DOMAIN s = 1..n /\ DOMAIN q = 1..(n + 1)
      /\ q[n + 1] = x /\ \A i \in 1..n : q[i] = s[i]
  BY LenProperties, AppendProperties
<1> HIDE DEF n, q
<1>2. PICK run : IsRun(run, p, s, n) /\ Folded(p, s) = run[n]
  BY <1>1, FoldRun
<1>3. PICK other : IsRun(other, p, q, n + 1) /\ Folded(p, q) = other[n + 1]
  BY <1>1, FoldRun
<1>4. other[n] = run[n]
  BY <1>1, <1>2, <1>3, RunsAgree
<1>5. n + 1 \in 1..(n + 1) /\ (n + 1) - 1 = n
  BY <1>1
<1>6. other[n + 1] = Op(p, other[n], q[n + 1])
  BY <1>3, <1>5 DEF IsRun
<1> QED
  BY <1>1, <1>2, <1>3, <1>4, <1>6 DEF q

LEMMA FoldEmpty == ASSUME NEW p PROVE Folded(p, <<>>) = Base(p)
<1>1. PICK run : IsRun(run, p, <<>>, 0) /\ Folded(p, <<>>) = run[0]
  <2>1. DOMAIN <<>> = 1..0 /\ 0 \in Nat
    OBVIOUS
  <2> QED
    BY <2>1, FoldRun
<1> QED
  BY <1>1 DEF IsRun

-----------------------------------------------------------------------------
(* Sorting by rank, the rank of an element being how many come before it.  *)

Below(S, R, x) == {y \in S : <<y, x>> \in R}
StrictOrder(S, R) ==
    /\ \A x \in S : <<x, x>> \notin R
    /\ \A x, y, z \in S : <<x, y>> \in R /\ <<y, z>> \in R => <<x, z>> \in R
    /\ \A x, y \in S : x # y => <<x, y>> \in R \/ <<y, x>> \in R

LEMMA Ranks ==
  ASSUME NEW S, IsFiniteSet(S), NEW R, StrictOrder(S, R)
  PROVE  /\ \A x \in S : Cardinality(Below(S, R, x)) \in 0..(Cardinality(S) - 1)
         /\ \A x, y \in S : <<x, y>> \in R =>
               Cardinality(Below(S, R, x)) < Cardinality(Below(S, R, y))
<1>1. ASSUME NEW x \in S
      PROVE  /\ IsFiniteSet(Below(S, R, x)) /\ Cardinality(Below(S, R, x)) \in Nat
             /\ Cardinality(Below(S, R, x)) < Cardinality(S)
  <2>1. Below(S, R, x) \in SUBSET S /\ Below(S, R, x) # S
    BY DEF Below, StrictOrder
  <2> QED
    BY <2>1, FS_Subset, FS_CardinalityType
<1>2. ASSUME NEW x \in S, NEW y \in S, <<x, y>> \in R
      PROVE  Cardinality(Below(S, R, x)) < Cardinality(Below(S, R, y))
  <2>1. Below(S, R, x) \in SUBSET Below(S, R, y)
    BY <1>2 DEF Below, StrictOrder
  <2>2. x \in Below(S, R, y) /\ x \notin Below(S, R, x)
    BY <1>2 DEF Below, StrictOrder
  <2> QED
    BY <1>1, <2>1, <2>2, FS_Subset
<1>3. Cardinality(S) \in Nat
  BY FS_CardinalityType
<1> QED
  BY <1>1, <1>2, <1>3

\* Each rank from 0 up is taken.
LEMMA RanksTaken ==
  ASSUME NEW S, IsFiniteSet(S), NEW R, StrictOrder(S, R)
  PROVE  /\ Cardinality(S) \in Nat
         /\ \A k \in 1..Cardinality(S) : \E x \in S : Cardinality(Below(S, R, x)) = k - 1
         /\ \A x, y \in S : Cardinality(Below(S, R, x)) = Cardinality(Below(S, R, y)) => x = y
<1> DEFINE n == Cardinality(S)
           rank(x) == Cardinality(Below(S, R, x))
           f == [x \in S |-> rank(x) + 1]
<1>1. n \in Nat
  BY FS_CardinalityType
<1>2. /\ \A x \in S : rank(x) \in 0..(n - 1)
      /\ \A x, y \in S : <<x, y>> \in R => rank(x) < rank(y)
  BY Ranks
<1> HIDE DEF rank, n
<1>3. ASSUME NEW x \in S, NEW y \in S, x # y PROVE rank(x) # rank(y)
  <2>1. rank(x) \in Int /\ rank(y) \in Int
    BY <1>1, <1>2
  <2>2. <<x, y>> \in R \/ <<y, x>> \in R
    BY <1>3 DEF StrictOrder
  <2> QED
    BY <1>2, <2>1, <2>2
<1>4. f \in Injection(S, 1..n)
  BY <1>1, <1>2, <1>3 DEF Injection, IsInjective
<1>5. IsFiniteSet(1..n) /\ Cardinality(1..n) = n
  BY <1>1, FS_Interval
<1>6. f \in Surjection(S, 1..n)
  BY <1>4, <1>5, FS_Injection DEF n
<1>7. ASSUME NEW k \in 1..n PROVE \E x \in S : rank(x) = k - 1
  <2>1. PICK x \in S : f[x] = k
    BY <1>6 DEF Surjection
  <2>2. rank(x) \in Int /\ k \in Int
    BY <1>1, <1>2
  <2> QED
    BY <2>1, <2>2
<1> QED
  BY <1>1, <1>3, <1>7 DEF rank, n

\* A set that is not empty has an element no other comes before.
LEMMA FirstExists ==
  ASSUME NEW S, IsFiniteSet(S), NEW R, StrictOrder(S, R), S # {}
  PROVE  \E x \in S : \A y \in S : <<y, x>> \notin R
<1>1. Cardinality(S) \in Nat /\ Cardinality(S) # 0
  BY FS_CardinalityType, FS_EmptySet
<1>2. 1 \in 1..Cardinality(S)
  BY <1>1
<1>3. PICK x \in S : Cardinality(Below(S, R, x)) = 1 - 1
  BY <1>2, RanksTaken
<1>4. Below(S, R, x) = {}
  <2>1. IsFiniteSet(Below(S, R, x))
    <3>1. Below(S, R, x) \in SUBSET S
      BY DEF Below
    <3> QED
      BY <3>1, FS_Subset
  <2> QED
    BY <1>3, <2>1, FS_EmptySet
<1> QED
  BY <1>4 DEF Below

\* A sequence with the element of each rank in its place holds every element, and
\* in order.
LEMMA RankedSequence ==
  ASSUME NEW S, IsFiniteSet(S), NEW R, StrictOrder(S, R), NEW q,
         \A k \in 1..Cardinality(S) :
            q[k] \in S /\ Cardinality(Below(S, R, q[k])) = k - 1
  PROVE  /\ \A x \in S : \E k \in 1..Cardinality(S) : q[k] = x
         /\ \A i, j \in 1..Cardinality(S) : i < j => <<q[i], q[j]>> \in R
<1> DEFINE n == Cardinality(S)
           rank(x) == Cardinality(Below(S, R, x))
<1>1. n \in Nat /\ \A x, y \in S : rank(x) = rank(y) => x = y
  BY RanksTaken
<1>2. /\ \A x \in S : rank(x) \in 0..(n - 1)
      /\ \A x, y \in S : <<x, y>> \in R => rank(x) < rank(y)
  BY Ranks
<1>3. \A k \in 1..n : q[k] \in S /\ rank(q[k]) = k - 1
  OBVIOUS
<1> HIDE DEF rank, n
<1>4. ASSUME NEW x \in S PROVE \E k \in 1..n : q[k] = x
  <2>1. rank(x) + 1 \in 1..n /\ (rank(x) + 1) - 1 = rank(x)
    BY <1>1, <1>2
  <2>2. q[rank(x) + 1] \in S /\ rank(q[rank(x) + 1]) = rank(x)
    BY <1>3, <2>1
  <2> QED
    BY <1>1, <2>1, <2>2
<1>5. ASSUME NEW i \in 1..n, NEW j \in 1..n, i < j PROVE <<q[i], q[j]>> \in R
  <2>1. i \in Int /\ j \in Int
    BY <1>1
  <2>2. q[i] \in S /\ q[j] \in S /\ rank(q[i]) = i - 1 /\ rank(q[j]) = j - 1
    BY <1>3, Zenon
  <2>3. q[i] # q[j] /\ ~(rank(q[j]) < rank(q[i]))
    BY <1>5, <2>1, <2>2
  <2> QED
    BY <1>2, <2>2, <2>3 DEF StrictOrder
<1> QED
  BY <1>4, <1>5 DEF n
=============================================================================
