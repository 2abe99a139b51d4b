---------------------------- MODULE BarCacheProofs ----------------------------
(***************************************************************************)
(* Proofs about the bar cache, for any calendar and any number of threads: *)
(* what the date arithmetic returns, range by range, and that no           *)
(* interleaving of calls, failures and market hours leaves a day covered   *)
(* whose answer was never stored.                                          *)
(***************************************************************************)
EXTENDS BarCache, SequenceTheorems, FiniteSetTheorems, TLAPS

\* The two folds over date ranges.
MergeRow(none, merged, i) == Merge(merged, i)
NoRows(none) == <<>>
Merging == INSTANCE SequenceFolds WITH Op <- MergeRow, Base <- NoRows

PlanRow(asked, plan, i) == PassRange(plan, i, asked[2])
NoPlan(asked) == [gaps |-> <<>>, cursor |-> asked[1]]
Planning == INSTANCE SequenceFolds WITH Op <- PlanRow, Base <- NoPlan

-----------------------------------------------------------------------------
(* The recorded ranges in their order                                      *)

RangeOrder(rows) == {p \in rows \X rows : Earlier(p[1], p[2])}

LEMMA SameSets ==
  ASSUME NEW S
  PROVE  (Merging!IsFiniteSet(S) <=> IsFiniteSet(S))
         /\ Merging!Cardinality(S) = Cardinality(S)
<1>1. (Merging!IsFiniteSet(S) <=> IsFiniteSet(S))
  BY DEF IsFiniteSet, Merging!IsFiniteSet
<1>2. Merging!Cardinality(S) = Cardinality(S)
  BY DEF Cardinality, Merging!Cardinality
<1> QED
  BY <1>1, <1>2

LEMMA Ranges ==
  /\ Interval \in SUBSET (Int \X Int) /\ Day \in SUBSET Int
  /\ \A i \in Interval : i[1] \in Day /\ i[2] \in Day /\ i[1] <= i[2] /\ i = <<i[1], i[2]>>
                         /\ i[1] \in Int /\ i[2] \in Int
  /\ \A d, e \in Day : d <= e => <<d, e>> \in Interval
  BY CacheAssumption DEF Interval, Day

LEMMA RangesFinite == \A rows \in SUBSET Interval : IsFiniteSet(rows)
<1>1. IsFiniteSet(Day \X Day)
  <2>1. IsFiniteSet(Day)
    BY CacheAssumption, FS_Interval DEF Day
  <2> QED
    BY <2>1, FS_Product
<1>2. \A rows \in SUBSET Interval : rows \in SUBSET (Day \X Day)
  BY DEF Interval
<1> QED
  BY <1>1, <1>2, FS_Subset

LEMMA RangesOrdered ==
  ASSUME NEW rows \in SUBSET Interval
  PROVE  Merging!StrictOrder(rows, RangeOrder(rows))
<1>1. \A i \in rows : i[1] \in Int /\ i[2] \in Int /\ i = <<i[1], i[2]>>
  BY Ranges
<1>2. \A i, j \in rows : <<i, j>> \in RangeOrder(rows) <=>
         i[1] < j[1] \/ (i[1] = j[1] /\ i[2] < j[2])
  BY DEF RangeOrder, Earlier
<1>3. \A i, j \in rows : i # j => i[1] # j[1] \/ i[2] # j[2]
  BY <1>1
<1> QED
  BY <1>1, <1>2, <1>3 DEF Merging!StrictOrder

\* Each recorded range once, the earlier start first.
LEMMA RowsInOrder ==
  ASSUME NEW rows \in SUBSET Interval
  PROVE  LET n == Cardinality(rows)
             q == Sorted(rows, Earlier)
         IN  /\ n \in Nat /\ DOMAIN q = 1..n
             /\ \A k \in 1..n : q[k] \in rows
             /\ \A i \in rows : \E k \in 1..n : q[k] = i
             /\ \A j, k \in 1..n : j < k => q[j][1] <= q[k][1]
<1> DEFINE n == Cardinality(rows)
           q == Sorted(rows, Earlier)
           Before(i) == {j \in rows : Earlier(j, i)}
           order == RangeOrder(rows)
<1>1. IsFiniteSet(rows) /\ Merging!StrictOrder(rows, order)
  BY RangesFinite, RangesOrdered
<1>2. \A i \in rows : Merging!Below(rows, order, i) = Before(i)
  BY DEF Merging!Below, RangeOrder
<1>3. n \in Nat /\ \A k \in 1..n : \E i \in rows : Cardinality(Before(i)) = k - 1
  <2>1. Merging!IsFiniteSet(rows)
    BY <1>1, SameSets
  <2> HIDE DEF order
  <2>2. \A R : Merging!StrictOrder(rows, R) =>
          /\ Merging!Cardinality(rows) \in Nat
          /\ \A k \in 1..Merging!Cardinality(rows) : \E i \in rows :
                Merging!Cardinality(Merging!Below(rows, R, i)) = k - 1
    BY <2>1, Merging!RanksTaken
  <2>3. n \in Nat /\ \A k \in 1..n : \E i \in rows :
                        Cardinality(Merging!Below(rows, order, i)) = k - 1
    BY <1>1, <2>2, SameSets
  <2> HIDE DEF n, Before
  <2> QED
    BY <1>2, <2>3
<1>4. q = [k \in 1..n |-> CHOOSE i \in rows : Cardinality(Before(i)) = k - 1]
  BY DEF Sorted
<1>5. /\ DOMAIN q = 1..n
      /\ \A k \in 1..n : q[k] \in rows /\ Cardinality(Before(q[k])) = k - 1
  <2> HIDE DEF Before, q, n
  <2> QED
    BY <1>3, <1>4
<1> HIDE DEF q
<1>6. \A k \in 1..n :
         q[k] \in rows /\ Cardinality(Merging!Below(rows, order, q[k])) = k - 1
  <2> HIDE DEF Before, order
  <2> QED
    BY <1>2, <1>5
<1>7. /\ \A i \in rows : \E k \in 1..n : q[k] = i
      /\ \A j, k \in 1..n : j < k => <<q[j], q[k]>> \in order
  <2> HIDE DEF order
  <2> QED
    BY <1>1, <1>6, SameSets, Merging!RankedSequence
<1>8. \A i, j \in rows : <<i, j>> \in order => i[1] <= j[1]
  BY Ranges DEF RangeOrder, Earlier
<1> HIDE DEF order, n
<1>9. \A j, k \in 1..n : j < k => q[j][1] <= q[k][1]
  BY <1>5, <1>7, <1>8
<1> QED
  BY <1>3, <1>5, <1>7, <1>9 DEF n, q

-----------------------------------------------------------------------------
(* The merged ranges                                                       *)

DaysOf(ranges) == UNION {Days(ranges[k]) : k \in DOMAIN ranges}
InOrder(ranges) ==
    /\ ranges \in Seq(Interval)
    /\ \A j, k \in DOMAIN ranges : j < k => ranges[j][1] <= ranges[k][1]

\* A range that starts after all merged ones joins them.
LEMMA Merged ==
  ASSUME NEW merged, InOrder(merged), NEW i \in Interval,
         \A k \in DOMAIN merged : merged[k][1] <= i[1]
  PROVE  LET new == Merge(merged, i)
         IN  /\ InOrder(new) /\ DaysOf(new) = DaysOf(merged) \cup Days(i)
             /\ \A k \in DOMAIN new : new[k][1] <= i[1]
<1> DEFINE n == Len(merged)
           new == Merge(merged, i)
           last == merged[n]
           wider == <<last[1], LaterOf(last[2], i[2])>>
<1>1. /\ merged \in Seq(Interval) /\ n \in Nat /\ DOMAIN merged = 1..n
      /\ \A k \in 1..n : merged[k] \in Interval
  BY LenProperties, ElementOfSeq DEF InOrder
<1>2. CASE merged # <<>> /\ i[1] <= last[2] + 1
  <2>1. n \in 1..n /\ n > 0
    BY <1>1, <1>2, EmptySeq
  <2>2. /\ last \in Interval /\ wider \in Interval /\ wider[1] = last[1]
        /\ Days(wider) = Days(last) \cup Days(i)
    <3>1. last \in Interval /\ last[1] <= i[1]
      BY <1>1, <2>1
    <3>2. /\ last[1] \in Int /\ last[2] \in Int /\ i[1] \in Int /\ i[2] \in Int
          /\ last[1] <= last[2] /\ i[1] <= i[2]
          /\ last[1] \in Day /\ last[2] \in Day /\ i[2] \in Day
      BY <3>1, Ranges
    <3>3. wider[1] \in Day /\ wider[2] \in Day /\ wider[1] <= wider[2] /\ wider[1] = last[1]
      BY <3>2 DEF LaterOf
    <3>4. wider \in Interval
      BY <3>3, Ranges
    <3>5. Days(wider) = Days(last) \cup Days(i)
      <4> HIDE DEF last
      <4> QED
        BY <1>2, <3>1, <3>2 DEF Days, LaterOf
    <3> QED
      BY <3>1, <3>3, <3>4, <3>5
  <2> HIDE DEF wider
  <2>3. /\ new \in Seq(Interval) /\ DOMAIN new = 1..n /\ new[n] = wider
        /\ \A k \in 1..n : k # n => new[k] = merged[k]
    <3>1. Front(merged) = SubSeq(merged, 1, n - 1)
      BY DEF Front
    <3>2. /\ Front(merged) \in Seq(Interval) /\ Len(Front(merged)) = n - 1
          /\ \A k \in 1..(n - 1) : Front(merged)[k] = merged[k]
      <4>1. \A k \in 1..(n - 1) : merged[k] \in Interval
        BY <1>1
      <4>2. 1 \in Int /\ n - 1 \in Int /\ (n - 1) - 1 + 1 = n - 1
        BY <1>1
      <4>3. /\ SubSeq(merged, 1, n - 1) \in Seq(Interval)
            /\ Len(SubSeq(merged, 1, n - 1)) = IF 1 <= n - 1 THEN (n - 1) - 1 + 1 ELSE 0
            /\ \A k \in 1..((n - 1) - 1 + 1) : SubSeq(merged, 1, n - 1)[k] = merged[1 + k - 1]
        BY <4>1, <4>2, SubSeqProperties
      <4>4. \A k \in 1..(n - 1) : 1 + k - 1 = k
        OBVIOUS
      <4> QED
        BY <1>1, <2>1, <3>1, <4>2, <4>3, <4>4
    <3>3. new = Append(Front(merged), wider)
      BY <1>2 DEF Merge, Last, wider
    <3>4. n - 1 \in Nat /\ (n - 1) + 1 = n /\ \A k \in 1..n : k # n => k \in 1..(n - 1)
      <4>1. n \in Nat /\ n > 0
        BY <1>1, <2>1
      <4> QED
        BY ONLY <4>1
    <3> HIDE DEF new, n
    <3> QED
      BY <2>2, <3>2, <3>3, <3>4, AppendProperties, LenProperties
  <2> HIDE DEF new, last, n
  <2>4. \A k \in 1..n : new[k][1] = merged[k][1]
    BY <2>2, <2>3 DEF last
  <2>5. InOrder(new) /\ \A k \in DOMAIN new : new[k][1] <= i[1]
    BY <1>1, <2>3, <2>4 DEF InOrder
  <2>6. DaysOf(new) = DaysOf(merged) \cup Days(i)
    <3>1. \A d : d \in DaysOf(new) <=> \E k \in 1..n : d \in Days(new[k])
      BY <2>3 DEF DaysOf
    <3>2. \A d : d \in DaysOf(merged) <=> \E k \in 1..n : d \in Days(merged[k])
      BY <1>1 DEF DaysOf
    <3>3. \A d : d \in DaysOf(new) <=> d \in DaysOf(merged) \/ d \in Days(i)
      BY <2>1, <2>2, <2>3, <3>1, <3>2 DEF last
    <3> QED
      BY <3>3
  <2> QED
    BY <2>5, <2>6 DEF new
<1>3. CASE ~(merged # <<>> /\ i[1] <= last[2] + 1)
  <2>1. new = Append(merged, i)
    BY <1>3 DEF Merge, Last
  <2>2. /\ new \in Seq(Interval) /\ DOMAIN new = 1..(n + 1) /\ new[n + 1] = i
        /\ \A k \in 1..n : new[k] = merged[k]
    BY <1>1, <2>1, AppendProperties, LenProperties
  <2>3. \A k \in 1..(n + 1) : k \in 1..n \/ k = n + 1
    BY <1>1
  <2> HIDE DEF new, n
  <2>4. \A k \in DOMAIN new : new[k][1] <= i[1]
    BY <1>1, <2>2, <2>3, Ranges, SMTT(30)
  <2>5. InOrder(new)
    <3> SUFFICES ASSUME NEW j \in 1..(n + 1), NEW k \in 1..(n + 1), j < k
                 PROVE  new[j][1] <= new[k][1]
      BY <2>2 DEF InOrder
    <3>1. j \in 1..n
      BY <1>1
    <3>2. CASE k = n + 1
      BY <1>1, <2>2, <3>1, <3>2
    <3>3. CASE k \in 1..n
      BY <1>1, <2>2, <3>1, <3>3 DEF InOrder
    <3> QED
      BY <2>3, <3>2, <3>3
  <2>6. DaysOf(new) = DaysOf(merged) \cup Days(i)
    <3>1. \A d : d \in DaysOf(new) <=> \E k \in 1..(n + 1) : d \in Days(new[k])
      BY <2>2 DEF DaysOf
    <3>2. \A d : d \in DaysOf(merged) <=> \E k \in 1..n : d \in Days(merged[k])
      BY <1>1 DEF DaysOf
    <3>3. n + 1 \in 1..(n + 1) /\ \A k \in 1..n : k \in 1..(n + 1)
      BY <1>1
    <3>4. \A d : d \in DaysOf(new) <=> d \in DaysOf(merged) \/ d \in Days(i)
      BY <2>2, <2>3, <3>1, <3>2, <3>3
    <3> QED
      BY <3>4
  <2> QED
    BY <2>4, <2>5, <2>6 DEF new
<1> QED
  BY <1>2, <1>3

LEMMA Joined ==
  ASSUME NEW rows \in SUBSET Interval
  PROVE  _covered_intervals(rows) = Merging!Folded({}, Sorted(rows, Earlier))
  BY DEF _covered_intervals, MergeRow, NoRows, Merging!Folded, Merging!FoldLeft, FoldLeft,
         Merging!MapThenFoldSet, MapThenFoldSet, Merging!Max, Max

\* Merging loses no day and adds none.
LEMMA CoveredIntervals ==
  ASSUME NEW rows \in SUBSET Interval
  PROVE  /\ InOrder(_covered_intervals(rows))
         /\ DaysOf(_covered_intervals(rows)) = UNION {Days(i) : i \in rows}
<1> DEFINE n == Cardinality(rows)
           q == Sorted(rows, Earlier)
           turns(k) == UNION {Days(q[j]) : j \in 1..k}
<1>1. /\ n \in Nat /\ DOMAIN q = 1..n
      /\ \A k \in 1..n : q[k] \in rows
      /\ \A i \in rows : \E k \in 1..n : q[k] = i
      /\ \A j, k \in 1..n : j < k => q[j][1] <= q[k][1]
  BY RowsInOrder
<1>2. _covered_intervals(rows) = Merging!Folded({}, q)
  BY Joined
<1> HIDE DEF n, q
<1>3. PICK run : Merging!IsRun(run, {}, q, n) /\ _covered_intervals(rows) = run[n]
  BY <1>1, <1>2, Merging!FoldRun
<1>4. run[0] = <<>> /\ \A k \in 1..n : run[k] = Merge(run[k - 1], q[k])
  BY <1>3 DEF Merging!IsRun, MergeRow, NoRows
<1> DEFINE So(k) == /\ InOrder(run[k]) /\ DaysOf(run[k]) = turns(k)
                    /\ \A x \in DOMAIN run[k] : \E j \in 1..k : run[k][x][1] <= q[j][1]
           S == {k \in Nat : k <= n => So(k)}
<1>5. 0 \in S
  <2>1. <<>> \in Seq(Interval) /\ DOMAIN <<>> = {}
    BY EmptySeq
  <2>2. InOrder(<<>>) /\ DaysOf(<<>>) = {} /\ turns(0) = {}
    BY <2>1 DEF InOrder, DaysOf
  <2> QED
    BY <1>4, <2>1, <2>2
<1>6. ASSUME NEW k \in Nat, k \in S PROVE k + 1 \in S
  <2> SUFFICES ASSUME k + 1 <= n PROVE So(k + 1)
    OBVIOUS
  <2>1. /\ k + 1 \in 1..n /\ (k + 1) - 1 = k /\ k <= n
        /\ \A j \in 1..k : j \in 1..n /\ j < k + 1
        /\ \A j \in 1..(k + 1) : j \in 1..k \/ j = k + 1
        /\ k + 1 \in 1..(k + 1) /\ \A j \in 1..k : j \in 1..(k + 1)
    <3>1. n \in Nat /\ k \in Nat /\ k + 1 <= n
      BY <1>1
    <3> QED
      BY ONLY <3>1
  <2>2. So(k)
    <3>1. k <= n => So(k)
      BY <1>6, Zenon
    <3> QED
      BY <2>1, <3>1
  <2>3. q[k + 1] \in Interval /\ \A j \in 1..k : q[j] \in Interval /\ q[j][1] <= q[k + 1][1]
    BY <1>1, <2>1
  <2>4. \A x \in DOMAIN run[k] : run[k][x][1] <= q[k + 1][1]
    <3> SUFFICES ASSUME NEW x \in DOMAIN run[k] PROVE run[k][x][1] <= q[k + 1][1]
      OBVIOUS
    <3>1. PICK j \in 1..k : run[k][x][1] <= q[j][1]
      BY <2>2
    <3>2. run[k][x] \in Interval
      BY <2>2, LenProperties, ElementOfSeq DEF InOrder
    <3> QED
      BY <2>3, <3>1, <3>2, Ranges
  <2>5. run[k + 1] = Merge(run[k], q[k + 1])
    BY <1>4, <2>1
  <2>6. /\ InOrder(run[k + 1]) /\ DaysOf(run[k + 1]) = DaysOf(run[k]) \cup Days(q[k + 1])
        /\ \A x \in DOMAIN run[k + 1] : run[k + 1][x][1] <= q[k + 1][1]
    BY <2>2, <2>3, <2>4, <2>5, Merged
  <2>7. turns(k + 1) = turns(k) \cup Days(q[k + 1])
    BY <2>1
  <2> HIDE DEF turns
  <2> QED
    BY <2>1, <2>2, <2>6, <2>7
<1> HIDE DEF S
<1>7. Nat \subseteq S
  BY <1>5, <1>6, Merging!Induction
<1>8. So(n)
  <2>1. n \in S /\ n <= n
    BY <1>1, <1>7
  <2> QED
    BY <2>1 DEF S
<1>9. turns(n) = UNION {Days(i) : i \in rows}
  BY <1>1
<1> QED
  BY <1>3, <1>8, <1>9

-----------------------------------------------------------------------------
(* The planned gaps                                                        *)

\* Before the day to, the gaps are the maximal runs of days of the range asked for
\* that are not among the covered days, in order.
Filled(gaps, asked, covered, to) ==
    /\ gaps \in Seq(Interval)
    /\ \A x, y \in DOMAIN gaps : x < y => gaps[x][2] < gaps[y][1]
    /\ \A x \in DOMAIN gaps :
          /\ asked[1] <= gaps[x][1] /\ gaps[x][2] <= asked[2] /\ gaps[x][2] < to
          /\ \A d \in Days(gaps[x]) : d \notin covered
          /\ gaps[x][1] = asked[1] \/ gaps[x][1] - 1 \in covered
          /\ gaps[x][2] = asked[2] \/ gaps[x][2] + 1 \in covered
    /\ \A d \in Days(asked) \ covered : d < to => \E x \in DOMAIN gaps : d \in Days(gaps[x])

LEMMA GapAdded ==
  ASSUME NEW asked \in Interval, NEW covered, NEW gaps, NEW g \in Interval,
         Filled(gaps, asked, covered, g[1]),
         asked[1] <= g[1], g[2] <= asked[2], \A d \in Days(g) : d \notin covered,
         g[1] = asked[1] \/ g[1] - 1 \in covered, g[2] = asked[2] \/ g[2] + 1 \in covered
  PROVE  Filled(Append(gaps, g), asked, covered, g[2] + 1)
<1> DEFINE n == Len(gaps)
           new == Append(gaps, g)
<1>1. /\ gaps \in Seq(Interval) /\ n \in Nat /\ DOMAIN gaps = 1..n
      /\ \A x \in 1..n : gaps[x] \in Interval
  BY LenProperties, ElementOfSeq DEF Filled
<1>2. /\ new \in Seq(Interval) /\ DOMAIN new = 1..(n + 1) /\ new[n + 1] = g
      /\ \A x \in 1..n : new[x] = gaps[x]
  BY <1>1, AppendProperties, LenProperties
<1>3. /\ \A x \in 1..(n + 1) : x \in 1..n \/ x = n + 1
      /\ n + 1 \in 1..(n + 1) /\ \A x \in 1..n : x \in 1..(n + 1)
      /\ \A x, y \in 1..(n + 1) : x < y => x \in 1..n
  BY <1>1
<1>4. /\ g[1] \in Int /\ g[2] \in Int /\ g[1] <= g[2]
      /\ \A x \in 1..n : gaps[x][1] \in Int /\ gaps[x][2] \in Int
      /\ asked[1] \in Int /\ asked[2] \in Int
  BY <1>1, Ranges
<1> HIDE DEF n, new
<1>5. \A x, y \in 1..(n + 1) : x < y => new[x][2] < new[y][1]
  <2> SUFFICES ASSUME NEW x \in 1..(n + 1), NEW y \in 1..(n + 1), x < y
               PROVE  new[x][2] < new[y][1]
    OBVIOUS
  <2>1. x \in 1..n /\ new[x] = gaps[x]
    BY <1>2, <1>3
  <2>2. CASE y = n + 1
    BY <1>1, <1>2, <2>1, <2>2 DEF Filled
  <2>3. CASE y \in 1..n
    BY <1>1, <1>2, <2>1, <2>3 DEF Filled
  <2> QED
    BY <1>3, <2>2, <2>3
<1>6. ASSUME NEW x \in 1..(n + 1)
      PROVE  /\ asked[1] <= new[x][1] /\ new[x][2] <= asked[2] /\ new[x][2] < g[2] + 1
             /\ \A d \in Days(new[x]) : d \notin covered
             /\ new[x][1] = asked[1] \/ new[x][1] - 1 \in covered
             /\ new[x][2] = asked[2] \/ new[x][2] + 1 \in covered
  <2>1. CASE x = n + 1
    BY <1>2, <1>4, <2>1
  <2>2. CASE x \in 1..n
    <3>1. new[x] = gaps[x] /\ gaps[x][2] < g[1]
      BY <1>1, <1>2, <2>2 DEF Filled
    <3>2. gaps[x][2] < g[2] + 1
      BY <1>4, <2>2, <3>1
    <3> QED
      BY <1>1, <2>2, <3>1, <3>2 DEF Filled
  <2> QED
    BY <1>3, <2>1, <2>2
<1>7. ASSUME NEW d \in Days(asked) \ covered, d < g[2] + 1
      PROVE  \E x \in 1..(n + 1) : d \in Days(new[x])
  <2>1. d \in Int
    BY <1>4 DEF Days
  <2>2. CASE d < g[1]
    <3>1. PICK x \in 1..n : d \in Days(gaps[x])
      BY <1>1, <2>2 DEF Filled
    <3> QED
      BY <1>2, <1>3, <3>1
  <2>3. CASE ~(d < g[1])
    <3>1. d \in Days(g)
      BY <1>4, <1>7, <2>1, <2>3 DEF Days
    <3> QED
      BY <1>2, <1>3, <3>1
  <2> QED
    BY <2>2, <2>3
<1>8. Filled(new, asked, covered, g[2] + 1)
  BY <1>2, <1>5, <1>6, <1>7 DEF Filled
<1> QED
  BY <1>8 DEF new

LEMMA CursorMoved ==
  ASSUME NEW asked \in Interval, NEW covered, NEW gaps, NEW from \in Int, NEW to \in Int,
         Filled(gaps, asked, covered, from), from <= to,
         \A d \in from..(to - 1) : d \in covered \/ d > asked[2]
  PROVE  Filled(gaps, asked, covered, to)
<1>1. /\ gaps \in Seq(Interval) /\ \A x \in DOMAIN gaps : gaps[x] \in Interval
  BY LenProperties, ElementOfSeq DEF Filled
<1>2. \A x \in DOMAIN gaps : gaps[x][2] < to
  BY <1>1, Ranges DEF Filled
<1>3. ASSUME NEW d \in Days(asked) \ covered, d < to
      PROVE  \E x \in DOMAIN gaps : d \in Days(gaps[x])
  <2>1. d \in Int /\ d <= asked[2] /\ asked[2] \in Int
    BY Ranges DEF Days
  <2>2. d < from
    BY <1>3, <2>1
  <2> QED
    BY <2>2 DEF Filled
<1> QED
  BY <1>1, <1>2, <1>3 DEF Filled

\* Where a plan stands after the first k covered ranges.
PlannedTo(plan, asked, ranges, k) ==
    /\ plan.cursor \in Int /\ asked[1] <= plan.cursor
    /\ Filled(plan.gaps, asked, DaysOf(ranges), plan.cursor)
    /\ plan.cursor = asked[1] \/ plan.cursor - 1 \in DaysOf(ranges)
    /\ \A j \in 1..k : \A d \in Days(ranges[j]) : d < plan.cursor \/ d > asked[2]

LEMMA RangePassed ==
  ASSUME NEW asked \in Interval, NEW ranges, InOrder(ranges),
         NEW k \in Nat, k + 1 \in DOMAIN ranges, NEW plan, PlannedTo(plan, asked, ranges, k)
  PROVE  PlannedTo(PassRange(plan, ranges[k + 1], asked[2]), asked, ranges, k + 1)
<1> DEFINE i == ranges[k + 1]
           C == DaysOf(ranges)
           cursor == plan.cursor
           gap == <<cursor, i[1] - 1>>
<1>1. /\ DOMAIN ranges = 1..Len(ranges) /\ Len(ranges) \in Nat
      /\ \A j \in DOMAIN ranges : ranges[j] \in Interval
      /\ \A j \in 1..(k + 1) : j \in 1..k \/ j = k + 1
  BY LenProperties, ElementOfSeq DEF InOrder
<1>2. /\ i \in Interval /\ i[1] \in Int /\ i[2] \in Int /\ i[1] <= i[2]
      /\ asked[1] \in Int /\ asked[2] \in Int /\ asked[1] <= asked[2]
      /\ cursor \in Int /\ asked[1] <= cursor /\ Filled(plan.gaps, asked, C, cursor)
      /\ cursor = asked[1] \/ cursor - 1 \in C
      /\ \A j \in 1..k : \A d \in Days(ranges[j]) : d < cursor \/ d > asked[2]
  BY <1>1, Ranges DEF PlannedTo
<1>3. /\ \A d \in Days(i) : d \in C /\ d \in Int /\ i[1] <= d /\ d <= i[2]
      /\ \A d \in Int : i[1] <= d /\ d <= i[2] => d \in C
  BY <1>2 DEF DaysOf, Days
<1>4. CASE i[2] < cursor \/ i[1] > asked[2]
  <2>1. PassRange(plan, i, asked[2]) = plan
    BY <1>4 DEF PassRange
  <2>2. \A d \in Days(i) : d < cursor \/ d > asked[2]
    <3> HIDE DEF i, cursor, C
    <3> QED
      BY <1>2, <1>3, <1>4
  <2>3. \A j \in 1..(k + 1) : \A d \in Days(ranges[j]) : d < cursor \/ d > asked[2]
    BY <1>1, <1>2, <2>2
  <2> QED
    BY <1>2, <2>1, <2>3 DEF PlannedTo
<1>5. CASE ~(i[2] < cursor \/ i[1] > asked[2])
  <2> DEFINE gaps == IF i[1] > cursor THEN Append(plan.gaps, gap) ELSE plan.gaps
  <2>1. /\ PassRange(plan, i, asked[2]) = [gaps |-> gaps, cursor |-> i[2] + 1]
        /\ cursor <= i[2] /\ i[1] <= asked[2]
    <3>1. cursor <= i[2] /\ i[1] <= asked[2] /\ cursor < i[2] + 1
      <4> HIDE DEF i, cursor
      <4> QED
        BY <1>2, <1>5
    <3>2. LaterOf(plan.cursor, i[2] + 1) = i[2] + 1
      BY <3>1 DEF LaterOf
    <3> QED
      BY <1>5, <3>1, <3>2 DEF PassRange
  <2>2. Filled(gaps, asked, C, i[2] + 1)
    <3>1. CASE i[1] > cursor
      <4>1. gap \in Interval /\ gap[1] = cursor /\ gap[2] = i[1] - 1
        <5>1. i[1] \in Day /\ asked[1] \in Day
          BY <1>2, Ranges
        <5>2. cursor \in Day /\ i[1] - 1 \in Day /\ cursor <= i[1] - 1
          <6> HIDE DEF i, cursor
          <6> QED
            BY <1>2, <3>1, <5>1, CacheAssumption DEF Day
        <5> QED
          BY <5>2, Ranges
      <4>2. ASSUME NEW d \in Days(gap), d \in C PROVE FALSE
        <5>1. d \in Int /\ cursor <= d /\ d < i[1] /\ d <= asked[2]
          <6>1. d \in cursor..(i[1] - 1)
            BY <4>1 DEF Days
          <6> HIDE DEF i, cursor
          <6> QED
            BY <1>2, <2>1, <6>1
        <5>2. PICK j \in DOMAIN ranges : d \in Days(ranges[j])
          BY <4>2 DEF DaysOf
        <5>3. ranges[j] \in Interval /\ ranges[j][1] <= d /\ ranges[j][1] \in Int
          BY <1>1, <5>2, Ranges DEF Days
        <5>4. j \in 1..k \/ j = k + 1 \/ k + 1 < j
          BY <1>1
        <5>5. CASE j \in 1..k
          <6>1. d < cursor \/ d > asked[2]
            BY <1>2, <5>2, <5>5
          <6> HIDE DEF cursor
          <6> QED
            BY <1>2, <5>1, <6>1
        <5>6. CASE j = k + 1 \/ k + 1 < j
          <6>1. i[1] <= ranges[j][1]
            BY <1>1, <1>2, <5>6 DEF InOrder
          <6> HIDE DEF i
          <6> QED
            BY <1>2, <5>1, <5>3, <6>1
        <5> QED
          BY <5>4, <5>5, <5>6
      <4>3. gap[2] + 1 \in C /\ gap[2] <= asked[2] /\ asked[1] <= gap[1]
        <5>1. (i[1] - 1) + 1 = i[1] /\ i[1] \in C /\ i[1] - 1 <= asked[2]
          <6> HIDE DEF i, C
          <6> QED
            BY <1>2, <1>3, <2>1, SMTT(30)
        <5> QED
          BY <1>2, <4>1, <5>1
      <4> HIDE DEF gap, C
      <4>4. Filled(Append(plan.gaps, gap), asked, C, gap[2] + 1)
        BY <1>2, <4>1, <4>2, <4>3, GapAdded
      <4>5. gap[2] + 1 = i[1]
        BY <1>2, <4>1
      <4>6. Filled(Append(plan.gaps, gap), asked, C, i[2] + 1)
        <5>1. /\ i[1] \in Int /\ i[2] + 1 \in Int /\ i[1] <= i[2] + 1
              /\ \A d \in i[1]..((i[2] + 1) - 1) : d \in C \/ d > asked[2]
          <6> HIDE DEF i
          <6> QED
            BY <1>2, <1>3
        <5> QED
          BY <4>4, <4>5, <5>1, CursorMoved
      <4> QED
        BY <3>1, <4>6
    <3>2. CASE ~(i[1] > cursor)
      <4>1. /\ i[2] + 1 \in Int /\ cursor <= i[2] + 1
            /\ \A d \in cursor..((i[2] + 1) - 1) : d \in C \/ d > asked[2]
        <5> HIDE DEF i, cursor, C
        <5> QED
          BY <1>2, <1>3, <2>1, <3>2
      <4> HIDE DEF C
      <4>2. Filled(plan.gaps, asked, C, i[2] + 1)
        BY <1>2, <4>1, CursorMoved
      <4> QED
        BY <3>2, <4>2
    <3> QED
      BY <3>1, <3>2
  <2>3. /\ i[2] + 1 \in Int /\ asked[1] <= i[2] + 1 /\ (i[2] + 1) - 1 \in C
        /\ \A d \in Days(i) : d < i[2] + 1
        /\ \A d \in Int : d < cursor \/ d > asked[2] => d < i[2] + 1 \/ d > asked[2]
    <3> HIDE DEF i, cursor, C
    <3> QED
      BY <1>2, <1>3, <2>1, SMTT(30)
  <2>4. ASSUME NEW j \in 1..(k + 1), NEW d \in Days(ranges[j])
        PROVE  d < i[2] + 1 \/ d > asked[2]
    <3>1. CASE j = k + 1
      BY <2>3, <3>1
    <3>2. CASE j \in 1..k
      <4>1. d \in Int
        BY DEF Days
      <4> QED
        BY <1>2, <2>3, <3>2, <4>1
    <3> QED
      BY <1>1, <3>1, <3>2
  <2> HIDE DEF gaps
  <2> QED
    BY <2>1, <2>2, <2>3, <2>4 DEF PlannedTo
<1> QED
  BY <1>4, <1>5

LEMMA PlanFolded ==
  ASSUME NEW asked, NEW ranges
  PROVE  Planned(ranges, asked[1], asked[2]) = Planning!Folded(asked, ranges)
  BY DEF Planned, PlanRow, NoPlan, Planning!Folded, Planning!FoldLeft, FoldLeft,
         Planning!MapThenFoldSet, MapThenFoldSet, Planning!Max, Max

\* What a call plans for a range: the maximal runs of uncovered days, in order.
LEMMA MissingRanges ==
  ASSUME NEW asked \in Interval, NEW ranges, InOrder(ranges)
  PROVE  Filled(_missing_ranges(ranges, asked[1], asked[2]), asked, DaysOf(ranges),
                asked[2] + 1)
<1> DEFINE n == Len(ranges)
           C == DaysOf(ranges)
           plan == Planned(ranges, asked[1], asked[2])
<1>1. /\ n \in Nat /\ DOMAIN ranges = 1..n
      /\ asked[1] \in Int /\ asked[2] \in Int /\ asked[1] <= asked[2]
      /\ asked[1] \in Day /\ asked[2] \in Day
  BY LenProperties, Ranges DEF InOrder
<1>2. plan = Planning!Folded(asked, ranges)
  BY PlanFolded
<1> HIDE DEF n, plan
<1>3. PICK run : Planning!IsRun(run, asked, ranges, n) /\ plan = run[n]
  BY <1>1, <1>2, Planning!FoldRun
<1>4. /\ run[0] = [gaps |-> <<>>, cursor |-> asked[1]]
      /\ \A k \in 1..n : run[k] = PassRange(run[k - 1], ranges[k], asked[2])
  BY <1>3 DEF Planning!IsRun, PlanRow, NoPlan
<1> DEFINE S == {k \in Nat : k <= n => PlannedTo(run[k], asked, ranges, k)}
<1>5. 0 \in S
  <2>1. <<>> \in Seq(Interval) /\ DOMAIN <<>> = {}
    BY EmptySeq
  <2>2. \A d \in Days(asked) : ~(d < asked[1])
    BY <1>1 DEF Days
  <2>3. Filled(<<>>, asked, C, asked[1])
    BY <2>1, <2>2 DEF Filled
  <2>4. 1..0 = {}
    OBVIOUS
  <2>5. PlannedTo(run[0], asked, ranges, 0)
    BY <1>1, <1>4, <2>3, <2>4 DEF PlannedTo
  <2> QED
    BY <2>5
<1>6. ASSUME NEW k \in Nat, k \in S PROVE k + 1 \in S
  <2> SUFFICES ASSUME k + 1 <= n PROVE PlannedTo(run[k + 1], asked, ranges, k + 1)
    OBVIOUS
  <2>1. k + 1 \in 1..n /\ (k + 1) - 1 = k /\ k <= n
    <3>1. n \in Nat /\ k \in Nat /\ k + 1 <= n
      BY <1>1
    <3> QED
      BY ONLY <3>1
  <2>2. PlannedTo(run[k], asked, ranges, k)
    <3>1. k <= n => PlannedTo(run[k], asked, ranges, k)
      BY <1>6, Zenon
    <3> QED
      BY <2>1, <3>1
  <2>3. run[k + 1] = PassRange(run[k], ranges[k + 1], asked[2])
    BY <1>4, <2>1
  <2> QED
    BY <1>1, <2>1, <2>2, <2>3, RangePassed
<1> HIDE DEF S
<1>7. Nat \subseteq S
  BY <1>5, <1>6, Planning!Induction
<1>8. PlannedTo(plan, asked, ranges, n)
  <2>1. n \in S /\ n <= n
    BY <1>1, <1>7
  <2> QED
    BY <1>3, <2>1 DEF S
<1> DEFINE rest == <<plan.cursor, asked[2]>>
<1>9. _missing_ranges(ranges, asked[1], asked[2]) =
        IF plan.cursor <= asked[2] THEN Append(plan.gaps, rest) ELSE plan.gaps
  BY DEF _missing_ranges, plan
<1>10. CASE plan.cursor <= asked[2]
  <2>1. rest \in Interval /\ rest[1] = plan.cursor /\ rest[2] = asked[2]
    <3>1. plan.cursor \in Day
      <4>1. plan.cursor \in Int /\ asked[1] <= plan.cursor
        BY <1>8 DEF PlannedTo
      <4>2. \A d \in Int : asked[1] <= d /\ d <= asked[2] => d \in Day
        BY <1>1, CacheAssumption DEF Day
      <4> QED
        BY <1>10, <4>1, <4>2
    <3> QED
      BY <1>1, <1>10, <3>1, Ranges
  <2>2. ASSUME NEW d \in Days(rest), d \in C PROVE FALSE
    <3>1. d \in Int /\ plan.cursor <= d /\ d <= asked[2] /\ plan.cursor \in Int
      BY <1>1, <1>8, <2>1 DEF Days, PlannedTo
    <3>2. PICK j \in 1..n : d \in Days(ranges[j])
      BY <1>1, <2>2 DEF DaysOf
    <3>3. d < plan.cursor \/ d > asked[2]
      BY <1>8, <3>2 DEF PlannedTo
    <3> QED
      BY <1>1, <3>1, <3>3
  <2>3. /\ Filled(plan.gaps, asked, C, rest[1]) /\ asked[1] <= rest[1] /\ rest[2] <= asked[2]
        /\ rest[1] = asked[1] \/ rest[1] - 1 \in C
    BY <1>1, <1>8, <2>1 DEF PlannedTo
  <2> HIDE DEF rest, C
  <2>4. Filled(Append(plan.gaps, rest), asked, C, rest[2] + 1)
    BY <2>1, <2>2, <2>3, GapAdded
  <2> QED
    BY <1>9, <1>10, <2>1, <2>4 DEF C
<1>11. CASE ~(plan.cursor <= asked[2])
  <2>1. Filled(plan.gaps, asked, C, plan.cursor) /\ plan.cursor \in Int
    BY <1>8 DEF PlannedTo
  <2>2. \A x \in DOMAIN plan.gaps : plan.gaps[x][2] < asked[2] + 1
    <3>1. \A x \in DOMAIN plan.gaps : plan.gaps[x] \in Interval /\ plan.gaps[x][2] <= asked[2]
      BY <2>1, LenProperties, ElementOfSeq DEF Filled
    <3> QED
      BY <1>1, <3>1, Ranges
  <2>3. \A d \in Days(asked) : d < plan.cursor
    BY <1>1, <1>11, <2>1 DEF Days
  <2>4. Filled(plan.gaps, asked, C, asked[2] + 1)
    BY <2>1, <2>2, <2>3 DEF Filled
  <2> QED
    BY <1>9, <1>11, <2>4
<1> QED
  BY <1>10, <1>11

\* Two maximal runs of days with a day in common are one.
LEMMA GapsExact ==
  ASSUME NEW asked \in Interval, NEW gaps, Filled(gaps, asked, Covered, asked[2] + 1)
  PROVE  ToSet(gaps) = Gaps(asked)
<1> DEFINE missing == Days(asked) \ Covered
<1>1. /\ \A x \in DOMAIN gaps : gaps[x] \in Interval
      /\ asked[1] \in Int /\ asked[2] \in Int
  BY LenProperties, ElementOfSeq, Ranges DEF Filled
<1>2. \A d : d \in missing <=> d \in Int /\ asked[1] <= d /\ d <= asked[2] /\ d \notin Covered
  BY <1>1 DEF Days
<1> HIDE DEF missing
<1>3. ASSUME NEW x \in DOMAIN gaps
      PROVE  /\ gaps[x] \in Interval /\ Days(gaps[x]) \subseteq missing
             /\ gaps[x][1] - 1 \notin missing /\ gaps[x][2] + 1 \notin missing
  <2>1. /\ gaps[x] \in Interval /\ gaps[x][1] \in Int /\ gaps[x][2] \in Int
        /\ asked[1] <= gaps[x][1] /\ gaps[x][2] <= asked[2]
        /\ \A d \in Days(gaps[x]) : d \notin Covered
        /\ gaps[x][1] = asked[1] \/ gaps[x][1] - 1 \in Covered
        /\ gaps[x][2] = asked[2] \/ gaps[x][2] + 1 \in Covered
    BY <1>1, Ranges DEF Filled
  <2>2. Days(gaps[x]) \subseteq missing
    BY <1>1, <1>2, <2>1 DEF Days
  <2> QED
    BY <1>1, <1>2, <2>1, <2>2
<1>4. ASSUME NEW i \in Interval, Days(i) \subseteq missing,
             i[1] - 1 \notin missing, i[2] + 1 \notin missing
      PROVE  \E x \in DOMAIN gaps : gaps[x] = i
  <2>1. i[1] \in Int /\ i[2] \in Int /\ i[1] <= i[2] /\ i = <<i[1], i[2]>> /\ i[1] \in Days(i)
    BY Ranges DEF Days
  <2>2. i[1] \in Days(asked) \ Covered /\ i[1] < asked[2] + 1
    BY <1>1, <1>2, <1>4, <2>1 DEF Days
  <2>3. PICK x \in DOMAIN gaps : i[1] \in Days(gaps[x])
    BY <2>2 DEF Filled
  <2> DEFINE g == gaps[x]
  <2>4. /\ g[1] \in Int /\ g[2] \in Int /\ g[1] <= i[1] /\ i[1] <= g[2] /\ g = <<g[1], g[2]>>
        /\ \A d \in Int : g[1] <= d /\ d <= g[2] => d \in missing
        /\ g[1] - 1 \notin missing /\ g[2] + 1 \notin missing
    BY <1>1, <1>3, <2>3, Ranges DEF Days
  <2>5. \A d \in Int : i[1] <= d /\ d <= i[2] => d \in missing
    BY <1>4, <2>1 DEF Days
  <2> HIDE DEF g
  <2>6. g[1] = i[1] /\ g[2] = i[2]
    BY <1>4, <2>1, <2>4, <2>5
  <2> QED
    BY <2>1, <2>4, <2>6 DEF g
<1> QED
  BY <1>3, <1>4 DEF Gaps, ToSet, missing

\* What a call looks up and plans.
LEMMA PlanExact ==
  ASSUME coverage \subseteq Interval, NEW asked \in Interval
  PROVE  LET gaps == _missing_ranges(_covered_intervals(coverage), asked[1], asked[2])
         IN  /\ gaps \in Seq(Interval) /\ ToSet(gaps) = Gaps(asked)
             /\ \A i, j \in DOMAIN gaps : i < j => gaps[i][2] < gaps[j][1]
             /\ \A d \in Days(asked) \ Covered : \E x \in DOMAIN gaps : d \in Days(gaps[x])
<1> DEFINE ranges == _covered_intervals(coverage)
           gaps == _missing_ranges(ranges, asked[1], asked[2])
<1>1. InOrder(ranges) /\ DaysOf(ranges) = Covered
  BY CoveredIntervals DEF Covered
<1> HIDE DEF ranges
<1>2. Filled(gaps, asked, Covered, asked[2] + 1)
  BY <1>1, MissingRanges
<1> HIDE DEF gaps
<1>3. ToSet(gaps) = Gaps(asked)
  BY <1>2, GapsExact
<1>4. \A d \in Days(asked) : d < asked[2] + 1
  BY Ranges DEF Days
<1>5. \A d \in Days(asked) \ Covered : \E x \in DOMAIN gaps : d \in Days(gaps[x])
  BY <1>2, <1>4 DEF Filled
<1> QED
  BY <1>2, <1>3, <1>5 DEF Filled, gaps, ranges

-----------------------------------------------------------------------------
(* The inductive invariant                                                 *)

\* The last answer stored for the day came too early, or its final bar is held.
Answered(d) == d \in early \/ (d \in Day /\ bars[d] = "final")

\* A call that is not idle is a record with these fields.
Fields(r, at, range, gaps, got) ==
    r = [at |-> at, range |-> range, gaps |-> gaps, got |-> got]
IsCall(r) == Fields(r, r.at, r.range, r.gaps, r.got)

\* Where a call stands: the days it has asked for are covered or still in its gaps,
\* and a gap about to be recorded has been answered.
Standing(r) ==
    /\ IsCall(r)
    /\ r.at \in {"fetch", "store", "record", "read"}
    /\ r.range \in Interval /\ r.gaps \in Seq(Interval)
    /\ r.at = "read" <=> r.gaps = <<>>
    /\ \A d \in Days(r.range) \ Covered : \E x \in DOMAIN r.gaps : d \in Days(r.gaps[x])
    /\ r.got \in [IF r.at = "store" THEN Days(Head(r.gaps)) ELSE {} -> Bar]
    /\ r.at = "record" => \A d \in Days(Head(r.gaps)) : Answered(d)

CacheInv ==
    /\ day \in Day /\ phase \in {"pre", "open", "closed"}
    /\ bars \in [Day -> Bar] /\ coverage \subseteq Interval /\ early \subseteq Day
    /\ \A d \in Covered : Answered(d)
    /\ call = [c \in Caller |-> call[c]]
    /\ \A c \in Caller : call[c] = Idle \/ Standing(call[c])

\* Once answered, a day stays answered, and once covered it stays covered.
Answering ==
    /\ bars' \in [Day -> Bar] /\ coverage' \subseteq Interval /\ early' \subseteq Day
    /\ \A d : Answered(d) => Answered(d)'
    /\ Covered \subseteq Covered' /\ \A d \in Covered' : Answered(d)'

LEMMA NothingStored ==
  ASSUME CacheInv, UNCHANGED <<bars, coverage, early>> PROVE Answering
  BY DEF CacheInv, Answering, Answered, Covered

\* A step of one thread.
LEMMA CallKept ==
  ASSUME CacheInv, Answering, UNCHANGED <<day, phase>>, NEW c \in Caller, NEW new,
         call' = [call EXCEPT ![c] = new], new = Idle \/ Standing(new)'
  PROVE  CacheInv'
<1>1. /\ call' = [b \in Caller |-> call'[b]] /\ call'[c] = new
      /\ \A b \in Caller \ {c} : call'[b] = call[b]
  BY DEF CacheInv
<1>2. ASSUME NEW r, Standing(r) PROVE Standing(r)'
  BY <1>2 DEF Standing, Answering
<1>3. ASSUME NEW b \in Caller \ {c} PROVE (call[b] = Idle \/ Standing(call[b]))'
  <2>1. PICK r : r = call[b]
    OBVIOUS
  <2>2. r = Idle \/ Standing(r)'
    BY <1>2, <2>1 DEF CacheInv
  <2> QED
    BY <1>1, <2>1, <2>2 DEF Idle
<1>4. \A b \in Caller : (call[b] = Idle \/ Standing(call[b]))'
  <2>1. (call[c] = Idle \/ Standing(call[c]))'
    BY <1>1 DEF Idle
  <2> QED
    BY <1>3, <2>1
<1> QED
  BY <1>1, <1>4 DEF CacheInv, Answering

-----------------------------------------------------------------------------
(* The steps                                                               *)

\* Two fields of a call are set.
LEMMA FieldsSet ==
  ASSUME NEW r, IsCall(r), NEW a, NEW v
  PROVE  /\ Fields([r EXCEPT !.at = a, !.got = v], a, r.range, r.gaps, v)
         /\ Fields([r EXCEPT !.at = a, !.gaps = v], a, r.range, v, r.got)
<1> DEFINE first == [r EXCEPT !.at = a]
<1>1. first = [at |-> a, range |-> r.range, gaps |-> r.gaps, got |-> r.got]
  BY DEF IsCall, Fields
<1> HIDE DEF first
<1>2. /\ [first EXCEPT !.got = v]
           = [at |-> a, range |-> r.range, gaps |-> r.gaps, got |-> v]
      /\ [first EXCEPT !.gaps = v]
           = [at |-> a, range |-> r.range, gaps |-> v, got |-> r.got]
  BY <1>1
<1> QED
  BY <1>2 DEF first, Fields

\* A call that is not idle, with a gap in hand unless it is about to read.
LEMMA GapInHand ==
  ASSUME CacheInv, NEW c \in Caller, call[c].at \in {"fetch", "store", "record"}
  PROVE  /\ Standing(call[c]) /\ call[c].gaps \in Seq(Interval) /\ call[c].gaps # <<>>
         /\ Head(call[c].gaps) \in Interval /\ Head(call[c].gaps) = call[c].gaps[1]
         /\ Days(Head(call[c].gaps)) \subseteq Day
<1>1. Standing(call[c])
  BY DEF CacheInv, Idle
<1>2. call[c].gaps \in Seq(Interval) /\ call[c].gaps # <<>>
  BY <1>1 DEF Standing
<1>3. Head(call[c].gaps) \in Interval
  BY <1>2, HeadTailProperties
<1>4. Head(call[c].gaps) = call[c].gaps[1]
  BY <1>2
<1>5. Days(Head(call[c].gaps)) \subseteq Day
  <2>1. PICK g \in Interval : g = Head(call[c].gaps)
    BY <1>3
  <2>2. g[1] \in Int /\ g[2] \in Int /\ g[1] \in Day /\ g[2] \in Day
    BY Ranges
  <2>3. Days(g) \subseteq Day
    BY <2>2, CacheAssumption DEF Days, Day
  <2> QED
    BY <2>1, <2>3
<1> QED
  BY <1>1, <1>2, <1>3, <1>4, <1>5

LEMMA GetBarsKeeps ==
  ASSUME CacheInv, NEW c \in Caller, get_bars(c) PROVE CacheInv'
<1>1. UNCHANGED <<day, phase, bars, coverage, early>> /\ Answering
  BY NothingStored DEF get_bars
<1>2. PICK range \in Interval :
        LET gaps == _missing_ranges(_covered_intervals(coverage), range[1], range[2])
        IN  call' = [call EXCEPT ![c] = [at |-> IF gaps = <<>> THEN "read" ELSE "fetch",
                                         range |-> range, gaps |-> gaps, got |-> <<>>]]
  BY DEF get_bars
<1> DEFINE gaps == _missing_ranges(_covered_intervals(coverage), range[1], range[2])
           new == [at |-> IF gaps = <<>> THEN "read" ELSE "fetch",
                   range |-> range, gaps |-> gaps, got |-> <<>>]
<1>3. /\ gaps \in Seq(Interval)
      /\ \A d \in Days(range) \ Covered : \E x \in DOMAIN gaps : d \in Days(gaps[x])
  BY PlanExact DEF CacheInv
<1>4. call' = [call EXCEPT ![c] = new]
  BY <1>2
<1> HIDE DEF gaps
<1>5. <<>> \in [{} -> Bar]
  OBVIOUS
<1>6. Standing(new)
  BY <1>3, <1>5 DEF Standing, IsCall, Fields
<1>7. PICK r : r = new
  OBVIOUS
<1>8. Standing(r)'
  BY <1>1, <1>6, <1>7 DEF Standing, IsCall, Fields, Covered, Answered
<1> QED
  BY <1>1, <1>4, <1>7, <1>8, CallKept

LEMMA FetchKeeps ==
  ASSUME CacheInv, NEW c \in Caller, _fetch_from_alpaca(c) PROVE CacheInv'
<1> DEFINE old == call[c]
           got == [d \in Days(Head(old.gaps)) |-> Feed(d)]
           new == [old EXCEPT !.at = "store", !.got = got]
<1>1. /\ UNCHANGED <<day, phase, bars, coverage, early>> /\ Answering
      /\ old.at = "fetch" /\ call' = [call EXCEPT ![c] = new]
  BY NothingStored DEF _fetch_from_alpaca
<1>2. Standing(old) /\ old.gaps # <<>>
  BY <1>1, GapInHand
<1>3. got \in [Days(Head(old.gaps)) -> Bar]
  BY DEF Feed, Bar
<1> HIDE DEF old, got
<1>4. Fields(new, "store", old.range, old.gaps, got)
  BY <1>2, FieldsSet DEF Standing
<1> HIDE DEF new
<1>5. Standing(new)
  BY <1>2, <1>3, <1>4 DEF Standing, IsCall, Fields
<1>6. PICK r : r = new
  OBVIOUS
<1>7. Standing(r)'
  BY <1>1, <1>5, <1>6 DEF Standing, IsCall, Fields, Covered, Answered
<1> QED
  BY <1>1, <1>6, <1>7, CallKept

LEMMA StoreKeeps ==
  ASSUME CacheInv, NEW c \in Caller, _store_bars(c) PROVE CacheInv'
<1> DEFINE old == call[c]
           got == old.got
           new == [old EXCEPT !.at = "record", !.got = <<>>]
<1>1. /\ UNCHANGED <<day, phase, coverage>>
      /\ old.at = "store" /\ call' = [call EXCEPT ![c] = new]
      /\ bars' = [d \in Day |-> IF d \in DOMAIN got /\ got[d] # "none"
                                THEN got[d] ELSE bars[d]]
      /\ early' = (early \ DOMAIN got) \cup {d \in DOMAIN got : got[d] # "final"}
  BY DEF _store_bars
<1>2. /\ Standing(old) /\ old.gaps # <<>>
      /\ DOMAIN got = Days(Head(old.gaps)) /\ DOMAIN got \subseteq Day
      /\ \A d \in DOMAIN got : got[d] \in Bar
  BY <1>1, GapInHand DEF Standing
<1> HIDE DEF old, got
<1>3. \A d \in DOMAIN got : Answered(d)'
  BY <1>1, <1>2 DEF Answered
<1>4. Answering
  <2>1. bars' \in [Day -> Bar] /\ early' \subseteq Day
    BY <1>1, <1>2 DEF CacheInv
  <2>2. \A d : Answered(d) => Answered(d)'
    <3> SUFFICES ASSUME NEW d, Answered(d), d \notin DOMAIN got PROVE Answered(d)'
      BY <1>3
    <3>1. CASE d \in early
      BY <1>1, <3>1 DEF Answered
    <3>2. CASE d \notin early
      BY <1>1, <3>2 DEF Answered
    <3> QED
      BY <3>1, <3>2
  <2>3. Covered' = Covered
    BY <1>1 DEF Covered
  <2> QED
    BY <1>1, <2>1, <2>2, <2>3 DEF Answering, CacheInv
<1>5. Fields(new, "record", old.range, old.gaps, <<>>)
  BY <1>2, FieldsSet DEF Standing
<1> HIDE DEF new
<1>6. PICK r : r = new
  OBVIOUS
<1>7. Standing(r)'
  <2>1. \A d \in Days(Head(r.gaps)) : Answered(d)'
    BY <1>2, <1>3, <1>5, <1>6 DEF Fields
  <2>2. Covered' = Covered /\ <<>> \in [{} -> Bar]
    BY <1>1 DEF Covered
  <2> QED
    BY <1>2, <1>5, <1>6, <2>1, <2>2 DEF Standing, IsCall, Fields
<1> QED
  BY <1>1, <1>4, <1>6, <1>7, CallKept

LEMMA RecordKeeps ==
  ASSUME CacheInv, NEW c \in Caller, _record_coverage(c) PROVE CacheInv'
<1> DEFINE old == call[c]
           first == Head(old.gaps)
           rest == Tail(old.gaps)
           stage == IF Len(old.gaps) = 1 THEN "read" ELSE "fetch"
           new == [old EXCEPT !.at = stage, !.gaps = rest]
<1>1. /\ UNCHANGED <<day, phase, bars, early>> /\ coverage' = coverage \cup {first}
      /\ old.at = "record" /\ call' = [call EXCEPT ![c] = new]
  BY DEF _record_coverage
<1>2. /\ Standing(old) /\ old.gaps \in Seq(Interval) /\ old.gaps # <<>>
      /\ first \in Interval /\ first = old.gaps[1]
      /\ \A d \in Days(first) : Answered(d)
  BY <1>1, GapInHand DEF Standing
<1>3. /\ Covered' = Covered \cup Days(first) /\ coverage' \subseteq Interval
      /\ \A d : Answered(d) <=> Answered(d)'
  BY <1>1, <1>2 DEF Covered, Answered, CacheInv
<1>4. Answering
  BY <1>1, <1>2, <1>3 DEF Answering, CacheInv
<1>5. /\ rest \in Seq(Interval) /\ Len(rest) = Len(old.gaps) - 1
      /\ Len(old.gaps) \in Nat /\ Len(old.gaps) > 0
      /\ DOMAIN rest = 1..(Len(old.gaps) - 1) /\ DOMAIN old.gaps = 1..Len(old.gaps)
      /\ \A x \in 1..(Len(old.gaps) - 1) : rest[x] = old.gaps[x + 1]
      /\ stage = "read" <=> rest = <<>>
  <2>1. /\ rest \in Seq(Interval) /\ Len(rest) = Len(old.gaps) - 1
        /\ \A x \in 1..Len(rest) : rest[x] = old.gaps[x + 1]
    BY <1>2, HeadTailProperties
  <2>2. Len(old.gaps) \in Nat \ {0} /\ DOMAIN old.gaps = 1..Len(old.gaps)
        /\ DOMAIN rest = 1..Len(rest)
    BY <1>2, <2>1, EmptySeq, LenProperties
  <2>3. rest = <<>> <=> Len(rest) = 0
    BY <2>1, EmptySeq
  <2> HIDE DEF old, rest
  <2> QED
    BY <2>1, <2>2, <2>3
<1> HIDE DEF old, first, rest
<1>6. stage \in {"read", "fetch"}
  OBVIOUS
<1> HIDE DEF stage
<1>7. Fields(new, stage, old.range, rest, old.got)
  BY <1>2, FieldsSet DEF Standing
<1> HIDE DEF new
<1>8. PICK r : r = new
  OBVIOUS
<1>9. ASSUME NEW d \in Days(old.range) \ Covered'
      PROVE  \E x \in DOMAIN rest : d \in Days(rest[x])
  <2>1. PICK x \in DOMAIN old.gaps : d \in Days(old.gaps[x])
    BY <1>2, <1>3, <1>9 DEF Standing
  <2>2. x # 1
    BY <1>2, <1>3, <1>9, <2>1
  <2>3. x - 1 \in 1..(Len(old.gaps) - 1) /\ (x - 1) + 1 = x
    <3>1. Len(old.gaps) \in Nat /\ x \in 1..Len(old.gaps) /\ x # 1
      BY <1>5, <2>1, <2>2
    <3> QED
      BY ONLY <3>1
  <2>4. rest[x - 1] = old.gaps[x] /\ x - 1 \in DOMAIN rest
    BY <1>5, <2>3
  <2> QED
    BY <2>1, <2>4
<1>10. old.range \in Interval /\ old.got \in [{} -> Bar]
  BY <1>1, <1>2 DEF Standing
<1>11. Standing(r)'
  BY <1>5, <1>6, <1>7, <1>8, <1>9, <1>10 DEF Standing, IsCall, Fields
<1> QED
  BY <1>1, <1>4, <1>8, <1>11, CallKept

\* A call ends, or ends early.
LEMMA EndKeeps ==
  ASSUME CacheInv, NEW c \in Caller, _read_bars(c) \/ Fail(c) PROVE CacheInv'
<1>1. UNCHANGED <<day, phase, bars, coverage, early>> /\ Answering
      /\ call' = [call EXCEPT ![c] = Idle]
  BY NothingStored DEF _read_bars, Fail
<1>2. PICK r : r = Idle
  OBVIOUS
<1>3. call' = [call EXCEPT ![c] = r]
  BY <1>1, <1>2
<1>4. r = Idle \/ Standing(r)'
  BY <1>2
<1> QED
  BY <1>1, <1>3, <1>4, CallKept

LEMMA AdvanceKeeps == ASSUME CacheInv, Advance PROVE CacheInv'
<1>1. /\ UNCHANGED <<bars, coverage, call, early>>
      /\ day' \in Day /\ phase' \in {"pre", "open", "closed"}
  BY CacheAssumption DEF Advance, CacheInv, Day
<1>2. \A c \in Caller : (call[c] = Idle \/ Standing(call[c]))'
  BY <1>1 DEF CacheInv, Standing, Covered, Answered, Idle
<1> QED
  BY <1>1, <1>2 DEF CacheInv, Covered, Answered

LEMMA CacheInvInit == Init => CacheInv
<1> SUFFICES ASSUME Init PROVE CacheInv
  OBVIOUS
<1>1. /\ 1 \in Day /\ Covered = {} /\ bars \in [Day -> Bar]
  BY CacheAssumption DEF Init, Day, Covered, Bar
<1> QED
  BY <1>1 DEF Init, CacheInv

LEMMA CacheInvNext == CacheInv /\ [Next]_vars => CacheInv'
<1> SUFFICES ASSUME CacheInv, [Next]_vars PROVE CacheInv'
  OBVIOUS
<1>1. CASE UNCHANGED vars
  BY <1>1 DEF vars, CacheInv, Standing, Covered, Answered, Idle
<1>2. CASE Advance
  BY <1>2, AdvanceKeeps
<1>3. ASSUME NEW c \in Caller, CallStep(c) PROVE CacheInv'
  BY <1>3, GetBarsKeeps, FetchKeeps, StoreKeeps, RecordKeeps, EndKeeps DEF CallStep
<1> QED
  BY <1>1, <1>2, <1>3 DEF Next

LEMMA CacheInvAlways == Spec => []CacheInv
  BY CacheInvInit, CacheInvNext, PTL DEF Spec

-----------------------------------------------------------------------------
(* The theorems                                                            *)

\* The tables hold bars and ranges of the calendar, and a call's plan, its gaps and
\* what it fetched are of the days it asked for (data.get_bars).
THEOREM CacheTypeCorrect == Spec => []CacheTypeOK
<1>1. CacheInv => CacheTypeOK
  <2> SUFFICES ASSUME CacheInv, NEW c \in Caller, call[c] # Idle
               PROVE  /\ call[c].at \in {"fetch", "store", "record", "read"}
                      /\ call[c].range \in Interval
                      /\ ToSet(call[c].gaps) \subseteq Interval
                      /\ \A d \in DOMAIN call[c].got : d \in Day /\ call[c].got[d] \in Bar
    BY DEF CacheInv, CacheTypeOK
  <2>1. /\ Standing(call[c]) /\ call[c].at \in {"fetch", "store", "record", "read"}
        /\ call[c].range \in Interval
    BY DEF CacheInv, Standing
  <2>2. ToSet(call[c].gaps) \subseteq Interval
    BY <2>1, LenProperties, ElementOfSeq DEF Standing, ToSet
  <2>3. \A d \in DOMAIN call[c].got : d \in Day /\ call[c].got[d] \in Bar
    <3>1. CASE call[c].at = "store"
      BY <2>1, <3>1, GapInHand DEF Standing
    <3>2. CASE call[c].at # "store"
      BY <2>1, <3>2 DEF Standing
    <3> QED
      BY <3>1, <3>2
  <2> QED
    BY <2>1, <2>2, <2>3
<1> QED
  BY <1>1, CacheInvAlways, PTL

\* When a call reads, every settled trading day it asked for has its final bar in
\* the table, but for the days whose last stored answer was fetched too early, by this
\* call or by another that stored later (data.py:229); other threads that fail, die or
\* leave a store without its record take no other day from the answer (data.get_bars).
THEOREM AnswersAreComplete == Spec => []AnswersComplete
<1>1. CacheInv => AnswersComplete
  <2> SUFFICES ASSUME CacheInv, NEW c \in Caller, call[c].at = "read",
                      NEW d \in Days(call[c].range), d \notin early
               PROVE  bars[d] = "final"
    BY DEF AnswersComplete
  <2>1. Standing(call[c]) /\ call[c].gaps = <<>> /\ DOMAIN call[c].gaps = {}
    BY DEF CacheInv, Idle, Standing
  <2>2. d \in Covered
    BY <2>1 DEF Standing
  <2> QED
    BY <2>2 DEF CacheInv, Answered
<1> QED
  BY <1>1, CacheInvAlways, PTL

\* A call plans exactly the maximal runs of days it asks for that no recorded range
\* covers, in order, however the recorded ranges overlap (data._covered_intervals,
\* data._missing_ranges; tests/test_data.py).
THEOREM FetchesAreMissing == Spec => FetchesOnlyMissing
<1> DEFINE Exact == \A c \in Caller :
             call[c] = Idle /\ call'[c] # Idle =>
                LET gaps == call'[c].gaps IN
                /\ ToSet(gaps) = Gaps(call'[c].range)
                /\ \A i, j \in DOMAIN gaps : i < j => gaps[i][2] < gaps[j][1]
<1>1. CacheInv /\ [Next]_vars => [Exact]_vars
  <2> SUFFICES ASSUME CacheInv, Next, NEW c \in Caller, call[c] = Idle, call'[c] # Idle
               PROVE  LET gaps == call'[c].gaps IN
                      /\ ToSet(gaps) = Gaps(call'[c].range)
                      /\ \A i, j \in DOMAIN gaps : i < j => gaps[i][2] < gaps[j][1]
    OBVIOUS
  <2>1. PICK b \in Caller : CallStep(b)
    BY DEF Next, Advance
  <2>2. b = c
    BY <2>1 DEF CallStep, get_bars, _fetch_from_alpaca, _store_bars, _record_coverage,
                _read_bars, Fail, CacheInv
  <2>3. get_bars(c)
    BY <2>1, <2>2 DEF CallStep, _fetch_from_alpaca, _store_bars, _record_coverage,
                      _read_bars, Fail, Idle
  <2>4. PICK range \in Interval :
          LET gaps == _missing_ranges(_covered_intervals(coverage), range[1], range[2])
          IN  call' = [call EXCEPT ![c] = [at |-> IF gaps = <<>> THEN "read" ELSE "fetch",
                                           range |-> range, gaps |-> gaps, got |-> <<>>]]
    BY <2>3 DEF get_bars
  <2> DEFINE gaps == _missing_ranges(_covered_intervals(coverage), range[1], range[2])
  <2>5. /\ ToSet(gaps) = Gaps(range)
        /\ \A i, j \in DOMAIN gaps : i < j => gaps[i][2] < gaps[j][1]
    BY PlanExact DEF CacheInv
  <2>6. call'[c].gaps = gaps /\ call'[c].range = range
    BY <2>4 DEF CacheInv
  <2> HIDE DEF gaps
  <2> QED
    BY <2>5, <2>6
<1> QED
  BY <1>1, CacheInvAlways, PTL DEF Spec, FetchesOnlyMissing
===============================================================================
