----------------------------- MODULE RegretProofs -----------------------------
(***************************************************************************)
(* Proofs about the regret ledger, for any number of strategies, symbols,  *)
(* passes and any forward returns: first what the retirement rule returns, *)
(* active by active, then what the passes that carry it out leave behind,  *)
(* wherever they stop.                                                     *)
(***************************************************************************)
EXTENDS RegretLedger, SequenceTheorems, FiniteSetTheorems, TLAPS

Symbols == {evidence[s].symbol : s \in Strategy}
Ret(s) == evidence[s].ret
First(s) == FirstOf(evidence, s)
Active == Actives(evidence)
Shadow == Shadows(evidence)

\* The orders of the rule, as sets of pairs.
ActiveOrder == {p \in Active \X Active : WorstFirst(evidence, p[1], p[2])}
Better(shadows) == {p \in shadows \X shadows :
    Ret(p[2]) < Ret(p[1]) \/ (Ret(p[2]) = Ret(p[1]) /\ p[1] < p[2])}

\* The rule's fold over the actives.
NoPairs(records) == <<>>
Rule == INSTANCE SequenceFolds WITH Op <- Retire, Base <- NoPairs

Order == Sorted(Active, LAMBDA s, t : WorstFirst(evidence, s, t))
Pairs == find_retirements(evidence)

-----------------------------------------------------------------------------
(* The orders                                                              *)

LEMMA SameSets ==
  ASSUME NEW S
  PROVE  (Rule!IsFiniteSet(S) <=> IsFiniteSet(S)) /\ Rule!Cardinality(S) = Cardinality(S)
<1>1. (Rule!IsFiniteSet(S) <=> IsFiniteSet(S))
  BY DEF IsFiniteSet, Rule!IsFiniteSet
<1>2. Rule!Cardinality(S) = Cardinality(S)
  BY DEF Cardinality, Rule!Cardinality
<1> QED
  BY <1>1, <1>2

LEMMA Evidence ==
  ASSUME evidence \in [Strategy -> Record]
  PROVE  /\ Strategy \in SUBSET Nat /\ IsFiniteSet(Strategy) /\ Strategy \in SUBSET Int
         /\ \A s \in Strategy : Ret(s) \in Int
         /\ Active \subseteq Judged(evidence) /\ Shadow \subseteq Judged(evidence)
         /\ Judged(evidence) \subseteq Strategy
         /\ \A s \in Active : s \notin Shadow
         /\ \A S \in SUBSET Strategy : IsFiniteSet(S)
<1>1. IsFiniteSet(Strategy)
  BY RegretAssumption, FS_Interval DEF Strategy
<1>2. \A S \in SUBSET Strategy : IsFiniteSet(S)
  BY <1>1, FS_Subset
<1>3. \A s \in Strategy : Ret(s) \in Int
  BY RegretAssumption DEF Ret, Record
<1>4. Strategy \in SUBSET Nat /\ Strategy \in SUBSET Int
  BY RegretAssumption DEF Strategy
<1> QED
  BY <1>1, <1>2, <1>3, <1>4 DEF Active, Shadow, Actives, Shadows, Judged

\* The symbol of a strategy is first met at a strategy of that symbol.
LEMMA FirstMet ==
  ASSUME evidence \in [Strategy -> Record], NEW s \in Judged(evidence)
  PROVE  First(s) \in Nat /\ First(s) \in Strategy
         /\ \A t \in Judged(evidence) :
               evidence[t].symbol = evidence[s].symbol => First(t) = First(s)
<1> DEFINE same == {t \in Judged(evidence) : evidence[t].symbol = evidence[s].symbol}
<1>1. same \in SUBSET Nat /\ same # {} /\ same \subseteq Strategy
  BY Evidence
<1>2. \E m \in same : \A k \in same : m <= k
  BY <1>1, Rule!Smallest
<1>3. First(s) \in same
  BY <1>2 DEF First, FirstOf
<1>4. ASSUME NEW t \in Judged(evidence), evidence[t].symbol = evidence[s].symbol
      PROVE  First(t) = First(s)
  BY <1>4 DEF First, FirstOf
<1> QED
  BY <1>1, <1>3, <1>4

LEMMA ActivesOrdered ==
  ASSUME evidence \in [Strategy -> Record]
  PROVE  Rule!StrictOrder(Active, ActiveOrder)
<1>1. \A s \in Active : First(s) \in Int /\ Ret(s) \in Int /\ s \in Int
  BY Evidence, FirstMet
<1>2. \A s, t \in Active : <<s, t>> \in ActiveOrder <=>
         \/ First(s) < First(t)
         \/ First(s) = First(t) /\ (Ret(s) < Ret(t) \/ (Ret(s) = Ret(t) /\ s < t))
  BY DEF ActiveOrder, WorstFirst, First, Ret
<1> QED
  BY <1>1, <1>2 DEF Rule!StrictOrder

LEMMA ShadowsOrdered ==
  ASSUME evidence \in [Strategy -> Record], NEW shadows \in SUBSET Shadow, shadows # {}
  PROVE  /\ Best(evidence, shadows) \in shadows
         /\ \A s \in shadows : Ret(s) <= Ret(Best(evidence, shadows))
<1>1. \A s \in shadows : Ret(s) \in Int /\ s \in Int
  BY Evidence
<1>2. Rule!StrictOrder(shadows, Better(shadows))
  BY <1>1 DEF Rule!StrictOrder, Better
<1>3. IsFiniteSet(shadows)
  <2>1. shadows \in SUBSET Strategy
    BY Evidence
  <2> QED
    BY <2>1, Evidence
<1>4. PICK s \in shadows : \A t \in shadows : <<t, s>> \notin Better(shadows)
  <2>1. Rule!IsFiniteSet(shadows)
    BY <1>3, SameSets
  <2>2. \A R : Rule!StrictOrder(shadows, R) =>
          \E x \in shadows : \A y \in shadows : <<y, x>> \notin R
    BY <2>1, Rule!FirstExists
  <2> QED
    BY <1>2, <2>2
<1>5. \A t \in shadows : Ret(t) < Ret(s) \/ (Ret(t) = Ret(s) /\ s <= t)
  <2>1. \A t \in shadows : ~(Ret(s) < Ret(t) \/ (Ret(t) = Ret(s) /\ t < s))
    BY <1>4 DEF Better
  <2>2. s \in Int /\ Ret(s) \in Int /\ \A t \in shadows : t \in Int /\ Ret(t) \in Int
    BY <1>1
  <2> QED
    BY ONLY <2>1, <2>2
<1>6. \E x \in shadows : \A t \in shadows :
         evidence[t].ret < evidence[x].ret \/ (evidence[t].ret = evidence[x].ret /\ x <= t)
  BY <1>5 DEF Ret
<1>7. /\ Best(evidence, shadows) \in shadows
      /\ \A t \in shadows : \/ Ret(t) < Ret(Best(evidence, shadows))
                            \/ Ret(t) = Ret(Best(evidence, shadows))
  BY <1>6, Zenon DEF Best, Ret
<1> QED
  BY <1>1, <1>7

\* The actives in their order: each once, the worst of a symbol before the others.
LEMMA OrderOfActives ==
  ASSUME evidence \in [Strategy -> Record]
  PROVE  LET n == Cardinality(Active)
         IN  /\ n \in Nat /\ DOMAIN Order = 1..n
             /\ \A k \in 1..n : Order[k] \in Active
             /\ \A a \in Active : \E k \in 1..n : Order[k] = a
             /\ \A j, k \in 1..n : j < k =>
                   /\ Order[j] # Order[k]
                   /\ evidence[Order[j]].symbol = evidence[Order[k]].symbol
                        => Ret(Order[j]) <= Ret(Order[k])
<1> DEFINE n == Cardinality(Active)
           Before(x) == {y \in Active : WorstFirst(evidence, y, x)}
<1>1. IsFiniteSet(Active) /\ Rule!StrictOrder(Active, ActiveOrder)
  <2>1. Active \in SUBSET Strategy
    BY Evidence
  <2> QED
    BY <2>1, Evidence, ActivesOrdered
<1>2. \A x \in Active : Rule!Below(Active, ActiveOrder, x) = Before(x)
  BY DEF Rule!Below, ActiveOrder
<1>3. /\ n \in Nat
      /\ \A k \in 1..n : \E x \in Active : Cardinality(Before(x)) = k - 1
  <2>1. Rule!IsFiniteSet(Active)
    BY <1>1, SameSets
  <2>2. \A R : Rule!StrictOrder(Active, R) =>
          /\ Rule!Cardinality(Active) \in Nat
          /\ \A k \in 1..Rule!Cardinality(Active) : \E x \in Active :
                Rule!Cardinality(Rule!Below(Active, R, x)) = k - 1
    BY <2>1, Rule!RanksTaken
  <2>3. /\ n \in Nat
        /\ \A k \in 1..n : \E x \in Active :
              Cardinality(Rule!Below(Active, ActiveOrder, x)) = k - 1
    BY <1>1, <2>2, SameSets
  <2> HIDE DEF n, Before
  <2> QED
    BY <1>2, <2>3
<1>4. Order = [k \in 1..n |-> CHOOSE x \in Active : Cardinality(Before(x)) = k - 1]
  BY DEF Order, Sorted
<1>5. \A k \in 1..n : Order[k] \in Active /\ Cardinality(Before(Order[k])) = k - 1
  <2> HIDE DEF Before
  <2> QED
    BY <1>3, <1>4
<1>6. \A k \in 1..n :
         /\ Order[k] \in Active
         /\ Cardinality(Rule!Below(Active, ActiveOrder, Order[k])) = k - 1
  <2> HIDE DEF Before
  <2> QED
    BY <1>2, <1>5
<1>7. /\ \A a \in Active : \E k \in 1..n : Order[k] = a
      /\ \A j, k \in 1..n : j < k => <<Order[j], Order[k]>> \in ActiveOrder
  BY <1>1, <1>6, SameSets, Rule!RankedSequence
<1>8. ASSUME NEW s \in Active, NEW t \in Active, <<s, t>> \in ActiveOrder
      PROVE  /\ s # t
             /\ evidence[s].symbol = evidence[t].symbol => Ret(s) <= Ret(t)
  <2>1. /\ First(s) \in Int /\ First(t) \in Int /\ Ret(s) \in Int /\ Ret(t) \in Int
        /\ s \in Int /\ t \in Int
        /\ evidence[s].symbol = evidence[t].symbol => First(s) = First(t)
    BY Evidence, FirstMet
  <2>2. \/ First(s) < First(t)
        \/ First(s) = First(t) /\ (Ret(s) < Ret(t) \/ (Ret(s) = Ret(t) /\ s < t))
    BY <1>8 DEF ActiveOrder, WorstFirst, First, Ret
  <2> QED
    BY <2>1, <2>2
<1>9. DOMAIN Order = 1..n
  BY <1>4
<1> QED
  BY <1>3, <1>6, <1>7, <1>8, <1>9

-----------------------------------------------------------------------------
(* What the rule returns                                                   *)

\* The pairs found when the actives in the set judged have had their turn.
Matched(pairs, judged) ==
    /\ pairs \in Seq(judged \X Shadow)
    /\ \A k \in DOMAIN pairs : Beats(evidence, pairs[k][2], pairs[k][1])
    /\ \A j, k \in DOMAIN pairs :
          j # k => pairs[j][1] # pairs[k][1] /\ pairs[j][2] # pairs[k][2]
    /\ \A a \in judged, s \in Shadow : Beats(evidence, s, a) =>
          \/ \E k \in DOMAIN pairs : pairs[k][1] = a /\ Ret(s) <= Ret(pairs[k][2])
          \/ \E k \in DOMAIN pairs : pairs[k][2] = s /\ Ret(pairs[k][1]) <= Ret(a)

\* A shadow that an earlier active claimed is of the symbol of every active it
\* beats, and the earlier active of that symbol is the worse.
LEMMA ClaimedByWorse ==
  ASSUME NEW judged \in SUBSET Active, NEW a \in Active,
         \A x \in judged : evidence[x].symbol = evidence[a].symbol => Ret(x) <= Ret(a),
         NEW pairs, Matched(pairs, judged),
         NEW s \in Shadow, Beats(evidence, s, a),
         NEW k \in DOMAIN pairs, pairs[k][2] = s
  PROVE  Ret(pairs[k][1]) <= Ret(a)
<1>1. pairs[k][1] \in judged
  BY LenProperties, ElementOfSeq DEF Matched
<1>2. evidence[pairs[k][1]].symbol = evidence[a].symbol
  BY DEF Matched, Beats
<1> QED
  BY <1>1, <1>2

LEMMA RetireMatches ==
  ASSUME evidence \in [Strategy -> Record],
         NEW judged \in SUBSET Active, NEW a \in Active \ judged,
         \A x \in judged : evidence[x].symbol = evidence[a].symbol => Ret(x) <= Ret(a),
         NEW pairs, Matched(pairs, judged)
  PROVE  Matched(Retire(evidence, pairs, a), judged \cup {a})
<1> DEFINE beaten_by == {s \in Shadow : /\ Beats(evidence, s, a)
                                        /\ \A p \in ToSet(pairs) : p[2] # s}
           all == judged \cup {a}
<1>1. Retire(evidence, pairs, a) = IF beaten_by = {} THEN pairs
                           ELSE Append(pairs, <<a, Best(evidence, beaten_by)>>)
  BY DEF Retire, Shadow
<1>2. pairs \in Seq(judged \X Shadow) /\ pairs \in Seq(all \X Shadow)
  <2>1. judged \X Shadow \in SUBSET (all \X Shadow)
    OBVIOUS
  <2> QED
    BY <2>1 DEF Matched
<1>3. \A s \in Shadow : s \in beaten_by <=>
         Beats(evidence, s, a) /\ \A k \in DOMAIN pairs : pairs[k][2] # s
  BY DEF ToSet
<1>4. ASSUME NEW s \in Shadow, Beats(evidence, s, a), s \notin beaten_by
      PROVE  \E k \in DOMAIN pairs : pairs[k][2] = s /\ Ret(pairs[k][1]) <= Ret(a)
  BY <1>3, <1>4, ClaimedByWorse
<1> HIDE DEF beaten_by
<1>5. CASE beaten_by = {}
  <2>1. Retire(evidence, pairs, a) = pairs
    BY <1>1, <1>5
  <2>2. \A x \in all, s \in Shadow : Beats(evidence, s, x) =>
          \/ \E k \in DOMAIN pairs : pairs[k][1] = x /\ Ret(s) <= Ret(pairs[k][2])
          \/ \E k \in DOMAIN pairs : pairs[k][2] = s /\ Ret(pairs[k][1]) <= Ret(x)
    BY <1>4, <1>5 DEF Matched
  <2> QED
    BY <1>2, <2>1, <2>2 DEF Matched
<1>6. CASE beaten_by # {}
  <2> DEFINE best == Best(evidence, beaten_by)
             new == Append(pairs, <<a, best>>)
             n == Len(pairs)
  <2>1. best \in beaten_by /\ \A s \in beaten_by : Ret(s) <= Ret(best)
    <3>1. beaten_by \in SUBSET Shadow
      BY DEF beaten_by
    <3> QED
      BY <1>6, <3>1, ShadowsOrdered
  <2>2. best \in Shadow /\ Beats(evidence, best, a) /\ \A k \in DOMAIN pairs : pairs[k][2] # best
    BY <1>3, <2>1 DEF beaten_by
  <2> HIDE DEF best
  <2>3. <<a, best>> \in all \X Shadow
    BY <2>2
  <2>4. /\ n \in Nat /\ DOMAIN pairs = 1..n /\ DOMAIN new = 1..(n + 1)
        /\ new \in Seq(all \X Shadow)
        /\ new[n + 1] = <<a, best>> /\ \A k \in 1..n : new[k] = pairs[k]
    BY <1>2, <2>3, AppendProperties, LenProperties
  <2> HIDE DEF new, n
  <2>5. \A k \in 1..n : pairs[k][1] \in judged
    BY <1>2, <2>4, LenProperties, ElementOfSeq DEF n
  <2>6. /\ \A k \in 1..n : k \in 1..(n + 1) /\ k # n + 1
        /\ \A k \in 1..(n + 1) : k \in 1..n \/ k = n + 1
        /\ n + 1 \in 1..(n + 1)
    BY <2>4
  <2>7. \A k \in DOMAIN new : Beats(evidence, new[k][2], new[k][1])
    BY <2>2, <2>4, <2>6 DEF Matched
  <2>8. ASSUME NEW j \in DOMAIN new, NEW k \in DOMAIN new, j # k
        PROVE  new[j][1] # new[k][1] /\ new[j][2] # new[k][2]
    <3>1. CASE j \in 1..n /\ k \in 1..n
      BY <2>4, <2>8, <3>1 DEF Matched
    <3>2. CASE j \in 1..n /\ k = n + 1
      BY <2>2, <2>4, <2>5, <3>2
    <3>3. CASE j = n + 1 /\ k \in 1..n
      BY <2>2, <2>4, <2>5, <3>3
    <3> QED
      BY <2>4, <2>6, <2>8, <3>1, <3>2, <3>3
  <2>9. ASSUME NEW x \in all, NEW s \in Shadow, Beats(evidence, s, x)
        PROVE  \/ \E k \in DOMAIN new : new[k][1] = x /\ Ret(s) <= Ret(new[k][2])
               \/ \E k \in DOMAIN new : new[k][2] = s /\ Ret(new[k][1]) <= Ret(x)
    <3>1. CASE x \in judged
      <4>1. \/ \E k \in 1..n : pairs[k][1] = x /\ Ret(s) <= Ret(pairs[k][2])
            \/ \E k \in 1..n : pairs[k][2] = s /\ Ret(pairs[k][1]) <= Ret(x)
        BY <2>4, <2>9, <3>1 DEF Matched
      <4> QED
        BY <2>4, <2>6, <4>1
    <3>2. CASE x = a /\ s \in beaten_by
      <4>1. new[n + 1][1] = x /\ Ret(s) <= Ret(new[n + 1][2])
        BY <2>1, <2>4, <3>2
      <4> QED
        BY <2>4, <2>6, <4>1
    <3>3. CASE x = a /\ s \notin beaten_by
      <4>1. \E k \in 1..n : pairs[k][2] = s /\ Ret(pairs[k][1]) <= Ret(x)
        BY <1>4, <2>4, <2>9, <3>3
      <4> QED
        BY <2>4, <2>6, <4>1
    <3> QED
      BY <3>1, <3>2, <3>3
  <2>10. Retire(evidence, pairs, a) = new
    BY <1>1, <1>6 DEF new, best
  <2>11. Matched(new, all)
    <3>1. \A j, k \in DOMAIN new :
            j # k => new[j][1] # new[k][1] /\ new[j][2] # new[k][2]
      BY <2>8
    <3>2. \A x \in all, s \in Shadow : Beats(evidence, s, x) =>
            \/ \E k \in DOMAIN new : new[k][1] = x /\ Ret(s) <= Ret(new[k][2])
            \/ \E k \in DOMAIN new : new[k][2] = s /\ Ret(new[k][1]) <= Ret(x)
      BY <2>9
    <3> QED
      BY ONLY <2>4, <2>7, <3>1, <3>2, Zenon DEF Matched
  <2> QED
    BY <2>10, <2>11
<1> QED
  BY <1>5, <1>6

LEMMA PairsFolded == Pairs = Rule!Folded(evidence, Order)
  BY DEF Pairs, find_retirements, Order, Active, NoPairs, Rule!Folded, Rule!FoldLeft, FoldLeft,
         Rule!MapThenFoldSet, MapThenFoldSet, Rule!Max, Max

\* The rule returns distinct actives with distinct shadows that beat them, and where
\* it passes over a shadow that beats an active there is a reason.
LEMMA PairsMatched ==
  ASSUME evidence \in [Strategy -> Record] PROVE Matched(Pairs, Active)
<1> DEFINE n == Cardinality(Active)
           turns(i) == {Order[k] : k \in 1..i}
<1>1. /\ n \in Nat /\ DOMAIN Order = 1..n
      /\ \A k \in 1..n : Order[k] \in Active
      /\ \A a \in Active : \E k \in 1..n : Order[k] = a
      /\ \A j, k \in 1..n : j < k =>
            /\ Order[j] # Order[k]
            /\ evidence[Order[j]].symbol = evidence[Order[k]].symbol
                 => Ret(Order[j]) <= Ret(Order[k])
  BY OrderOfActives
<1> HIDE DEF n
<1>2. PICK run : Rule!IsRun(run, evidence, Order, n) /\ Pairs = run[n]
  BY <1>1, PairsFolded, Rule!FoldRun
<1>3. run[0] = <<>> /\ \A i \in 1..n : run[i] = Retire(evidence, run[i - 1], Order[i])
  BY <1>2 DEF Rule!IsRun, NoPairs
<1> DEFINE S == {i \in Nat : i <= n => Matched(run[i], turns(i))}
<1>4. 0 \in S
  <2>1. turns(0) = {}
    OBVIOUS
  <2>2. <<>> \in Seq({} \X Shadow) /\ DOMAIN <<>> = {}
    BY EmptySeq
  <2>3. Matched(<<>>, {})
    BY <2>2 DEF Matched
  <2> QED
    BY <1>3, <2>1, <2>3
<1>5. ASSUME NEW i \in Nat, i \in S PROVE i + 1 \in S
  <2> SUFFICES ASSUME i + 1 <= n PROVE Matched(run[i + 1], turns(i + 1))
    OBVIOUS
  <2>1. /\ i + 1 \in 1..n /\ (i + 1) - 1 = i
        /\ \A k \in 1..i : k \in 1..n /\ k < i + 1
        /\ \A k \in 1..(i + 1) : k \in 1..i \/ k = i + 1
        /\ i + 1 \in 1..(i + 1) /\ \A k \in 1..i : k \in 1..(i + 1)
    <3>1. n \in Nat /\ i \in Nat /\ i + 1 <= n
      BY <1>1
    <3> QED
      BY ONLY <3>1
  <2>2. Matched(run[i], turns(i))
    <3>1. i <= n
      BY <1>1
    <3>2. i <= n => Matched(run[i], turns(i))
      BY <1>5, Zenon
    <3> QED
      BY <3>1, <3>2
  <2>3. turns(i) \in SUBSET Active /\ Order[i + 1] \in Active \ turns(i)
    BY <1>1, <2>1
  <2>4. \A x \in turns(i) : evidence[x].symbol = evidence[Order[i + 1]].symbol
                              => Ret(x) <= Ret(Order[i + 1])
    BY <1>1, <2>1
  <2>5. turns(i + 1) = turns(i) \cup {Order[i + 1]}
    BY <2>1
  <2> HIDE DEF turns
  <2>6. Matched(Retire(evidence, run[i], Order[i + 1]), turns(i) \cup {Order[i + 1]})
    BY <2>2, <2>3, <2>4, RetireMatches
  <2> QED
    BY <1>3, <2>1, <2>5, <2>6
<1> HIDE DEF S
<1>6. Nat \subseteq S
  BY <1>4, <1>5, Rule!Induction
<1>7. Matched(run[n], turns(n))
  <2>1. n \in S /\ n <= n
    BY <1>1, <1>6
  <2> QED
    BY <2>1 DEF S
<1>8. turns(n) = Active
  BY <1>1
<1> QED
  BY <1>2, <1>7, <1>8

-----------------------------------------------------------------------------
(* The passes                                                              *)

PassRecord == [done : BOOLEAN, decisions : [Strategy -> {"none", "promoted", "rejected"}],
               retired : SUBSET Strategy, sold : [Strategy -> Replies],
               postmortems : SUBSET (Strategy \X Strategy)]

\* The first k verdicts, and the actives they retire.
Verdicts(k) == {Pairs[j] : j \in 1..k}
Losers(k) == {Pairs[j][1] : j \in 1..k}

\* What the strategy holds or has a buy for, if anything, escaped a close.
Ended(s) == position[s] \in {"working", "shares"} => s \in escaped

\* So it was left, or the pass recorded a failed close, or took it for flat.
Settled(pass, s) == pass.sold[s] = "error" \/ row[s] # "accepted" \/ Ended(s)

JudgedTo(pass, n) ==
    \A s \in Judged(evidence) : s <= n => pass.decisions[s] = evidence[s].decision

\* A pass has carried out m verdicts to the end, and has the decision rows of r.
Reached(pass, m, r) ==
    /\ pass.postmortems = Verdicts(m) /\ pass.retired = Losers(r)
    /\ \A k \in 1..m :
          /\ status[Pairs[k][1]] = "retired" /\ status[Pairs[k][2]] = "active"
          /\ Settled(pass, Pairs[k][1])

PassInv(pass) ==
    /\ \E m, r \in 0..Len(Pairs) : r \in {m, m + 1} /\ Reached(pass, m, r)
    /\ pass.done => Reached(pass, Len(Pairs), Len(Pairs)) /\ JudgedTo(pass, N)

Explained == Len(Pairs) - Len(todo)
Decided == pc \in {"close", "sell", "explain"}
Owing == pc \in {"retire", "promote", "decide", "close", "sell", "explain"}

\* The running pass has the verdicts that it still owes in todo.
AtWork ==
    /\ pc # "judge" => seen = 0
    /\ pc = "idle" => todo = <<>>
    /\ pc # "idle" => passes # <<>> /\ ~Pass.done
    /\ pc = "judge" => todo = <<>> /\ Reached(Pass, 0, 0) /\ JudgedTo(Pass, seen)
    /\ pc = "finish" => todo = <<>> /\ Reached(Pass, Len(Pairs), Len(Pairs)) /\ JudgedTo(Pass, N)
    /\ Owing =>
          /\ todo # <<>> /\ Len(todo) <= Len(Pairs)
          /\ \A k \in 1..Len(todo) : todo[k] = Pairs[Explained + k]
          /\ JudgedTo(Pass, N)
          /\ Reached(Pass, Explained, IF Decided THEN Explained + 1 ELSE Explained)
          /\ pc # "retire" => status[Retired] = "retired"
          /\ pc \notin {"retire", "promote"} => status[Winner] = "active"
          /\ pc = "sell" => reply = "error" \/ Ended(Retired)
          /\ pc = "explain" => Settled(Pass, Retired)

Typed ==
    /\ evidence \in [Strategy -> Record]
    /\ status \in [Strategy -> {"active", "rejected", "retired"}]
    /\ row \in [Strategy -> Rows] /\ position \in [Strategy -> Positions]
    /\ escaped \subseteq Strategy
    /\ passes \in Seq(PassRecord) /\ Len(passes) <= MaxPasses
    /\ pc \in {"idle", "judge", "retire", "promote", "decide", "close", "sell", "explain",
               "finish"}
    /\ todo \in Seq(Strategy \X Strategy)
    /\ seen \in 0..N /\ reply \in Replies

RegretInv ==
    /\ Typed
    /\ \A i \in DOMAIN passes : PassInv(passes[i])
    /\ AtWork

\* What no step undoes: the statuses that verdicts have set, and ended positions.
Kept ==
    /\ evidence' = evidence /\ row' = row
    /\ \A k \in 1..Len(Pairs) :
          /\ status[Pairs[k][1]] = "retired" => status'[Pairs[k][1]] = "retired"
          /\ status[Pairs[k][2]] = "active" => status'[Pairs[k][2]] = "active"
    /\ \A s \in Strategy : Ended(s) => Ended(s)'

LEMMA PairFacts ==
  ASSUME evidence \in [Strategy -> Record]
  PROVE  /\ Len(Pairs) \in Nat /\ DOMAIN Pairs = 1..Len(Pairs)
         /\ Pairs \in Seq(Strategy \X Strategy)
         /\ \A k \in 1..Len(Pairs) :
               /\ Pairs[k] \in Strategy \X Strategy
               /\ Pairs[k][1] \in Active /\ Pairs[k][1] \in Strategy
               /\ Pairs[k][2] \in Shadow /\ Pairs[k][2] \in Strategy
               /\ Beats(evidence, Pairs[k][2], Pairs[k][1])
         /\ \A j, k \in 1..Len(Pairs) :
               /\ j # k => Pairs[j][1] # Pairs[k][1] /\ Pairs[j][2] # Pairs[k][2]
               /\ Pairs[j][1] # Pairs[k][2]
<1>1. Matched(Pairs, Active)
  BY PairsMatched
<1>2. /\ Len(Pairs) \in Nat /\ DOMAIN Pairs = 1..Len(Pairs)
      /\ \A k \in 1..Len(Pairs) : Pairs[k] \in Active \X Shadow
  BY <1>1, LenProperties, ElementOfSeq DEF Matched
<1>3. Active \X Shadow \in SUBSET (Strategy \X Strategy) /\ \A s \in Active : s \notin Shadow
  BY Evidence
<1>4. Pairs \in Seq(Strategy \X Strategy)
  BY <1>1, <1>3 DEF Matched
<1>5. \A k \in 1..Len(Pairs) :
        /\ Pairs[k] \in Strategy \X Strategy
        /\ Pairs[k][1] \in Active /\ Pairs[k][1] \in Strategy
        /\ Pairs[k][2] \in Shadow /\ Pairs[k][2] \in Strategy
  BY <1>2, <1>3
<1>6. /\ \A k \in 1..Len(Pairs) : Beats(evidence, Pairs[k][2], Pairs[k][1])
      /\ \A j, k \in 1..Len(Pairs) :
            j # k => Pairs[j][1] # Pairs[k][1] /\ Pairs[j][2] # Pairs[k][2]
  BY <1>1, <1>2 DEF Matched
<1>7. \A j, k \in 1..Len(Pairs) : Pairs[j][1] # Pairs[k][2]
  BY <1>3, <1>5
<1> QED
  BY <1>2, <1>4, <1>5, <1>6, <1>7

LEMMA ReachedKept ==
  ASSUME Typed, Kept, NEW pass, NEW m \in 0..Len(Pairs), NEW r, Reached(pass, m, r)
  PROVE  Reached(pass, m, r)'
<1>1. Pairs' = Pairs
  BY DEF Kept, Pairs
<1>2. \A k \in 1..m : k \in 1..Len(Pairs)
  BY PairFacts DEF Typed
<1>3. ASSUME NEW s \in Strategy, Settled(pass, s) PROVE Settled(pass, s)'
  BY <1>3 DEF Kept, Settled
<1>4. \A k \in 1..m : /\ status'[Pairs[k][1]] = "retired" /\ status'[Pairs[k][2]] = "active"
                      /\ Pairs[k][1] \in Strategy /\ Settled(pass, Pairs[k][1])
  BY <1>2, PairFacts DEF Kept, Reached, Typed
<1>5. \A k \in 1..m : Settled(pass, Pairs[k][1])'
  <2> SUFFICES ASSUME NEW k \in 1..m PROVE Settled(pass, Pairs[k][1])'
    OBVIOUS
  <2>1. PICK s \in Strategy : s = Pairs[k][1]
    BY <1>4
  <2>2. Settled(pass, s)'
    BY <1>3, <1>4, <2>1
  <2> QED
    BY <1>1, <2>1, <2>2 DEF Settled, Ended
<1> QED
  BY <1>1, <1>4, <1>5 DEF Reached, Verdicts, Losers

LEMMA PassKept ==
  ASSUME Typed, Kept, NEW pass, PassInv(pass)
  PROVE  PassInv(pass)'
<1>1. Pairs' = Pairs /\ evidence' = evidence
  BY DEF Kept, Pairs
<1>2. PICK m \in 0..Len(Pairs), r \in 0..Len(Pairs) : r \in {m, m + 1} /\ Reached(pass, m, r)
  BY DEF PassInv
<1>3. Reached(pass, m, r)'
  BY <1>2, ReachedKept
<1>4. pass.done => Reached(pass, Len(Pairs), Len(Pairs))'
  <2>1. PICK n \in 0..Len(Pairs) : n = Len(Pairs)
    BY PairFacts DEF Typed
  <2>2. pass.done => Reached(pass, n, n)'
    BY <2>1, ReachedKept DEF PassInv
  <2> QED
    BY <1>1, <2>1, <2>2
<1>5. pass.done => JudgedTo(pass, N)'
  BY <1>1 DEF PassInv, JudgedTo
<1> QED
  BY <1>1, <1>2, <1>3, <1>4, <1>5 DEF PassInv

\* A step that writes no pass.
LEMMA PassesSame ==
  ASSUME RegretInv, Kept, passes' = passes
  PROVE  /\ passes' \in Seq(PassRecord) /\ Len(passes') <= MaxPasses /\ Pass' = Pass
         /\ \A i \in DOMAIN passes' : PassInv(passes[i])'
<1>1. \A i \in DOMAIN passes : PassInv(passes[i])'
  BY PassKept DEF RegretInv
<1> QED
  BY <1>1 DEF RegretInv, Typed, Pass

\* A step that writes to the running pass.
LEMMA PassesWritten ==
  ASSUME RegretInv, Kept, passes # <<>>, NEW new \in PassRecord,
         passes' = [passes EXCEPT ![Len(passes)] = new], PassInv(new)'
  PROVE  /\ passes' \in Seq(PassRecord) /\ Len(passes') <= MaxPasses
         /\ Pass' = new /\ passes' # <<>>
         /\ \A i \in DOMAIN passes' : PassInv(passes[i])'
<1>1. passes \in Seq(PassRecord) /\ Len(passes) <= MaxPasses
  BY DEF RegretInv, Typed
<1>2. Len(passes) \in Nat /\ DOMAIN passes = 1..Len(passes) /\ Len(passes) \in 1..Len(passes)
  BY <1>1, LenProperties, EmptySeq
<1>3. /\ passes' \in Seq(PassRecord) /\ DOMAIN passes' = DOMAIN passes
      /\ Len(passes') = Len(passes) /\ passes'[Len(passes)] = new
      /\ \A i \in DOMAIN passes \ {Len(passes)} : passes'[i] = passes[i]
  BY <1>1, <1>2, LenProperties, ExceptSeq
<1>4. \A i \in DOMAIN passes : PassInv(passes[i])'
  BY <1>3, PassKept DEF RegretInv
<1>5. passes' # <<>>
  BY <1>2, <1>3, EmptySeq
<1> QED
  BY <1>1, <1>3, <1>4, <1>5 DEF Pass

-----------------------------------------------------------------------------
(* The steps of a pass                                                     *)

LEMMA EmptyPassTyped ==
  ASSUME Typed
  PROVE  /\ EmptyPass \in PassRecord /\ EmptyPass.done = FALSE
         /\ EmptyPass.postmortems = {} /\ EmptyPass.retired = {}
  BY DEF EmptyPass, PassRecord, Replies

LEMMA CurrentPass ==
  ASSUME RegretInv, pc # "idle"
  PROVE  passes # <<>> /\ Pass \in PassRecord /\ Len(passes) \in DOMAIN passes
         /\ ~Pass.done
<1>1. passes \in Seq(PassRecord) /\ passes # <<>> /\ ~Pass.done
  BY DEF RegretInv, Typed, AtWork
<1>2. Len(passes) \in 1..Len(passes)
  BY <1>1, EmptySeq
<1> QED
  BY <1>1, <1>2, LenProperties, ElementOfSeq DEF Pass

LEMMA Unreached ==
  ASSUME NEW pass, pass.postmortems = {}, pass.retired = {}
  PROVE  Reached(pass, 0, 0)
<1>1. 1..0 = {}
  OBVIOUS
<1> QED
  BY <1>1 DEF Reached, Verdicts, Losers

LEMMA StartKeeps == ASSUME RegretInv, start_run PROVE RegretInv'
<1>1. /\ Typed /\ passes' = Append(passes, EmptyPass) /\ pc' = "judge" /\ todo = <<>> /\ seen = 0
      /\ UNCHANGED <<status, account, seen, todo, reply, facts>>
      /\ Len(passes) < MaxPasses
  BY DEF start_run, RegretInv, AtWork
<1>2. Kept /\ Pairs' = Pairs
  BY <1>1 DEF Kept, Pairs, Ended, account, facts
<1>3. /\ EmptyPass \in PassRecord /\ EmptyPass.done = FALSE
      /\ EmptyPass.postmortems = {} /\ EmptyPass.retired = {}
  BY <1>1, EmptyPassTyped
<1>4. /\ passes' \in Seq(PassRecord) /\ Len(passes') = Len(passes) + 1 /\ Len(passes) \in Nat
      /\ DOMAIN passes' = 1..(Len(passes) + 1) /\ DOMAIN passes = 1..Len(passes)
      /\ passes'[Len(passes) + 1] = EmptyPass
      /\ \A i \in 1..Len(passes) : passes'[i] = passes[i]
  <2>1. passes \in Seq(PassRecord)
    BY <1>1 DEF Typed
  <2> QED
    BY <1>1, <1>3, <2>1, AppendProperties, LenProperties
<1>5. Typed'
  <2>1. Len(passes') <= MaxPasses
    BY <1>1, <1>4, RegretAssumption
  <2> QED
    BY <1>1, <1>4, <2>1 DEF Typed, account, facts
<1>6. Reached(EmptyPass, 0, 0)'
  <2>1. 1..0 = {}
    OBVIOUS
  <2> QED
    BY <1>3, <2>1 DEF Reached, Verdicts, Losers, EmptyPass
<1>7. PassInv(EmptyPass)'
  <2>1. 0 \in 0..Len(Pairs')
    BY <1>1, <1>2, PairFacts DEF Typed
  <2>2. EmptyPass' = EmptyPass
    BY DEF EmptyPass
  <2> QED
    BY <1>3, <1>6, <2>1, <2>2 DEF PassInv
<1>8. \A i \in DOMAIN passes' : PassInv(passes[i])'
  <2>1. \A i \in DOMAIN passes : PassInv(passes[i])'
    BY <1>1, <1>2, <1>4, PassKept DEF RegretInv
  <2>2. ASSUME NEW i \in DOMAIN passes', i = Len(passes) + 1 PROVE PassInv(passes[i])'
    BY <1>4, <1>7, <2>2
  <2>3. \A i \in DOMAIN passes' : i \in DOMAIN passes \/ i = Len(passes) + 1
    BY <1>4
  <2> QED
    BY <2>1, <2>2, <2>3
<1>9. AtWork'
  <2>1. Pass' = EmptyPass
    BY <1>4 DEF Pass
  <2>2. JudgedTo(EmptyPass, 0)'
    BY RegretAssumption DEF JudgedTo, Judged, Strategy
  <2>3. passes' # <<>>
    <3>1. Len(passes') # 0 /\ Len(<<>>) = 0
      BY <1>4
    <3> QED
      BY <3>1
  <2>4. Reached(Pass, 0, 0)' /\ ~Pass'.done
    BY <1>3, <1>6, <2>1
  <2>5. JudgedTo(Pass, seen)'
    BY <1>1, <2>1, <2>2
  <2> QED
    BY <1>1, <2>3, <2>4, <2>5 DEF AtWork, Owing
<1> QED
  BY <1>1, <1>5, <1>8, <1>9 DEF RegretInv

LEMMA JudgeKeeps == ASSUME RegretInv, Judge PROVE RegretInv'
<1> DEFINE d == evidence[seen + 1].decision
           new == IF d = "skipped" THEN Pass
                  ELSE [Pass EXCEPT !.decisions[seen + 1] = d]
<1>1. /\ Typed /\ pc = "judge" /\ seen < N /\ seen' = seen + 1 /\ todo = <<>>
      /\ UNCHANGED <<status, account, pc, todo, reply, facts>>
      /\ Reached(Pass, 0, 0) /\ JudgedTo(Pass, seen)
  BY DEF Judge, RegretInv, AtWork
<1>2. passes # <<>> /\ Pass \in PassRecord /\ ~Pass.done
  BY <1>1, CurrentPass
<1>3. Kept /\ Pairs' = Pairs
  BY <1>1 DEF Kept, Pairs, Ended, account, facts
<1>4. seen + 1 \in Strategy /\ seen + 1 \in 0..N
  BY <1>1, RegretAssumption DEF Typed, Strategy
<1>5. d \in {"promoted", "rejected", "skipped"}
  BY <1>1, <1>4 DEF Typed, Record
<1>6. passes' = [passes EXCEPT ![Len(passes)] = new]
  <2>1. CASE d = "skipped"
    <3>1. passes' = passes /\ new = Pass
      BY <1>1, <2>1 DEF Judge
    <3>2. passes = [passes EXCEPT ![Len(passes)] = passes[Len(passes)]]
      BY <1>1 DEF Typed
    <3> QED
      BY <3>1, <3>2 DEF Pass
  <2>2. CASE d # "skipped"
    BY <1>1, <2>2 DEF Judge, Pass
  <2> QED
    BY <2>1, <2>2
<1>7. /\ new \in PassRecord /\ new.done = FALSE /\ new.retired = Pass.retired
      /\ new.postmortems = Pass.postmortems
      /\ d # "skipped" => new.decisions[seen + 1] = d
      /\ \A s \in Strategy \ {seen + 1} : new.decisions[s] = Pass.decisions[s]
  BY <1>2, <1>4, <1>5 DEF PassRecord
<1> HIDE DEF new, d
<1>8. new.postmortems = {} /\ new.retired = {}
  <2>1. 1..0 = {}
    OBVIOUS
  <2> QED
    BY <1>1, <1>7, <2>1 DEF Reached, Verdicts, Losers
<1>9. Reached(new, 0, 0)
  BY <1>8, Unreached
<1>10. JudgedTo(new, seen + 1)
  <2> SUFFICES ASSUME NEW s \in Judged(evidence), s <= seen + 1
               PROVE  new.decisions[s] = evidence[s].decision
    BY DEF JudgedTo
  <2>1. s \in Strategy /\ s \in Int /\ seen \in Int /\ evidence[s].decision # "skipped"
    BY <1>1, RegretAssumption DEF Judged, Strategy, Typed
  <2>2. CASE s = seen + 1
    BY <1>7, <2>1, <2>2 DEF d
  <2>3. CASE s # seen + 1
    <3>1. s <= seen
      BY <2>1, <2>3
    <3> QED
      BY <1>1, <1>7, <2>1, <2>3, <3>1 DEF JudgedTo
  <2> QED
    BY <2>2, <2>3
<1>11. PassInv(new)
  <2>1. 0 \in 0..Len(Pairs)
    BY <1>1, PairFacts DEF Typed
  <2> QED
    BY <1>7, <1>9, <2>1 DEF PassInv
<1>12. PICK pass : pass = new
  OBVIOUS
<1>13. PassInv(pass)' /\ Reached(pass, 0, 0)'
  <2>1. 0 \in 0..Len(Pairs)
    BY <1>1, PairFacts DEF Typed
  <2> QED
    BY <1>1, <1>3, <1>9, <1>11, <1>12, <2>1, PassKept, ReachedKept
<1>14. JudgedTo(pass, seen)'
  BY <1>1, <1>10, <1>12 DEF JudgedTo, facts
<1>15. /\ passes' \in Seq(PassRecord) /\ Len(passes') <= MaxPasses
       /\ Pass' = pass /\ passes' # <<>>
       /\ \A i \in DOMAIN passes' : PassInv(passes[i])'
  BY <1>2, <1>3, <1>6, <1>7, <1>12, <1>13, PassesWritten
<1>16. Typed'
  BY <1>1, <1>4, <1>15 DEF Typed, account, facts
<1>17. AtWork'
  <2>1. Reached(Pass, 0, 0)' /\ JudgedTo(Pass, seen)' /\ ~Pass'.done
    BY <1>7, <1>12, <1>13, <1>14, <1>15
  <2> QED
    BY <1>1, <1>15, <2>1 DEF AtWork, Owing
<1> QED
  BY <1>1, <1>15, <1>16, <1>17 DEF RegretInv

LEMMA FindRetirementsKeeps == ASSUME RegretInv, FindRetirements PROVE RegretInv'
<1>1. /\ Typed /\ pc = "judge" /\ seen = N /\ seen' = 0 /\ todo' = Pairs
      /\ pc' = (IF Pairs = <<>> THEN "finish" ELSE "retire")
      /\ UNCHANGED <<status, account, passes, reply, facts>>
      /\ Reached(Pass, 0, 0) /\ JudgedTo(Pass, N)
  BY DEF FindRetirements, Continue, RegretInv, AtWork, Pairs
<1>2. passes # <<>> /\ Pass \in PassRecord /\ ~Pass.done
  BY <1>1, CurrentPass
<1>3. Kept /\ Pairs' = Pairs
  BY <1>1 DEF Kept, Pairs, Ended, account, facts
<1>4. /\ Len(Pairs) \in Nat /\ Pairs \in Seq(Strategy \X Strategy)
      /\ Pairs = <<>> <=> Len(Pairs) = 0
  <2>1. Len(Pairs) \in Nat /\ Pairs \in Seq(Strategy \X Strategy)
    BY <1>1, PairFacts DEF Typed
  <2> QED
    BY <2>1, EmptySeq
<1>5. /\ passes' \in Seq(PassRecord) /\ Len(passes') <= MaxPasses /\ Pass' = Pass
      /\ \A i \in DOMAIN passes' : PassInv(passes[i])'
  BY <1>1, <1>3, PassesSame
<1>6. PICK pass : pass = Pass
  OBVIOUS
<1>7. Reached(pass, 0, 0)' /\ JudgedTo(pass, N)' /\ Pass' = pass
  <2>1. 0 \in 0..Len(Pairs)
    BY <1>4
  <2>2. JudgedTo(pass, N)'
    BY <1>1, <1>6 DEF JudgedTo, facts
  <2>3. Reached(pass, 0, 0)'
    BY <1>1, <1>3, <1>6, <2>1, ReachedKept
  <2> QED
    BY <1>5, <1>6, <2>2, <2>3
<1>8. Typed'
  <2>1. 0 \in 0..N
    BY RegretAssumption
  <2> QED
    BY <1>1, <1>4, <1>5, <2>1 DEF Typed, account, facts
<1>9. AtWork'
  <2>1. passes' # <<>> /\ ~Pass'.done /\ Reached(Pass, 0, 0)' /\ JudgedTo(Pass, N)'
    BY <1>1, <1>2, <1>5, <1>7
  <2>2. CASE Pairs = <<>>
    <3>1. pc' = "finish" /\ todo' = <<>> /\ Len(Pairs') = 0 /\ ~Owing'
      BY <1>1, <1>3, <1>4, <2>2 DEF Owing
    <3>2. Reached(Pass, Len(Pairs), Len(Pairs))'
      BY <2>1, <3>1
    <3> QED
      BY <1>1, <2>1, <3>1, <3>2 DEF AtWork
  <2>3. CASE Pairs # <<>>
    <3>1. pc' = "retire" /\ Explained' = 0 /\ ~Decided'
      BY <1>1, <1>3, <1>4, <2>3 DEF Explained, Decided
    <3>2. \A k \in 1..Len(todo') : todo'[k] = Pairs'[Explained' + k]
      BY <1>1, <1>3, <3>1
    <3>3. Reached(Pass, Explained, IF Decided THEN Explained + 1 ELSE Explained)'
      BY <2>1, <3>1
    <3>4. todo' # <<>> /\ Len(todo') <= Len(Pairs')
      BY <1>1, <1>3, <1>4, <2>3
    <3> QED
      BY <1>1, <2>1, <3>1, <3>2, <3>3, <3>4 DEF AtWork
  <2> QED
    BY <2>2, <2>3
<1> QED
  BY <1>5, <1>8, <1>9 DEF RegretInv

\* The verdict in hand is the first that the pass still owes.
LEMMA InHand ==
  ASSUME RegretInv, Owing
  PROVE  /\ Explained \in Nat /\ Explained \in 0..Len(Pairs)
         /\ Explained + 1 \in 0..Len(Pairs) /\ Explained + 1 \in 1..Len(Pairs)
         /\ Len(Pairs) = Explained + Len(todo) /\ Len(todo) \in Nat /\ Len(todo) > 0
         /\ Head(todo) = Pairs[Explained + 1] /\ Head(todo) \in Strategy \X Strategy
         /\ Retired = Pairs[Explained + 1][1] /\ Retired \in Strategy
         /\ Winner = Pairs[Explained + 1][2] /\ Winner \in Strategy
         /\ \A k \in 1..Len(Pairs) : Pairs[k][2] # Retired /\ Pairs[k][1] # Winner
         /\ \A k \in 1..Explained : k \in 1..Len(Pairs) /\ Pairs[k][1] # Retired
<1>1. /\ Typed /\ todo # <<>> /\ Len(todo) <= Len(Pairs)
      /\ \A k \in 1..Len(todo) : todo[k] = Pairs[Explained + k]
  BY DEF Owing, RegretInv, AtWork
<1>2. /\ Len(todo) \in Nat /\ Len(todo) > 0 /\ Len(Pairs) \in Nat
      /\ Head(todo) = todo[1]
  <2>1. todo \in Seq(Strategy \X Strategy)
    BY <1>1 DEF Typed
  <2>2. Len(todo) \in Nat \ {0}
    BY <1>1, <2>1, EmptySeq
  <2>3. Head(todo) = todo[1]
    BY <2>1
  <2> QED
    BY <1>1, <2>2, <2>3, PairFacts DEF Typed
<1>3. /\ Explained \in Nat /\ Explained \in 0..Len(Pairs)
      /\ Explained + 1 \in 0..Len(Pairs) /\ Explained + 1 \in 1..Len(Pairs)
      /\ Len(Pairs) = Explained + Len(todo) /\ 1 \in 1..Len(todo)
      /\ \A k \in 1..Explained : k \in 1..Len(Pairs) /\ k # Explained + 1
  BY <1>1, <1>2 DEF Explained
<1>4. Head(todo) = Pairs[Explained + 1]
  BY <1>1, <1>2, <1>3
<1> QED
  BY <1>1, <1>2, <1>3, <1>4, PairFacts DEF Typed, Retired, Winner

\* A step on the verdict in hand, which leaves the later ones as they are.
LEMMA InHandKept ==
  ASSUME RegretInv, Owing, Owing', Kept,
         UNCHANGED <<todo, seen>>,
         status' \in [Strategy -> {"active", "rejected", "retired"}],
         position' \in [Strategy -> Positions], escaped' \subseteq Strategy,
         reply' \in Replies,
         NEW new \in PassRecord, passes' = [passes EXCEPT ![Len(passes)] = new],
         ~new.done, JudgedTo(new, N),
         NEW r, r = (IF Decided' THEN Explained + 1 ELSE Explained), Reached(new, Explained, r),
         pc' # "retire" => status'[Retired] = "retired",
         pc' \notin {"retire", "promote"} => status'[Winner] = "active",
         pc' = "sell" => reply' = "error" \/ Ended(Retired)',
         pc' = "explain" => Settled(new, Retired)'
  PROVE  RegretInv'
<1>1. /\ Typed /\ passes # <<>> /\ todo # <<>> /\ seen = 0 /\ Len(todo) <= Len(Pairs)
      /\ \A k \in 1..Len(todo) : todo[k] = Pairs[Explained + k]
  BY DEF Owing, RegretInv, AtWork
<1>2. Pairs' = Pairs /\ evidence' = evidence /\ row' = row
  BY DEF Kept, Pairs
<1>3. /\ Explained' = Explained /\ Retired' = Retired /\ Winner' = Winner
      /\ Explained \in 0..Len(Pairs) /\ r \in 0..Len(Pairs) /\ r \in {Explained, Explained + 1}
  BY <1>2, InHand DEF Explained, Retired, Winner
<1>4. PassInv(new)
  BY <1>3 DEF PassInv
<1>5. PICK m \in 0..Len(Pairs) : m = Explained
  BY <1>3
<1>6. Reached(new, m, r)' /\ PassInv(new)'
  BY <1>1, <1>4, <1>5, ReachedKept, PassKept
<1>7. /\ passes' \in Seq(PassRecord) /\ Len(passes') <= MaxPasses
      /\ Pass' = new /\ passes' # <<>>
      /\ \A i \in DOMAIN passes' : PassInv(passes[i])'
  BY <1>1, <1>6, PassesWritten
<1>8. Typed'
  BY <1>1, <1>2, <1>7 DEF Typed, Owing
<1>9. AtWork'
  <2>1. Reached(Pass, Explained, IF Decided THEN Explained + 1 ELSE Explained)'
    BY <1>3, <1>5, <1>6, <1>7
  <2>2. JudgedTo(Pass, N)'
    BY <1>2, <1>7 DEF JudgedTo
  <2>3. /\ ~Pass'.done /\ status'[Retired'] = status'[Retired]
        /\ status'[Winner'] = status'[Winner]
    BY <1>3, <1>7
  <2>4. pc' = "explain" => Settled(Pass, Retired)'
    BY <1>7 DEF Settled
  <2>5. /\ todo' # <<>> /\ Len(todo') <= Len(Pairs')
        /\ \A k \in 1..Len(todo') : todo'[k] = Pairs'[Explained' + k]
    BY <1>1, <1>2, <1>3
  <2> QED
    BY <1>1, <1>7, <2>1, <2>2, <2>3, <2>4, <2>5 DEF Owing, AtWork
<1> QED
  BY <1>7, <1>8, <1>9 DEF RegretInv

\* What such a step finds.
LEMMA InHandFound ==
  ASSUME RegretInv, Owing
  PROVE  /\ Typed /\ passes # <<>> /\ Pass \in PassRecord /\ ~Pass.done
         /\ passes = [passes EXCEPT ![Len(passes)] = Pass]
         /\ JudgedTo(Pass, N)
         /\ Reached(Pass, Explained, IF Decided THEN Explained + 1 ELSE Explained)
         /\ pc # "retire" => status[Retired] = "retired"
         /\ pc \notin {"retire", "promote"} => status[Winner] = "active"
         /\ pc = "sell" => reply = "error" \/ Ended(Retired)
         /\ pc = "explain" => Settled(Pass, Retired)
<1>1. pc # "idle"
  BY DEF Owing
<1>2. passes # <<>> /\ Pass \in PassRecord /\ ~Pass.done /\ Typed
  BY <1>1, CurrentPass DEF RegretInv
<1>3. passes = [passes EXCEPT ![Len(passes)] = Pass]
  BY <1>2 DEF Pass, Typed
<1> QED
  BY <1>2, <1>3 DEF RegretInv, AtWork, Owing

LEMMA RetireActiveKeeps == ASSUME RegretInv, RetireActive PROVE RegretInv'
<1>1. /\ Owing /\ Owing' /\ ~Decided /\ ~Decided' /\ pc' = "promote"
      /\ status' = [status EXCEPT ![Retired] = "retired"]
      /\ UNCHANGED <<account, passes, seen, todo, reply, facts>>
  BY DEF RetireActive, Owing, Decided
<1>2. Kept
  BY <1>1, InHand, InHandFound, PairFacts DEF Kept, Typed, Ended, account, facts
<1>3. /\ status' \in [Strategy -> {"active", "rejected", "retired"}]
      /\ status'[Retired] = "retired"
  BY <1>1, InHand, InHandFound DEF Typed
<1>4. passes' = [passes EXCEPT ![Len(passes)] = Pass] /\ Reached(Pass, Explained, Explained)
  BY <1>1, InHandFound
<1>5. PICK pass : pass = Pass
  OBVIOUS
<1> QED
  BY <1>1, <1>2, <1>3, <1>4, <1>5, InHandFound, InHandKept DEF Typed, account

LEMMA PromoteShadowKeeps == ASSUME RegretInv, PromoteShadow PROVE RegretInv'
<1>1. /\ Owing /\ Owing' /\ ~Decided /\ ~Decided' /\ pc = "promote" /\ pc' = "decide"
      /\ status' = [status EXCEPT ![Winner] = "active"]
      /\ UNCHANGED <<account, passes, seen, todo, reply, facts>>
  BY DEF PromoteShadow, Owing, Decided
<1>2. Kept
  BY <1>1, InHand, InHandFound, PairFacts DEF Kept, Typed, Ended, account, facts
<1>3. /\ status' \in [Strategy -> {"active", "rejected", "retired"}]
      /\ status'[Winner] = "active" /\ status'[Retired] = "retired"
  <2>1. Retired # Winner
    BY <1>1, InHand
  <2> QED
    BY <1>1, <2>1, InHand, InHandFound DEF Typed
<1>4. passes' = [passes EXCEPT ![Len(passes)] = Pass] /\ Reached(Pass, Explained, Explained)
  BY <1>1, InHandFound
<1>5. PICK pass : pass = Pass
  OBVIOUS
<1> QED
  BY <1>1, <1>2, <1>3, <1>4, <1>5, InHandFound, InHandKept DEF Typed, account

LEMMA LoserAdded ==
  ASSUME NEW k \in Nat
  PROVE  /\ Losers(k + 1) = Losers(k) \cup {Pairs[k + 1][1]}
         /\ Verdicts(k + 1) = Verdicts(k) \cup {Pairs[k + 1]}
<1>1. 1..(k + 1) = (1..k) \cup {k + 1}
  OBVIOUS
<1> QED
  BY <1>1 DEF Losers, Verdicts

LEMMA InsertDecisionKeeps == ASSUME RegretInv, InsertDecision PROVE RegretInv'
<1> DEFINE new == [Pass EXCEPT !.retired = @ \cup {Retired}]
<1>1. /\ Owing /\ Owing' /\ ~Decided /\ Decided' /\ pc = "decide"
      /\ pc' = IF _open_position_symbol(Retired) THEN "close" ELSE "explain"
      /\ passes' = [passes EXCEPT ![Len(passes)] = new]
      /\ UNCHANGED <<status, account, seen, todo, reply, facts>>
  BY DEF InsertDecision, Owing, Decided, Pass
<1>2. Kept
  BY <1>1 DEF Kept, Ended, account, facts
<1>3. /\ new \in PassRecord /\ ~new.done /\ new.retired = Pass.retired \cup {Retired}
      /\ new.sold = Pass.sold /\ new.decisions = Pass.decisions
      /\ new.postmortems = Pass.postmortems
  BY <1>1, InHand, InHandFound DEF PassRecord
<1> HIDE DEF new
<1>4. Reached(new, Explained, Explained + 1)
  BY <1>1, <1>3, InHand, InHandFound, LoserAdded DEF Reached, Settled
<1>5. JudgedTo(new, N)
  BY <1>1, <1>3, InHandFound DEF JudgedTo
<1>6. status'[Retired] = "retired" /\ status'[Winner] = "active" /\ pc' # "sell"
  BY <1>1, InHandFound
<1>7. PICK pass : pass = new
  OBVIOUS
<1>8. pc' = "explain" => Settled(pass, Retired)'
  <2>1. pc' = "explain" => row[Retired] # "accepted"
    BY <1>1 DEF _open_position_symbol, _TERMINAL_ORDER_STATUSES
  <2>2. Retired' = Retired /\ row' = row
    BY <1>1 DEF Retired, facts
  <2> QED
    BY <2>1, <2>2 DEF Settled
<1> QED
  BY <1>1, <1>2, <1>3, <1>4, <1>5, <1>6, <1>7, <1>8, InHandFound, InHandKept DEF Typed, account

LEMMA ClosePositionKeeps == ASSUME RegretInv, ClosePosition PROVE RegretInv'
<1>1. /\ Owing /\ Owing' /\ Decided /\ Decided' /\ pc = "close" /\ pc' = "sell"
      /\ UNCHANGED <<status, passes, seen, todo, facts>>
  BY DEF ClosePosition, Owing, Decided
<1>2. /\ position \in [Strategy -> Positions] /\ escaped \subseteq Strategy
      /\ Retired \in Strategy
  BY <1>1, InHand, InHandFound DEF Typed
<1>3. /\ position' \in [Strategy -> Positions] /\ escaped' \subseteq Strategy
      /\ reply' \in Replies
      /\ \A s \in Strategy : Ended(s) => Ended(s)'
      /\ reply' = "error" \/ Ended(Retired)'
  <2> DEFINE y == evidence[Retired].symbol
  <2>1. CASE reply' = "error" /\ UNCHANGED account
    BY <1>2, <2>1 DEF account, Ended, Replies
  <2>2. CASE /\ In("selling", y) = {}
             /\ reply' \in (IF In("shares", y) = {} THEN {"no_position"}
                             ELSE {"accepted", "error"})
             /\ position' = [s \in Strategy |-> IF s \in In("shares", y) THEN "selling"
                                                ELSE position[s]]
             /\ escaped' = (escaped \ OfSymbol(y)) \cup In("working", y)
    <3>1. position' \in [Strategy -> Positions] /\ escaped' \subseteq Strategy /\ reply' \in Replies
      BY <1>2, <2>2 DEF Positions, OfSymbol, In, Replies
    <3>2. ASSUME NEW s \in Strategy, Ended(s) \/ s \in OfSymbol(y) PROVE Ended(s)'
      BY <1>2, <2>2, <3>2 DEF OfSymbol, In, Ended
    <3>3. Retired \in OfSymbol(y) /\ Retired' = Retired
      BY <1>1, <1>2 DEF OfSymbol, Retired
    <3>4. Ended(Retired)'
      <4>1. PICK s \in Strategy : s = Retired
        BY <1>2
      <4>2. Ended(s)'
        BY <3>2, <3>3, <4>1
      <4> QED
        BY <3>3, <4>1, <4>2 DEF Ended
    <3> QED
      BY <3>1, <3>2, <3>4
  <2> QED
    BY <2>1, <2>2 DEF ClosePosition, close_position
<1>4. Kept
  BY <1>1, <1>3 DEF Kept, facts
<1>5. /\ passes' = [passes EXCEPT ![Len(passes)] = Pass]
      /\ Reached(Pass, Explained, Explained + 1)
      /\ status'[Retired] = "retired" /\ status'[Winner] = "active"
  BY <1>1, InHandFound
<1>6. PICK pass : pass = Pass
  OBVIOUS
<1> QED
  BY <1>1, <1>3, <1>4, <1>5, <1>6, InHandFound, InHandKept DEF Typed

LEMMA InsertSellKeeps == ASSUME RegretInv, InsertSell PROVE RegretInv'
<1> DEFINE new == [Pass EXCEPT !.sold = [Pass.sold EXCEPT ![Retired] = reply]]
<1>1. /\ Owing /\ Owing' /\ Decided /\ Decided' /\ pc = "sell" /\ pc' = "explain"
      /\ reply' = "none" /\ UNCHANGED <<status, account, seen, todo, facts>>
      /\ passes' = [passes EXCEPT ![Len(passes)].sold[Retired] = reply]
  BY DEF InsertSell, Owing, Decided
<1>2. Kept
  BY <1>1 DEF Kept, Ended, account, facts
<1>3. passes' = [passes EXCEPT ![Len(passes)] = new]
  BY <1>1 DEF Pass
<1>4. /\ new \in PassRecord /\ ~new.done /\ new.retired = Pass.retired
      /\ new.postmortems = Pass.postmortems /\ new.decisions = Pass.decisions
      /\ new.sold[Retired] = reply
      /\ \A s \in Strategy \ {Retired} : new.sold[s] = Pass.sold[s]
  BY <1>1, InHand, InHandFound DEF PassRecord, Typed
<1> HIDE DEF new
<1>5. Reached(new, Explained, Explained + 1)
  <2>1. Reached(Pass, Explained, Explained + 1)
    BY <1>1, InHandFound
  <2>2. \A k \in 1..Explained : Pairs[k][1] \in Strategy \ {Retired}
    BY <1>1, InHand, InHandFound, PairFacts DEF Typed
  <2> QED
    BY <1>4, <2>1, <2>2 DEF Reached, Settled
<1>6. JudgedTo(new, N)
  BY <1>1, <1>4, InHandFound DEF JudgedTo
<1>7. PICK pass : pass = new
  OBVIOUS
<1>8. Settled(pass, Retired)'
  <2>1. Retired' = Retired
    BY <1>1 DEF Retired
  <2> QED
    BY <1>1, <1>4, <1>7, <2>1, InHandFound DEF Settled, Ended, account, facts
<1>9. status'[Retired] = "retired" /\ status'[Winner] = "active" /\ reply' \in Replies
  BY <1>1, InHandFound DEF Replies
<1> QED
  BY <1>1, <1>2, <1>3, <1>4, <1>5, <1>6, <1>7, <1>8, <1>9, InHandFound, InHandKept
     DEF Typed, account

LEMMA InsertPostmortemKeeps == ASSUME RegretInv, InsertPostmortem PROVE RegretInv'
<1> DEFINE new == [Pass EXCEPT !.postmortems = @ \cup {Head(todo)}]
           E == Explained + 1
<1>1. /\ Owing /\ Decided /\ pc = "explain" /\ todo' = Tail(todo)
      /\ pc' = (IF Tail(todo) = <<>> THEN "finish" ELSE "retire")
      /\ passes' = [passes EXCEPT ![Len(passes)].postmortems = @ \cup {Head(todo)}]
      /\ UNCHANGED <<status, account, seen, reply, facts>>
  BY DEF InsertPostmortem, Continue, Owing, Decided
<1>2. Kept /\ Pairs' = Pairs
  BY <1>1 DEF Kept, Pairs, Ended, account, facts
<1>3. passes' = [passes EXCEPT ![Len(passes)] = new]
  BY <1>1, InHandFound DEF Pass, Typed
<1>4. /\ new \in PassRecord /\ ~new.done
      /\ new.postmortems = Pass.postmortems \cup {Head(todo)} /\ new.retired = Pass.retired
      /\ new.decisions = Pass.decisions /\ new.sold = Pass.sold
  BY <1>1, InHand, InHandFound DEF PassRecord
<1> HIDE DEF new
<1>5. /\ E \in 0..Len(Pairs) /\ E \in Nat /\ Len(Pairs) = (E - 1) + Len(todo)
      /\ Len(todo) \in Nat /\ Len(todo) > 0 /\ Explained = E - 1
  BY <1>1, InHand
<1>6. /\ todo \in Seq(Strategy \X Strategy) /\ todo # <<>>
      /\ Tail(todo) \in Seq(Strategy \X Strategy) /\ Len(Tail(todo)) = Len(todo) - 1
      /\ \A k \in 1..(Len(todo) - 1) : Tail(todo)[k] = todo[k + 1]
      /\ Tail(todo) = <<>> <=> Len(todo) = 1
  <2>1. todo \in Seq(Strategy \X Strategy) /\ todo # <<>>
    BY <1>1, InHandFound DEF Typed, RegretInv, AtWork
  <2>2. /\ Tail(todo) \in Seq(Strategy \X Strategy) /\ Len(Tail(todo)) = Len(todo) - 1
        /\ \A k \in 1..(Len(todo) - 1) : Tail(todo)[k] = todo[k + 1]
    BY <2>1, HeadTailProperties
  <2>3. Tail(todo) = <<>> <=> Len(Tail(todo)) = 0
    BY <2>2, EmptySeq
  <2> QED
    BY <1>5, <2>1, <2>2, <2>3
<1>7. Reached(new, E, E)
  <2>1. Reached(Pass, Explained, E) /\ Settled(Pass, Retired)
    BY <1>1, InHandFound
  <2>2. /\ status[Pairs[E][1]] = "retired" /\ status[Pairs[E][2]] = "active"
        /\ Settled(Pass, Pairs[E][1])
    BY <1>1, <2>1, InHand, InHandFound
  <2>3. new.postmortems = Verdicts(E) /\ new.retired = Losers(E)
    BY <1>1, <1>4, <2>1, InHand, LoserAdded DEF Reached
  <2>4. \A k \in 1..E : k \in 1..Explained \/ k = E
    BY <1>5
  <2> HIDE DEF E
  <2> QED
    BY <1>4, <2>1, <2>2, <2>3, <2>4 DEF Reached, Settled
<1>8. JudgedTo(new, N)
  BY <1>1, <1>4, InHandFound DEF JudgedTo
<1> HIDE DEF E
<1>9. PassInv(new)
  BY <1>4, <1>5, <1>7 DEF PassInv
<1>10. PICK pass : pass = new
  OBVIOUS
<1>11. PICK m \in 0..Len(Pairs) : m = E
  BY <1>5
<1>12. PassInv(pass)' /\ Reached(pass, m, m)' /\ JudgedTo(pass, N)'
  <2>1. PassInv(pass)'
    BY <1>1, <1>2, <1>9, <1>10, InHandFound, PassKept
  <2>2. Reached(pass, m, m)'
    BY <1>1, <1>2, <1>7, <1>10, <1>11, InHandFound, ReachedKept
  <2>3. JudgedTo(pass, N)'
    BY <1>1, <1>8, <1>10 DEF JudgedTo, facts
  <2> QED
    BY <2>1, <2>2, <2>3
<1>13. /\ passes' \in Seq(PassRecord) /\ Len(passes') <= MaxPasses
       /\ Pass' = pass /\ passes' # <<>>
       /\ \A i \in DOMAIN passes' : PassInv(passes[i])'
  BY <1>1, <1>2, <1>3, <1>4, <1>10, <1>12, InHandFound, PassesWritten
<1>14. Typed'
  BY <1>1, <1>6, <1>13, InHandFound DEF Typed, account, facts
<1>15. AtWork'
  <2>1. seen' = 0
    BY <1>1 DEF RegretInv, AtWork
  <2>2. CASE Len(todo) = 1
    <3>1. pc' = "finish" /\ todo' = <<>> /\ ~Pass'.done /\ ~Owing'
      BY <1>1, <1>4, <1>6, <1>10, <1>13, <2>2 DEF Owing
    <3>2. m = Len(Pairs')
      BY <1>2, <1>5, <1>11, <2>2
    <3>3. Reached(Pass, Len(Pairs), Len(Pairs))' /\ JudgedTo(Pass, N)'
      BY <1>12, <1>13, <3>2
    <3> QED
      BY <1>13, <2>1, <3>1, <3>3 DEF AtWork
  <2>3. CASE Len(todo) # 1
    <3>1. pc' = "retire" /\ ~Decided' /\ ~Pass'.done
      BY <1>1, <1>4, <1>6, <1>10, <1>13, <2>3 DEF Decided
    <3>2. Explained' = m /\ todo' # <<>> /\ Len(todo') <= Len(Pairs')
      <4>1. todo' # <<>> /\ Len(todo') = Len(todo) - 1
        BY <1>1, <1>6, <2>3
      <4>2. Explained' = m /\ Pairs' = Pairs
        BY <1>1, <1>2, <1>5, <1>6, <1>11, <4>1 DEF Explained
      <4> QED
        BY <1>5, <4>1, <4>2
    <3>3. \A k \in 1..Len(todo') : todo'[k] = Pairs'[Explained' + k]
      <4>1. /\ todo' = Tail(todo) /\ Pairs' = Pairs /\ Explained' = E
            /\ Len(todo') = Len(todo) - 1
        BY <1>1, <1>2, <1>6, <1>11, <3>2
      <4>2. \A k \in 1..(Len(todo) - 1) : k + 1 \in 1..Len(todo)
                                          /\ (E - 1) + (k + 1) = E + k
        BY <1>5
      <4>3. \A k \in 1..Len(todo) : todo[k] = Pairs[(E - 1) + k]
        BY <1>1, <1>5 DEF RegretInv, AtWork
      <4> QED
        BY <1>6, <4>1, <4>2, <4>3
    <3>4. Reached(Pass, Explained, IF Decided THEN Explained + 1 ELSE Explained)'
      BY <1>12, <1>13, <3>1, <3>2
    <3>5. JudgedTo(Pass, N)'
      BY <1>12, <1>13
    <3> QED
      BY <1>13, <2>1, <3>1, <3>2, <3>3, <3>4, <3>5 DEF AtWork
  <2> QED
    BY <2>2, <2>3
<1> QED
  BY <1>13, <1>14, <1>15 DEF RegretInv

LEMMA FinishRunKeeps == ASSUME RegretInv, FinishRun PROVE RegretInv'
<1> DEFINE new == [Pass EXCEPT !.done = TRUE]
<1>1. /\ Typed /\ pc = "finish" /\ pc' = "idle" /\ todo = <<>> /\ seen = 0
      /\ Reached(Pass, Len(Pairs), Len(Pairs)) /\ JudgedTo(Pass, N)
      /\ UNCHANGED <<status, account, seen, todo, reply, facts>>
      /\ passes' = [passes EXCEPT ![Len(passes)] = new]
  BY DEF FinishRun, RegretInv, AtWork, Pass
<1>2. passes # <<>> /\ Pass \in PassRecord
  BY <1>1, CurrentPass
<1>3. Kept
  BY <1>1 DEF Kept, Ended, account, facts
<1>4. /\ new \in PassRecord /\ new.retired = Pass.retired /\ new.sold = Pass.sold
      /\ new.decisions = Pass.decisions /\ new.postmortems = Pass.postmortems
  BY <1>2 DEF PassRecord
<1> HIDE DEF new
<1>5. Reached(new, Len(Pairs), Len(Pairs)) /\ JudgedTo(new, N)
  BY <1>1, <1>4 DEF Reached, Settled, JudgedTo
<1>6. PassInv(new)
  <2>1. Len(Pairs) \in 0..Len(Pairs)
    BY <1>1, PairFacts DEF Typed
  <2> QED
    BY <1>5, <2>1 DEF PassInv
<1>7. PICK pass : pass = new
  OBVIOUS
<1>8. PassInv(pass)'
  BY <1>1, <1>3, <1>6, <1>7, PassKept
<1>9. /\ passes' \in Seq(PassRecord) /\ Len(passes') <= MaxPasses
      /\ \A i \in DOMAIN passes' : PassInv(passes[i])'
  BY <1>1, <1>2, <1>3, <1>4, <1>7, <1>8, PassesWritten
<1>10. Typed'
  BY <1>1, <1>9 DEF Typed, account, facts
<1>11. AtWork'
  BY <1>1 DEF AtWork, Owing
<1> QED
  BY <1>9, <1>10, <1>11 DEF RegretInv

LEMMA AbortKeeps == ASSUME RegretInv, Abort PROVE RegretInv'
<1>1. /\ Typed /\ pc' = "idle" /\ seen' = 0 /\ todo' = <<>> /\ reply' = "none"
      /\ UNCHANGED <<status, account, passes, facts>>
  BY DEF Abort, RegretInv
<1>2. Kept
  BY <1>1 DEF Kept, Ended, account, facts
<1>3. \A i \in DOMAIN passes' : PassInv(passes[i])'
  BY <1>1, <1>2, PassesSame
<1>4. Typed'
  <2>1. 0 \in 0..N /\ <<>> \in Seq(Strategy \X Strategy) /\ "none" \in Replies
    BY RegretAssumption DEF Replies
  <2> QED
    BY <1>1, <2>1 DEF Typed, account, facts
<1>5. AtWork'
  BY <1>1 DEF AtWork, Owing
<1> QED
  BY <1>3, <1>4, <1>5 DEF RegretInv

\* A step of the account alone, after which what has ended or escaped still has.
LEMMA AccountKeeps ==
  ASSUME RegretInv, UNCHANGED <<status, passes, pc, seen, todo, reply, facts>>,
         position' \in [Strategy -> Positions], escaped' \subseteq Strategy,
         \A s \in Strategy : Ended(s) => Ended(s)'
  PROVE  RegretInv'
<1>1. Kept /\ Pairs' = Pairs /\ Typed
  BY DEF Kept, Pairs, facts, RegretInv
<1>2. /\ passes' \in Seq(PassRecord) /\ Pass' = Pass
      /\ \A i \in DOMAIN passes' : PassInv(passes[i])'
  BY <1>1, PassesSame
<1>3. Typed'
  BY <1>1, <1>2 DEF Typed, facts
<1>4. /\ Retired' = Retired /\ Winner' = Winner /\ Explained' = Explained
      /\ Decided' = Decided /\ Owing' = Owing
  BY <1>1 DEF Retired, Winner, Explained, Decided, Owing
<1>5. PICK pass : pass = Pass
  OBVIOUS
<1>6. /\ \A n \in Int : JudgedTo(Pass, n) => JudgedTo(Pass, n)'
      /\ JudgedTo(Pass, seen) => JudgedTo(Pass, seen)'
  BY <1>2 DEF JudgedTo, facts
<1>7. ASSUME NEW m \in 0..Len(Pairs), NEW r, Reached(pass, m, r) PROVE Reached(pass, m, r)'
  BY <1>1, <1>7, ReachedKept
<1>8. pc = "judge" => Reached(Pass, 0, 0)'
  <2>1. 0 \in 0..Len(Pairs)
    BY <1>1, PairFacts DEF Typed
  <2> QED
    BY <1>2, <1>5, <1>7, <2>1 DEF RegretInv, AtWork
<1>9. pc = "finish" => Reached(Pass, Len(Pairs), Len(Pairs))'
  <2>1. PICK n \in 0..Len(Pairs) : n = Len(Pairs)
    BY <1>1, PairFacts DEF Typed
  <2>2. pc = "finish" => Reached(pass, n, n)'
    BY <1>5, <1>7, <2>1 DEF RegretInv, AtWork
  <2> QED
    BY <1>1, <1>2, <1>5, <2>1, <2>2
<1>10. Owing => Reached(Pass, Explained, IF Decided THEN Explained + 1 ELSE Explained)'
  <2> SUFFICES ASSUME Owing
               PROVE  Reached(Pass, Explained, IF Decided THEN Explained + 1 ELSE Explained)'
    OBVIOUS
  <2>1. PICK m \in 0..Len(Pairs) : m = Explained
    BY InHand
  <2>2. PICK r : r = (IF Decided THEN Explained + 1 ELSE Explained)
    OBVIOUS
  <2>3. Reached(pass, m, r)'
    BY <1>5, <1>7, <2>1, <2>2 DEF RegretInv, AtWork
  <2> QED
    BY <1>2, <1>4, <1>5, <2>1, <2>2, <2>3
<1>11. Owing => /\ pc = "sell" => reply = "error" \/ Ended(Retired)'
                /\ pc = "explain" => Settled(Pass, Retired)'
  <2> SUFFICES ASSUME Owing
               PROVE  /\ pc = "sell" => reply = "error" \/ Ended(Retired)'
                      /\ pc = "explain" => Settled(Pass, Retired)'
    OBVIOUS
  <2>1. PICK s \in Strategy : s = Retired
    BY InHand
  <2>2. Ended(s) => Ended(s)'
    OBVIOUS
  <2>3. Ended(Retired)' <=> Ended(s)'
    BY <1>4, <2>1 DEF Ended
  <2>4. pc = "sell" => reply = "error" \/ Ended(Retired)'
    BY <2>1, <2>2, <2>3 DEF RegretInv, AtWork
  <2>5. pc = "explain" => Settled(Pass, Retired)'
    BY <1>1, <1>2, <1>4, <2>1, <2>2, <2>3 DEF RegretInv, AtWork, Settled, Kept
  <2> QED
    BY <2>4, <2>5
<1>12. AtWork'
  <2>1. JudgedTo(Pass, N) => JudgedTo(Pass, N)'
    BY <1>6, RegretAssumption
  <2> QED
    BY <1>1, <1>2, <1>4, <1>6, <1>8, <1>9, <1>10, <1>11, <2>1 DEF RegretInv, AtWork
<1> QED
  BY <1>1, <1>2, <1>3, <1>12 DEF RegretInv

LEMMA BrokerKeeps ==
  ASSUME RegretInv,
         \/ \E s \in Strategy : FillBuy(s)
         \/ \E y \in Symbol : FillClose(y) \/ ExpireClose(y)
  PROVE  RegretInv'
<1>1. position \in [Strategy -> Positions] /\ escaped \subseteq Strategy
  BY DEF RegretInv, Typed
<1>2. ASSUME NEW s \in Strategy, FillBuy(s) PROVE RegretInv'
  <2>1. position' \in [Strategy -> Positions] /\ \A x \in Strategy : Ended(x) => Ended(x)'
    BY <1>1, <1>2 DEF FillBuy, Ended, Positions
  <2> QED
    BY <1>1, <1>2, <2>1, AccountKeeps DEF FillBuy
<1>3. ASSUME NEW y \in Symbol, FillClose(y) PROVE RegretInv'
  <2>1. position' \in [Strategy -> Positions] /\ \A x \in Strategy : Ended(x) => Ended(x)'
    BY <1>1, <1>3 DEF FillClose, Ended, Positions
  <2> QED
    BY <1>1, <1>3, <2>1, AccountKeeps DEF FillClose
<1>4. ASSUME NEW y \in Symbol, ExpireClose(y) PROVE RegretInv'
  <2>1. /\ position' \in [Strategy -> Positions] /\ escaped' \subseteq Strategy
        /\ \A x \in Strategy : Ended(x) => Ended(x)'
    BY <1>1, <1>4 DEF ExpireClose, Ended, Positions, In, OfSymbol
  <2> QED
    BY <1>4, <2>1, AccountKeeps DEF ExpireClose
<1> QED
  BY <1>2, <1>3, <1>4

LEMMA UnchangedKeeps == ASSUME RegretInv, UNCHANGED vars PROVE RegretInv'
  BY AccountKeeps DEF vars, RegretInv, Typed, Ended, facts

-----------------------------------------------------------------------------
(* The theorems                                                            *)

LEMMA RegretInvInit == Init => RegretInv
<1> SUFFICES ASSUME Init PROVE RegretInv
  OBVIOUS
<1>1. evidence \in [Strategy -> Record]
  BY DEF Init
<1>2. status \in [Strategy -> {"active", "rejected", "retired"}]
  BY <1>1 DEF Init
<1>3. /\ row \in [Strategy -> Rows] /\ position \in [Strategy -> Positions]
      /\ escaped \subseteq Strategy
  BY DEF Init
<1>4. /\ <<>> \in Seq(PassRecord) /\ <<>> \in Seq(Strategy \X Strategy)
      /\ Len(<<>>) <= MaxPasses /\ 0 \in 0..N
  BY RegretAssumption
<1>5. Typed
  BY <1>1, <1>2, <1>3, <1>4 DEF Init, Typed, Replies
<1>6. AtWork
  BY DEF Init, AtWork, Owing
<1> QED
  BY <1>5, <1>6 DEF RegretInv, Init

LEMMA RegretInvNext == RegretInv /\ [Next]_vars => RegretInv'
  BY StartKeeps, JudgeKeeps, FindRetirementsKeeps, RetireActiveKeeps, PromoteShadowKeeps,
     InsertDecisionKeeps, ClosePositionKeeps, InsertSellKeeps, InsertPostmortemKeeps,
     FinishRunKeeps, AbortKeeps, BrokerKeeps, UnchangedKeeps DEF Next

LEMMA RegretInvAlways == Spec => []RegretInv
  BY RegretInvInit, RegretInvNext, PTL DEF Spec

\* The variables keep their types: no status, verdict, answer or stage of a pass but
\* those of the code, a verdict in hand wherever one is carried out, and never more
\* passes than were started (regret.run_ledger).
THEOREM RegretTypeCorrect == Spec => []RegretTypeOK
<1>1. RegretInv => RegretTypeOK
  <2> SUFFICES ASSUME RegretInv PROVE RegretTypeOK
    OBVIOUS
  <2>1. Typed
    BY DEF RegretInv
  <2>2. \A i \in DOMAIN passes : passes[i] \in PassRecord
    BY <2>1, LenProperties, ElementOfSeq DEF Typed
  <2>3. \A i \in DOMAIN passes :
          /\ passes[i].done \in BOOLEAN
          /\ passes[i].decisions \in [Strategy -> {"none", "promoted", "rejected"}]
          /\ passes[i].retired \subseteq Strategy
          /\ passes[i].sold \in [Strategy -> Replies]
          /\ passes[i].postmortems \subseteq Strategy \X Strategy
    BY <2>2 DEF PassRecord
  <2>4. pc \in {"retire", "promote", "decide", "close", "sell", "explain"} => todo # <<>>
    BY DEF RegretInv, AtWork, Owing
  <2> QED
    BY <2>1, <2>3, <2>4 DEF RegretTypeOK, Typed
<1> QED
  BY <1>1, RegretInvAlways, PTL

\* Whatever a pass has carried out before it ends or dies, it has retired no strategy
\* twice, used no shadow twice, promoted no strategy it retires, and written each
\* post-mortem after its decision row, with at most one still missing
\* (retire.find_retirements and the loop of regret.run_ledger).
THEOREM OneVerdictEach == Spec => []OneVerdictPerPass
<1>1. RegretInv => OneVerdictPerPass
  <2> SUFFICES ASSUME RegretInv, NEW i \in DOMAIN passes
               PROVE  LET pms == passes[i].postmortems
                          explained == {p[1] : p \in pms}
                      IN  /\ \A p, q \in pms : p # q => p[1] # q[1] /\ p[2] # q[2]
                          /\ \A p \in pms : p[2] \notin passes[i].retired
                          /\ explained \subseteq passes[i].retired
                          /\ Cardinality(passes[i].retired \ explained) <= 1
    BY DEF OneVerdictPerPass
  <2> DEFINE pms == passes[i].postmortems
             explained == {p[1] : p \in pms}
  <2>1. PICK m \in 0..Len(Pairs), r \in 0..Len(Pairs) :
           r \in {m, m + 1} /\ pms = Verdicts(m) /\ passes[i].retired = Losers(r)
    BY DEF RegretInv, PassInv, Reached
  <2>2. /\ m \in Nat /\ explained = Losers(m)
        /\ \A k \in 1..m : k \in 1..Len(Pairs)
        /\ \A k \in 1..r : k \in 1..Len(Pairs)
    BY <2>1, PairFacts DEF RegretInv, Typed, Verdicts, Losers
  <2>3. /\ \A p, q \in pms : p # q => p[1] # q[1] /\ p[2] # q[2]
        /\ \A p \in pms : p[2] \notin passes[i].retired
    <3>1. \A j, k \in 1..Len(Pairs) :
            /\ j # k => Pairs[j][1] # Pairs[k][1] /\ Pairs[j][2] # Pairs[k][2]
            /\ Pairs[j][1] # Pairs[k][2]
      BY PairFacts DEF RegretInv, Typed
    <3>2. \A p \in pms : \E k \in 1..Len(Pairs) : p = Pairs[k]
      BY <2>1, <2>2 DEF Verdicts
    <3>3. \A x \in passes[i].retired : \E k \in 1..Len(Pairs) : x = Pairs[k][1]
      BY <2>1, <2>2 DEF Losers
    <3>4. ASSUME NEW p \in pms, NEW q \in pms, p # q PROVE p[1] # q[1] /\ p[2] # q[2]
      <4>1. PICK j \in 1..Len(Pairs) : p = Pairs[j]
        BY <3>2
      <4>2. PICK k \in 1..Len(Pairs) : q = Pairs[k]
        BY <3>2
      <4> QED
        BY <3>1, <3>4, <4>1, <4>2
    <3>5. ASSUME NEW p \in pms PROVE p[2] \notin passes[i].retired
      BY <3>1, <3>2, <3>3
    <3> QED
      BY <3>4, <3>5
  <2>4. explained \subseteq passes[i].retired
    <3>1. Losers(m + 1) = Losers(m) \cup {Pairs[m + 1][1]}
      BY <2>2, LoserAdded
    <3> QED
      BY <2>1, <2>2, <3>1
  <2>5. Cardinality(passes[i].retired \ explained) <= 1
    <3>1. PICK left : left = passes[i].retired \ explained
      OBVIOUS
    <3>2. left = Losers(r) \ Losers(m)
      BY <2>1, <2>2, <3>1
    <3>3. left \subseteq {Pairs[m + 1][1]}
      <4>1. CASE r = m
        BY <3>2, <4>1
      <4>2. CASE r = m + 1
        BY <2>2, <3>2, <4>2, LoserAdded
      <4> QED
        BY <2>1, <4>1, <4>2
    <3>4. left = {} \/ left = {Pairs[m + 1][1]}
      BY <3>3
    <3>5. Cardinality(left) = 0 \/ Cardinality(left) = 1
      BY <3>4, FS_EmptySet, FS_Singleton
    <3> QED
      BY <3>1, <3>5
  <2> QED
    BY <2>3, <2>4, <2>5
<1> QED
  BY <1>1, RegretInvAlways, PTL

\* A strategy with a live row that a finished pass retired holds no shares, unless that
\* pass recorded a failed close, or they escaped one that was accepted: the closing
\* order expired, or the buy filled only after it; however many passes died before or
\* after it (run_regret_ledger's close, and its sell row).
THEOREM RetiredSharesGone == Spec => []RetiredSharesClosed
<1>1. RegretInv => RetiredSharesClosed
  <2> SUFFICES ASSUME RegretInv, NEW s \in Strategy \ escaped, position[s] = "shares",
                      row[s] = "accepted",
                      NEW i \in DOMAIN passes, passes[i].done,
                      s \in passes[i].retired, passes[i].sold[s] # "error"
               PROVE  FALSE
    BY DEF RetiredSharesClosed, HeldAfter
  <2>1. Reached(passes[i], Len(Pairs), Len(Pairs))
    BY DEF RegretInv, PassInv
  <2>2. PICK k \in 1..Len(Pairs) : s = Pairs[k][1]
    BY <2>1 DEF Reached, Losers
  <2> QED
    BY <2>1, <2>2 DEF Reached, Settled, Ended
<1> QED
  BY <1>1, RegretInvAlways, PTL

\* What the rule returns leaves no losing active and shadow that would both rather be
\* paired with each other.
LEMMA PairsStable ==
  ASSUME evidence \in [Strategy -> Record] PROVE Stable(Verdicts(Len(Pairs)))
<1> SUFFICES ASSUME NEW a \in Active, NEW s \in Shadow, Beats(evidence, s, a)
             PROVE  \/ \E p \in Verdicts(Len(Pairs)) :
                          p[1] = a /\ evidence[p[2]].ret >= evidence[s].ret
                    \/ \E p \in Verdicts(Len(Pairs)) :
                          p[2] = s /\ evidence[p[1]].ret <= evidence[a].ret
  BY DEF Stable, Active, Shadow
<1>1. \/ \E k \in 1..Len(Pairs) : Pairs[k][1] = a /\ Ret(s) <= Ret(Pairs[k][2])
      \/ \E k \in 1..Len(Pairs) : Pairs[k][2] = s /\ Ret(Pairs[k][1]) <= Ret(a)
  BY PairsMatched, PairFacts DEF Matched
<1>2. \A k \in 1..Len(Pairs) : /\ Pairs[k] \in Verdicts(Len(Pairs))
                               /\ Ret(Pairs[k][1]) \in Int /\ Ret(Pairs[k][2]) \in Int
  BY PairFacts, Evidence DEF Verdicts
<1>3. Ret(s) \in Int
  BY Evidence
<1> QED
  BY <1>1, <1>2, <1>3 DEF Ret

\* A finished pass has judged every strategy with enough bars, and its verdicts are a
\* stable matching of losing actives with shadows that beat them, carried out in full:
\* the statuses say so whatever later passes do, and until a cycle decides one of them
\* again, which the ledger's specification leaves out (retire.py: "Actives are considered
\* worst-forward first").
THEOREM RevisionsStable == Spec => []RevisionsJustified
<1>1. RegretInv => RevisionsJustified
  <2> SUFFICES ASSUME RegretInv, NEW i \in DOMAIN passes, passes[i].done
               PROVE  /\ \A s \in Judged(evidence) :
                            passes[i].decisions[s] = evidence[s].decision
                      /\ passes[i].retired = {p[1] : p \in passes[i].postmortems}
                      /\ \A p \in passes[i].postmortems :
                            p[1] \in Actives(evidence) /\ p[2] \in Shadows(evidence)
                            /\ Beats(evidence, p[2], p[1])
                      /\ Stable(passes[i].postmortems)
                      /\ \A p \in passes[i].postmortems :
                            status[p[1]] = "retired" /\ status[p[2]] = "active"
    BY DEF RevisionsJustified
  <2>1. evidence \in [Strategy -> Record]
    BY DEF RegretInv, Typed
  <2>2. Reached(passes[i], Len(Pairs), Len(Pairs)) /\ JudgedTo(passes[i], N)
    BY DEF RegretInv, PassInv
  <2>3. \A s \in Judged(evidence) : passes[i].decisions[s] = evidence[s].decision
    BY <2>2 DEF JudgedTo, Judged, Strategy
  <2>4. /\ passes[i].postmortems = Verdicts(Len(Pairs))
        /\ passes[i].retired = {p[1] : p \in passes[i].postmortems}
    BY <2>2 DEF Reached, Verdicts, Losers
  <2>5. \A p \in passes[i].postmortems :
           p[1] \in Actives(evidence) /\ p[2] \in Shadows(evidence)
           /\ Beats(evidence, p[2], p[1])
    BY <2>1, <2>4, PairFacts DEF Verdicts, Active, Shadow
  <2>6. Stable(passes[i].postmortems)
    BY <2>1, <2>4, PairsStable
  <2>7. \A p \in passes[i].postmortems :
           status[p[1]] = "retired" /\ status[p[2]] = "active"
    BY <2>2, <2>4 DEF Reached, Verdicts
  <2> QED
    BY <2>3, <2>4, <2>5, <2>6, <2>7
<1> QED
  BY <1>1, RegretInvAlways, PTL
=============================================================================
