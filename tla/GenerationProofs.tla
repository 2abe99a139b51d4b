-------------------------- MODULE GenerationProofs --------------------------
(***************************************************************************)
(* Proofs about the strategies table, for any number of threads, rules,    *)
(* responses and seeds.                                                    *)
(***************************************************************************)
EXTENDS Generation, SequenceTheorems, FiniteSetTheorems, TLAPS

\* The fold over the items of a response.
KeepItem(p, seen, item) == Keep(p[2], seen, item)
SeenBefore(p) == p[1]
Collapsing == INSTANCE SequenceFolds WITH Op <- KeepItem, Base <- SeenBefore

LEMMA CollapseFolded ==
  ASSUME NEW p
  PROVE  Collapse(p[1], p[2]) = Collapsing!Folded(p, p[2])
  BY DEF Collapse, KeepItem, SeenBefore, Collapsing!Folded, Collapsing!FoldLeft, FoldLeft,
         Collapsing!MapThenFoldSet, MapThenFoldSet, Collapsing!Max, Max

-----------------------------------------------------------------------------
(* The places of a generation's items                                      *)

LEMMA PlacesTyped ==
  ASSUME NEW outputs \in Seq(Responses)
  PROVE  /\ \A i \in DOMAIN outputs : outputs[i] \in Seq(Strategy \cup {Invalid})
         /\ \A q : q \in Places(outputs) <=>
               /\ q = <<q[1], q[2]>> /\ q[1] \in 1..Len(outputs)
               /\ q[2] \in 1..Len(outputs[q[1]]) /\ Item(outputs, q) # Invalid
         /\ \A q \in Places(outputs) :
               /\ q[1] \in Int /\ q[2] \in Int /\ outputs[q[1]] \in Responses
               /\ Item(outputs, q) \in Strategy
<1>1. DOMAIN outputs = 1..Len(outputs) /\ \A i \in DOMAIN outputs : outputs[i] \in Responses
  BY LenProperties, ElementOfSeq
<1>2. \A i \in DOMAIN outputs : outputs[i] \in Seq(Strategy \cup {Invalid})
  BY <1>1, GenerationAssumption
<1>3. \A i \in DOMAIN outputs : /\ DOMAIN outputs[i] = 1..Len(outputs[i])
                                /\ \A j \in DOMAIN outputs[i] :
                                      outputs[i][j] \in Strategy \cup {Invalid}
  BY <1>2, LenProperties, ElementOfSeq
<1>4. \A q : q \in Places(outputs) <=>
               /\ \E i \in DOMAIN outputs : q \in {i} \X DOMAIN outputs[i]
               /\ outputs[q[1]][q[2]] # Invalid
  BY DEF Places
<1>5. \A q : q \in Places(outputs) <=>
               /\ q = <<q[1], q[2]>> /\ q[1] \in DOMAIN outputs
               /\ q[2] \in DOMAIN outputs[q[1]] /\ outputs[q[1]][q[2]] # Invalid
  BY <1>4
<1>6. \A q \in Places(outputs) :
         /\ q[1] \in Int /\ q[2] \in Int /\ outputs[q[1]] \in Responses
         /\ Item(outputs, q) \in Strategy
  <2> SUFFICES ASSUME NEW q \in Places(outputs)
               PROVE  /\ q[1] \in Int /\ q[2] \in Int /\ outputs[q[1]] \in Responses
                      /\ outputs[q[1]][q[2]] \in Strategy
    BY DEF Item
  <2>1. /\ q[1] \in DOMAIN outputs /\ q[2] \in DOMAIN outputs[q[1]]
        /\ outputs[q[1]][q[2]] # Invalid
    BY <1>5
  <2>2. /\ q[1] \in 1..Len(outputs) /\ q[2] \in 1..Len(outputs[q[1]])
        /\ outputs[q[1]] \in Responses /\ outputs[q[1]][q[2]] \in Strategy \cup {Invalid}
    BY <1>1, <1>3, <2>1
  <2> QED
    BY <2>1, <2>2
<1>7. \A q : q \in Places(outputs) <=>
               /\ q = <<q[1], q[2]>> /\ q[1] \in 1..Len(outputs)
               /\ q[2] \in 1..Len(outputs[q[1]]) /\ Item(outputs, q) # Invalid
  BY <1>1, <1>3, <1>5 DEF Item
<1> QED
  BY <1>2, <1>6, <1>7

\* Places come one after the other.
LEMMA PlacesOrdered ==
  ASSUME NEW outputs \in Seq(Responses)
  PROVE  \A p, q \in Places(outputs) :
            /\ ~ Before(p, p)
            /\ p # q => Before(p, q) \/ Before(q, p)
            /\ Before(p, q) => ~ Before(q, p)
<1> SUFFICES ASSUME NEW p \in Places(outputs), NEW q \in Places(outputs)
             PROVE  /\ ~ Before(p, p)
                    /\ p # q => Before(p, q) \/ Before(q, p)
                    /\ Before(p, q) => ~ Before(q, p)
  OBVIOUS
<1>1. /\ p = <<p[1], p[2]>> /\ q = <<q[1], q[2]>>
      /\ p[1] \in Int /\ p[2] \in Int /\ q[1] \in Int /\ q[2] \in Int
  BY PlacesTyped
<1>2. p # q => p[1] # q[1] \/ p[2] # q[2]
  BY <1>1
<1> QED
  BY <1>1, <1>2 DEF Before

-----------------------------------------------------------------------------
(* What a generation has seen                                              *)

Taken(outputs, p) == FromModel(Item(outputs, p), outputs[p[1]])

\* The candidates seen are taken from these places, in order: the places among P
\* where a strategy comes first.
TakenFrom(seen, firsts, outputs, P) ==
    LET n == Len(seen) IN
    /\ firsts \in [1..n -> P]
    /\ \A j, k \in 1..n : j < k => Before(firsts[j], firsts[k])
    /\ \A k \in 1..n : seen[k] = Taken(outputs, firsts[k])
    /\ \A k \in 1..n : \A q \in P :
          Before(q, firsts[k]) => Item(outputs, q).key # Item(outputs, firsts[k]).key
    /\ \A q \in P : \E k \in 1..n : Item(outputs, firsts[k]).key = Item(outputs, q).key
Lists(seen, outputs, P) ==
    seen \in Seq(Candidate) /\ \E firsts : TakenFrom(seen, firsts, outputs, P)

LEMMA FromModelTyped ==
  ASSUME NEW item \in Strategy, NEW response \in Responses
  PROVE  /\ FromModel(item, response) \in Candidate
         /\ FromModel(item, response).key = item.key
  BY DEF FromModel, Candidate, Strategy

\* The next item of the responses is kept if its strategy has not been seen.
LEMMA ItemKept ==
  ASSUME NEW outputs \in Seq(Responses), NEW P \in SUBSET Places(outputs), NEW seen,
         Lists(seen, outputs, P), NEW p \in Places(outputs), \A q \in P : Before(q, p)
  PROVE  Lists(Keep(outputs[p[1]], seen, Item(outputs, p)), outputs, P \cup {p})
<1> DEFINE response == outputs[p[1]]
           item == Item(outputs, p)
           n == Len(seen)
           all == P \cup {p}
           new == FromModel(item, response)
<1>1. /\ item \in Strategy /\ item # Invalid /\ response \in Responses
      /\ new \in Candidate /\ new.key = item.key /\ new = Taken(outputs, p)
  BY PlacesTyped, FromModelTyped DEF Taken
<1>2. PICK firsts : TakenFrom(seen, firsts, outputs, P)
  BY DEF Lists
<1>3. n \in Nat /\ DOMAIN seen = 1..n /\ seen \in Seq(Candidate)
  BY LenProperties DEF Lists
<1>4. /\ firsts \in [1..n -> P]
      /\ \A j, k \in 1..n : j < k => Before(firsts[j], firsts[k])
      /\ \A k \in 1..n : seen[k] = Taken(outputs, firsts[k])
      /\ \A k \in 1..n : \A q \in P :
            Before(q, firsts[k]) => Item(outputs, q).key # Item(outputs, firsts[k]).key
      /\ \A q \in P : \E k \in 1..n : Item(outputs, firsts[k]).key = Item(outputs, q).key
  BY <1>2 DEF TakenFrom
<1>5. \A k \in 1..n : /\ firsts[k] \in P /\ Before(firsts[k], p) /\ ~ Before(p, firsts[k])
                      /\ seen[k].key = Item(outputs, firsts[k]).key
  <2>1. \A k \in 1..n : firsts[k] \in P /\ firsts[k] \in Places(outputs) /\ Before(firsts[k], p)
    BY <1>4
  <2>2. \A k \in 1..n : ~ Before(p, firsts[k])
    BY <2>1, PlacesOrdered
  <2>3. \A k \in 1..n : Taken(outputs, firsts[k]).key = Item(outputs, firsts[k]).key
    BY <2>1, PlacesTyped, FromModelTyped DEF Taken
  <2> QED
    BY <1>4, <2>1, <2>2, <2>3
<1> HIDE DEF response, item, n, new
<1>6. CASE \E k \in 1..n : Item(outputs, firsts[k]).key = item.key
  <2>1. Keep(response, seen, item) = seen
    BY <1>1, <1>3, <1>5, <1>6 DEF Keep, HasKey
  <2>2. TakenFrom(seen, firsts, outputs, all)
    <3>1. firsts \in [1..n -> all]
      BY <1>4
    <3>2. \A k \in 1..n : \A q \in all :
             Before(q, firsts[k]) => Item(outputs, q).key # Item(outputs, firsts[k]).key
      BY <1>4, <1>5
    <3>3. \A q \in all : \E k \in 1..n : Item(outputs, firsts[k]).key = Item(outputs, q).key
      BY <1>4, <1>6 DEF item
    <3> QED
      BY <1>4, <3>1, <3>2, <3>3 DEF TakenFrom, n
  <2> QED
    BY <1>3, <2>1, <2>2 DEF Lists, item, response
<1>7. CASE \A k \in 1..n : Item(outputs, firsts[k]).key # item.key
  <2> DEFINE longer == Append(seen, new)
             more == [k \in 1..(n + 1) |-> IF k = n + 1 THEN p ELSE firsts[k]]
  <2>1. Keep(response, seen, item) = longer
    BY <1>1, <1>3, <1>5, <1>7 DEF Keep, HasKey, new
  <2>2. /\ longer \in Seq(Candidate) /\ Len(longer) = n + 1
        /\ longer[n + 1] = new /\ \A k \in 1..n : longer[k] = seen[k]
    BY <1>1, <1>3, AppendProperties DEF n
  <2>3. /\ more \in [1..(n + 1) -> all] /\ more[n + 1] = p
        /\ \A k \in 1..n : k \in 1..(n + 1) /\ more[k] = firsts[k]
        /\ \A k \in 1..(n + 1) : k = n + 1 \/ k \in 1..n
    BY <1>3, <1>4
  <2> HIDE DEF longer, more
  <2>4. TakenFrom(longer, more, outputs, all)
    <3>1. ASSUME NEW j \in 1..(n + 1), NEW k \in 1..(n + 1), j < k
          PROVE  Before(more[j], more[k])
      <4>1. j \in 1..n
        BY <1>3, <3>1
      <4>2. CASE k = n + 1
        BY <1>5, <2>3, <4>1, <4>2
      <4>3. CASE k \in 1..n
        BY <1>4, <2>3, <3>1, <4>1, <4>3
      <4> QED
        BY <2>3, <4>2, <4>3
    <3>2. \A k \in 1..(n + 1) : longer[k] = Taken(outputs, more[k])
      BY <1>1, <1>4, <2>2, <2>3
    <3>3. ASSUME NEW k \in 1..(n + 1), NEW q \in all, Before(q, more[k])
          PROVE  Item(outputs, q).key # Item(outputs, more[k]).key
      <4>1. CASE k = n + 1
        <5>1. q \in P
          BY <2>3, <3>3, <4>1, PlacesOrdered
        <5> QED
          BY <1>4, <1>7, <2>3, <4>1, <5>1 DEF item
      <4>2. CASE k \in 1..n
        <5>1. q \in P
          BY <1>5, <2>3, <3>3, <4>2
        <5> QED
          BY <1>4, <2>3, <3>3, <4>2, <5>1
      <4> QED
        BY <2>3, <4>1, <4>2
    <3>4. \A q \in all : \E k \in 1..(n + 1) : Item(outputs, more[k]).key = Item(outputs, q).key
      <4>1. \A q \in P : \E k \in 1..(n + 1) : Item(outputs, more[k]).key = Item(outputs, q).key
        BY <1>4, <2>3
      <4>2. n + 1 \in 1..(n + 1)
        BY <1>3
      <4> QED
        BY <2>3, <4>1, <4>2
    <3> QED
      BY <2>2, <2>3, <3>1, <3>2, <3>3, <3>4 DEF TakenFrom
  <2> QED
    BY <2>1, <2>2, <2>4 DEF Lists, item, response
<1> QED
  BY <1>6, <1>7

\* The places of the earlier responses, and those up to item i of the last.
Upto(outputs, i) == {p \in Places(outputs) : p[1] < Len(outputs) \/ p[2] <= i}

\* A further response leaves what was seen of the earlier ones.
LEMMA PlacesKept ==
  ASSUME NEW outputs \in Seq(Responses), NEW response \in Responses
  PROVE  LET more == Append(outputs, response)
         IN  /\ more \in Seq(Responses) /\ Len(more) = Len(outputs) + 1
             /\ Len(outputs) \in Nat /\ more[Len(outputs) + 1] = response
             /\ Upto(more, 0) = Places(outputs)
             /\ \A p \in Places(outputs) : more[p[1]] = outputs[p[1]]
<1> DEFINE more == Append(outputs, response)
<1>1. /\ more \in Seq(Responses) /\ Len(more) = Len(outputs) + 1 /\ Len(outputs) \in Nat
      /\ more[Len(outputs) + 1] = response
      /\ \A i \in 1..Len(outputs) : more[i] = outputs[i]
  BY AppendProperties, LenProperties
<1> HIDE DEF more
<1>2. \A q : q \in Places(outputs) <=>
               /\ q = <<q[1], q[2]>> /\ q[1] \in 1..Len(outputs)
               /\ q[2] \in 1..Len(outputs[q[1]]) /\ Item(outputs, q) # Invalid
  BY PlacesTyped
<1>3. \A q : q \in Places(more) <=>
               /\ q = <<q[1], q[2]>> /\ q[1] \in 1..(Len(outputs) + 1)
               /\ q[2] \in 1..Len(more[q[1]]) /\ Item(more, q) # Invalid
  BY <1>1, PlacesTyped
<1>4. \A q \in Places(outputs) : more[q[1]] = outputs[q[1]]
  BY <1>1, <1>2
<1>5. ASSUME NEW q, q \in Upto(more, 0) PROVE q \in Places(outputs)
  <2>1. q \in Places(more) /\ (q[1] < Len(outputs) + 1 \/ q[2] <= 0)
    BY <1>1, <1>5 DEF Upto
  <2>2. /\ q = <<q[1], q[2]>> /\ q[1] \in 1..(Len(outputs) + 1)
        /\ q[2] \in 1..Len(more[q[1]]) /\ Item(more, q) # Invalid
    BY <1>3, <2>1
  <2>3. q[1] \in 1..Len(outputs)
    BY <1>1, <2>1, <2>2
  <2>4. more[q[1]] = outputs[q[1]]
    BY <1>1, <2>3
  <2> QED
    BY <1>2, <2>2, <2>3, <2>4 DEF Item
<1>6. ASSUME NEW q \in Places(outputs) PROVE q \in Upto(more, 0)
  <2>1. /\ q = <<q[1], q[2]>> /\ q[1] \in 1..Len(outputs)
        /\ q[2] \in 1..Len(outputs[q[1]]) /\ Item(outputs, q) # Invalid
        /\ more[q[1]] = outputs[q[1]]
    BY <1>2, <1>4
  <2>2. q[1] \in 1..(Len(outputs) + 1) /\ q[1] < Len(more)
    BY <1>1, <2>1
  <2>3. q \in Places(more)
    BY <1>3, <2>1, <2>2 DEF Item
  <2> QED
    BY <2>2, <2>3 DEF Upto
<1> QED
  BY <1>1, <1>4, <1>5, <1>6 DEF more

LEMMA ListKept ==
  ASSUME NEW outputs \in Seq(Responses), NEW response \in Responses, NEW seen,
         Lists(seen, outputs, Places(outputs))
  PROVE  Lists(seen, Append(outputs, response), Upto(Append(outputs, response), 0))
<1> DEFINE more == Append(outputs, response)
           P == Places(outputs)
           n == Len(seen)
<1>1. Upto(more, 0) = P /\ \A q \in P : more[q[1]] = outputs[q[1]]
  BY PlacesKept
<1>2. \A q \in P : Item(more, q) = Item(outputs, q) /\ Taken(more, q) = Taken(outputs, q)
  BY <1>1 DEF Item, Taken
<1>3. PICK firsts : TakenFrom(seen, firsts, outputs, P)
  BY DEF Lists
<1> HIDE DEF more, P
<1>4. /\ firsts \in [1..n -> P]
      /\ \A j, k \in 1..n : j < k => Before(firsts[j], firsts[k])
      /\ \A k \in 1..n : seen[k] = Taken(outputs, firsts[k])
      /\ \A k \in 1..n : \A q \in P :
            Before(q, firsts[k]) => Item(outputs, q).key # Item(outputs, firsts[k]).key
      /\ \A q \in P : \E k \in 1..n : Item(outputs, firsts[k]).key = Item(outputs, q).key
  BY <1>3 DEF TakenFrom
<1>5. TakenFrom(seen, firsts, more, P)
  BY <1>2, <1>4 DEF TakenFrom
<1> QED
  BY <1>1, <1>5 DEF Lists, more

\* The collapse of a response into what was seen keeps the list.
LEMMA CollapseLists ==
  ASSUME NEW outputs \in Seq(Responses), NEW response \in Responses, NEW seen,
         Lists(seen, outputs, Places(outputs))
  PROVE  LET more == Append(outputs, response)
         IN  Lists(Collapse(seen, response), more, Places(more))
<1> DEFINE more == Append(outputs, response)
           last == Len(more)
           n == Len(response)
           p == <<seen, response>>
           kept == Collapse(seen, response)
<1>1. /\ more \in Seq(Responses) /\ last \in Nat /\ more[last] = response
      /\ last \in 1..last
  BY PlacesKept
<1>2. Lists(seen, more, Upto(more, 0))
  BY ListKept
<1>3. n \in Nat /\ DOMAIN response = 1..n
  BY GenerationAssumption, LenProperties
<1>4. kept = Collapsing!Folded(p, response)
  <2>1. Collapse(p[1], p[2]) = Collapsing!Folded(p, p[2])
    BY CollapseFolded
  <2> QED
    BY <2>1
<1> HIDE DEF p, kept, n
<1>5. PICK run : Collapsing!IsRun(run, p, response, n) /\ Collapsing!Folded(p, response) = run[n]
  BY <1>3, Collapsing!FoldRun
<1>6. run[0] = seen /\ \A i \in 1..n : run[i] = Keep(response, run[i - 1], response[i])
  BY <1>5 DEF Collapsing!IsRun, KeepItem, SeenBefore, p
<1> HIDE DEF more, last
<1>7. \A q : q \in Places(more) <=>
               /\ q = <<q[1], q[2]>> /\ q[1] \in 1..last
               /\ q[2] \in 1..Len(more[q[1]]) /\ Item(more, q) # Invalid
  BY <1>1, PlacesTyped DEF last
<1> DEFINE S == {i \in Nat : i <= n => Lists(run[i], more, Upto(more, i))}
<1>8. 0 \in S
  BY <1>2, <1>6
<1>9. ASSUME NEW i \in Nat, i \in S PROVE i + 1 \in S
  <2> SUFFICES ASSUME i + 1 <= n PROVE Lists(run[i + 1], more, Upto(more, i + 1))
    OBVIOUS
  <2> DEFINE q == <<last, i + 1>>
             P == Upto(more, i)
  <2>1. i <= n /\ i + 1 \in 1..n /\ (i + 1) - 1 = i
    BY <1>3
  <2>2. Lists(run[i], more, P) /\ run[i + 1] = Keep(response, run[i], response[i + 1])
    BY <1>6, <1>9, <2>1
  <2>3. q[1] = last /\ q[2] = i + 1 /\ q = <<q[1], q[2]>> /\ Item(more, q) = response[i + 1]
        /\ more[q[1]] = response
    BY <1>1 DEF Item
  <2> HIDE DEF q
  <2>4. q \in Places(more) <=> response[i + 1] # Invalid
    BY <1>1, <1>7, <2>1, <2>3 DEF n
  <2>5. P \in SUBSET Places(more)
    BY DEF Upto
  <2>6. \A r \in Places(more) : /\ r[1] \in Int /\ r[2] \in Int /\ r = <<r[1], r[2]>>
                                /\ r[1] <= last
    BY <1>1, <1>7, PlacesTyped
  <2>7. \A r \in Places(more) : r \in Upto(more, i + 1) <=> r \in P \/ r = q
    <3> SUFFICES ASSUME NEW r \in Places(more)
                 PROVE  r \in Upto(more, i + 1) <=> r \in P \/ r = q
      OBVIOUS
    <3>1. r \in Upto(more, i + 1) <=> r[1] < last \/ r[2] <= i + 1
      BY DEF Upto, last
    <3>2. r \in P <=> r[1] < last \/ r[2] <= i
      BY DEF Upto, last
    <3>3. r = q <=> r[1] = last /\ r[2] = i + 1
      BY <2>3, <2>6
    <3> HIDE DEF P
    <3> QED
      BY <1>1, <2>6, <3>1, <3>2, <3>3
  <2>8. Upto(more, i + 1) \in SUBSET Places(more)
    BY DEF Upto
  <2>9. CASE response[i + 1] = Invalid
    <3>1. Upto(more, i + 1) = P
      BY <2>4, <2>5, <2>7, <2>8, <2>9
    <3>2. run[i + 1] = run[i]
      BY <2>2, <2>9 DEF Keep
    <3> QED
      BY <2>2, <3>1, <3>2
  <2>10. CASE response[i + 1] # Invalid
    <3>1. Upto(more, i + 1) = P \cup {q} /\ q \in Places(more)
      BY <2>4, <2>5, <2>7, <2>8, <2>10
    <3>2. \A r \in P : Before(r, q)
      <4> SUFFICES ASSUME NEW r \in P PROVE Before(r, q)
        OBVIOUS
      <4>1. r[1] < last \/ r[2] <= i
        BY DEF Upto, last
      <4> QED
        BY <1>1, <2>3, <2>5, <2>6, <4>1 DEF Before
    <3> HIDE DEF P
    <3>3. Lists(Keep(more[q[1]], run[i], Item(more, q)), more, P \cup {q})
      BY <1>1, <2>2, <2>5, <3>1, <3>2, ItemKept
    <3> QED
      BY <2>2, <2>3, <3>1, <3>3
  <2> QED
    BY <2>9, <2>10
<1> HIDE DEF S
<1>10. Nat \subseteq S
  BY <1>8, <1>9, Collapsing!Induction
<1>11. Lists(run[n], more, Upto(more, n))
  BY <1>3, <1>10 DEF S
<1>12. Upto(more, n) = Places(more)
  <2>1. ASSUME NEW r \in Places(more) PROVE r[1] < last \/ r[2] <= n
    <3>1. r[1] \in 1..last /\ r[2] \in 1..Len(more[r[1]])
      BY <1>7
    <3>2. CASE r[1] = last
      BY <1>1, <3>1, <3>2 DEF n
    <3> QED
      BY <1>1, <3>1, <3>2
  <2> QED
    BY <2>1 DEF Upto, last
<1> QED
  BY <1>4, <1>5, <1>11, <1>12 DEF kept, more

-----------------------------------------------------------------------------
(* Where a candidate comes from                                            *)

\* A candidate of the model's is an item of the response it is kept with, and one
\* without a response is a seed.
Sourced(row) ==
    \/ /\ row.source = "llm"
       /\ \E i \in DOMAIN row.raw : row.raw[i] = [key |-> row.key, wording |-> row.wording]
    \/ /\ row.source = "manual" /\ row.raw = <<>>
       /\ \E i \in DOMAIN Seeds : Seeds[i] = [key |-> row.key, wording |-> row.wording]
SourcedRows(rows) == rows \in Seq(Candidate) /\ \A i \in DOMAIN rows : Sourced(rows[i])

LEMMA SeenSourced ==
  ASSUME NEW outputs \in Seq(Responses), NEW seen, Lists(seen, outputs, Places(outputs))
  PROVE  SourcedRows(seen)
<1>1. PICK firsts : TakenFrom(seen, firsts, outputs, Places(outputs))
  BY DEF Lists
<1>2. seen \in Seq(Candidate) /\ DOMAIN seen = 1..Len(seen)
  BY LenProperties DEF Lists
<1>3. ASSUME NEW k \in DOMAIN seen PROVE Sourced(seen[k])
  <2> DEFINE p == firsts[k]
             item == Item(outputs, p)
             response == outputs[p[1]]
  <2>1. p \in Places(outputs) /\ seen[k] = FromModel(item, response)
    BY <1>1, <1>2 DEF TakenFrom, Taken
  <2> HIDE DEF p
  <2>2. /\ p[1] \in 1..Len(outputs) /\ p[2] \in 1..Len(response) /\ item \in Strategy
        /\ response \in Responses /\ response[p[2]] = item
    BY <2>1, PlacesTyped, LenProperties, ElementOfSeq DEF Item
  <2> HIDE DEF item, response
  <2>3. DOMAIN response = 1..Len(response)
    BY <2>2, GenerationAssumption, LenProperties
  <2>4. item = [key |-> item.key, wording |-> item.wording]
    BY <2>2 DEF Strategy
  <2> QED
    BY <2>1, <2>2, <2>3, <2>4 DEF Sourced, FromModel
<1> QED
  BY <1>2, <1>3 DEF SourcedRows

LEMMA SeedsSourced ==
  SourcedRows(SeedCandidates) /\ Len(SeedCandidates) = Len(Seeds) /\ Len(Seeds) \in Nat
<1>1. /\ Len(Seeds) \in Nat /\ DOMAIN Seeds = 1..Len(Seeds)
      /\ \A i \in DOMAIN Seeds : Seeds[i] \in Strategy
  BY GenerationAssumption, LenProperties, ElementOfSeq
<1>2. \A i \in DOMAIN Seeds : SeedCandidates[i] \in Candidate
  BY <1>1 DEF SeedCandidates, Candidate, Strategy
<1>3. SeedCandidates \in [1..Len(Seeds) -> Candidate]
  BY <1>1, <1>2 DEF SeedCandidates
<1>4. SeedCandidates \in Seq(Candidate) /\ Len(SeedCandidates) = Len(Seeds)
  BY <1>1, <1>3, SeqDef
<1>5. ASSUME NEW i \in DOMAIN SeedCandidates PROVE Sourced(SeedCandidates[i])
  <2>1. /\ i \in DOMAIN Seeds /\ Seeds[i] \in Strategy
        /\ SeedCandidates[i] = [key |-> Seeds[i].key, wording |-> Seeds[i].wording,
                                source |-> "manual", raw |-> <<>>]
    BY <1>1, <1>3 DEF SeedCandidates
  <2>2. Seeds[i] = [key |-> Seeds[i].key, wording |-> Seeds[i].wording]
    BY <2>1 DEF Strategy
  <2> QED
    BY <2>1, <2>2 DEF Sourced
<1> QED
  BY <1>1, <1>4, <1>5 DEF SourcedRows

LEMMA SmallerOf ==
  ASSUME NEW i \in Nat, NEW j \in Nat
  PROVE  Min({i, j}) \in Nat /\ Min({i, j}) <= i /\ Min({i, j}) <= j
         /\ Min({i, j}) \in {i, j}
<1>1. \E v \in {i, j} : \A w \in {i, j} : v <= w
  OBVIOUS
<1> QED
  BY <1>1 DEF Min

LEMMA FirstOf ==
  ASSUME NEW S, NEW q \in Seq(S), NEW m \in Nat, m <= Len(q)
  PROVE  /\ SubSeq(q, 1, m) \in Seq(S) /\ Len(SubSeq(q, 1, m)) = m
         /\ \A k \in 1..m : k \in 1..Len(q) /\ SubSeq(q, 1, m)[k] = q[k]
<1> DEFINE first == SubSeq(q, 1, m)
<1>1. Len(q) \in Nat /\ \A k \in 1..Len(q) : q[k] \in S
  BY LenProperties, ElementOfSeq
<1>2. \A k \in 1..m : k \in 1..Len(q) /\ q[k] \in S
  BY <1>1
<1>3. /\ first \in Seq(S) /\ Len(first) = IF 1 <= m THEN m - 1 + 1 ELSE 0
      /\ \A k \in 1..(m - 1 + 1) : first[k] = q[1 + k - 1]
  BY <1>2, SubSeqProperties
<1> HIDE DEF first
<1>4. \A k \in 1..m : k \in 1..(m - 1 + 1) /\ 1 + k - 1 = k
  OBVIOUS
<1>5. (IF 1 <= m THEN m - 1 + 1 ELSE 0) = m
  OBVIOUS
<1> QED
  BY <1>2, <1>3, <1>4, <1>5 DEF first

LEMMA EndOf ==
  ASSUME NEW S, NEW q \in Seq(S), NEW m \in Nat, NEW end \in Seq(S), Len(q) = m + Len(end),
         \A k \in 1..Len(end) : q[m + k] = end[k]
  PROVE  SubSeq(q, Len(q) - Len(end) + 1, Len(q)) = end
<1> DEFINE i == Len(q) - Len(end) + 1
           j == Len(q)
           tail == SubSeq(q, i, j)
<1>1. /\ Len(q) \in Nat /\ Len(end) \in Nat
      /\ \A k \in 1..Len(q) : q[k] \in S
  BY LenProperties, ElementOfSeq
<1>2. i \in Int /\ j \in Int /\ i = m + 1 /\ j - i + 1 = Len(end)
  BY <1>1
<1>3. \A k \in i..j : q[k] \in S
  BY <1>1, <1>2
<1>4. (IF i <= j THEN j - i + 1 ELSE 0) = Len(end)
  BY <1>1, <1>2
<1>5. \A k \in 1..Len(end) : i + k - 1 = m + k
  BY <1>1, <1>2
<1> HIDE DEF i, j
<1>6. /\ tail \in Seq(S) /\ Len(tail) = IF i <= j THEN j - i + 1 ELSE 0
      /\ \A k \in 1..(j - i + 1) : tail[k] = q[i + k - 1]
  BY <1>2, <1>3, SubSeqProperties
<1> HIDE DEF tail
<1>7. Len(tail) = Len(end) /\ \A k \in 1..Len(end) : tail[k] = end[k]
  BY <1>2, <1>4, <1>5, <1>6
<1>8. tail = end
  BY <1>6, <1>7, SeqEqual
<1> QED
  BY <1>8 DEF tail, i, j

\* What a generation collects: the first candidates seen, and the seeds.
BatchOf(seen) == SubSeq(seen, 1, Min({Asked, Len(seen)})) \o SeedCandidates

LEMMA BatchElements ==
  ASSUME NEW seen, SourcedRows(seen)
  PROVE  LET m == Min({Asked, Len(seen)})
             batch == BatchOf(seen)
         IN  /\ SourcedRows(batch)
             /\ Len(seen) \in Nat /\ m \in Nat /\ m <= Len(seen) /\ m <= Asked
             /\ m \in {Asked, Len(seen)}
             /\ Len(batch) = m + Len(Seeds)
             /\ \A k \in 1..m : batch[k] = seen[k]
             /\ \A k \in 1..Len(Seeds) : batch[m + k] = SeedCandidates[k]
<1> DEFINE m == Min({Asked, Len(seen)})
           first == SubSeq(seen, 1, m)
           batch == BatchOf(seen)
           s == Len(Seeds)
<1>1. /\ seen \in Seq(Candidate) /\ Len(seen) \in Nat /\ DOMAIN seen = 1..Len(seen)
      /\ \A k \in 1..Len(seen) : seen[k] \in Candidate /\ Sourced(seen[k])
  BY LenProperties, ElementOfSeq DEF SourcedRows
<1>2. m \in Nat /\ m <= Len(seen) /\ m <= Asked /\ m \in {Asked, Len(seen)}
  BY <1>1, GenerationAssumption, SmallerOf
<1> HIDE DEF m
<1>3. /\ first \in Seq(Candidate) /\ Len(first) = m
      /\ \A k \in 1..m : k \in 1..Len(seen) /\ first[k] = seen[k]
  BY <1>1, <1>2, FirstOf
<1>4. /\ SeedCandidates \in Seq(Candidate) /\ Len(SeedCandidates) = s /\ s \in Nat
      /\ \A k \in 1..s : Sourced(SeedCandidates[k])
  BY SeedsSourced, LenProperties DEF SourcedRows
<1>5. batch = first \o SeedCandidates
  BY DEF BatchOf, m
<1> HIDE DEF first, batch, s
<1>6. /\ batch \in Seq(Candidate) /\ Len(batch) = m + s
      /\ \A k \in 1..(m + s) : batch[k] = IF k <= m THEN first[k] ELSE SeedCandidates[k - m]
  BY <1>3, <1>4, <1>5, ConcatProperties
<1>7. \A k \in 1..m : batch[k] = seen[k]
  BY <1>2, <1>3, <1>4, <1>6
<1>8. ASSUME NEW k \in 1..s PROVE batch[m + k] = SeedCandidates[k]
  <2>1. m + k \in 1..(m + s) /\ ~ (m + k <= m) /\ (m + k) - m = k
    BY <1>2, <1>4
  <2> QED
    BY <1>6, <2>1
<1>9. ASSUME NEW k \in 1..(m + s) PROVE Sourced(batch[k])
  <2>1. CASE k <= m
    <3>1. k \in 1..m
      <4>1. m \in Nat /\ s \in Nat
        BY <1>2, <1>4
      <4> QED
        BY <1>9, <2>1, <4>1
    <3> QED
      BY <1>1, <1>3, <1>7, <3>1
  <2>2. CASE ~ (k <= m)
    <3>1. k - m \in 1..s
      BY <1>2, <1>4, <2>2
    <3> QED
      BY <1>4, <1>6, <2>2, <3>1
  <2> QED
    BY <2>1, <2>2
<1>10. SourcedRows(batch)
  BY <1>6, <1>9, LenProperties DEF SourcedRows
<1> QED
  BY <1>1, <1>2, <1>6, <1>7, <1>8, <1>10 DEF m, batch, s

-----------------------------------------------------------------------------
(* The strategies in the order they first came up                          *)

LEMMA FirstsInOrder ==
  ASSUME NEW outputs \in Seq(Responses), NEW seen, Lists(seen, outputs, Places(outputs))
  PROVE  LET firsts == Firsts(outputs)
         IN  /\ Cardinality(firsts) = Len(seen)
             /\ \A p \in firsts :
                   LET k == Cardinality({q \in firsts : Before(q, p)}) + 1
                   IN  k \in 1..Len(seen) /\ seen[k] = Taken(outputs, p)
<1> DEFINE n == Len(seen)
           P == Places(outputs)
           F == Firsts(outputs)
<1>1. PICK at : TakenFrom(seen, at, outputs, P)
  BY DEF Lists
<1>2. n \in Nat
  BY LenProperties DEF Lists
<1>3. /\ at \in [1..n -> P]
      /\ \A j, k \in 1..n : j < k => Before(at[j], at[k])
      /\ \A k \in 1..n : seen[k] = Taken(outputs, at[k])
      /\ \A k \in 1..n : \A q \in P :
            Before(q, at[k]) => Item(outputs, q).key # Item(outputs, at[k]).key
      /\ \A q \in P : \E k \in 1..n : Item(outputs, at[k]).key = Item(outputs, q).key
  BY <1>1 DEF TakenFrom
<1>4. \A k \in 1..n : at[k] \in F
  BY <1>3 DEF Firsts
<1>5. ASSUME NEW p \in F PROVE \E k \in 1..n : at[k] = p
  <2>1. p \in P /\ \A q \in P : Before(q, p) => Item(outputs, q).key # Item(outputs, p).key
    BY DEF Firsts
  <2>2. PICK k \in 1..n : Item(outputs, at[k]).key = Item(outputs, p).key
    BY <1>3, <2>1
  <2>3. at[k] \in P /\ ~ Before(at[k], p) /\ ~ Before(p, at[k])
    BY <1>3, <2>1, <2>2
  <2> QED
    BY <2>1, <2>3, PlacesOrdered
<1> HIDE DEF n, F
<1>6. \A j, k \in 1..n : Before(at[j], at[k]) => j < k
  <2> SUFFICES ASSUME NEW j \in 1..n, NEW k \in 1..n, Before(at[j], at[k]) PROVE j < k
    OBVIOUS
  <2>1. at[j] \in P /\ at[k] \in P
    BY <1>3
  <2>2. j # k /\ ~ (k < j)
    BY <1>3, <2>1, PlacesOrdered
  <2> QED
    BY <1>2, <2>2
<1>7. \A j, k \in 1..n : j # k => at[j] # at[k]
  <2> SUFFICES ASSUME NEW j \in 1..n, NEW k \in 1..n, j # k PROVE at[j] # at[k]
    OBVIOUS
  <2>1. j < k \/ k < j
    BY <1>2
  <2> QED
    BY <1>3, <2>1, PlacesOrdered
<1>8. ASSUME NEW m \in 0..n
      PROVE  Cardinality({at[j] : j \in 1..m}) = m
  <2> DEFINE f == [j \in 1..m |-> at[j]]
             T == {at[j] : j \in 1..m}
  <2>1. m \in Nat /\ \A j \in 1..m : j \in 1..n
    BY <1>2
  <2>2. f \in Bijection(1..m, T)
    <3>1. \A j, k \in 1..m : j # k => at[j] # at[k]
      BY <1>7, <2>1
    <3> QED
      BY <3>1 DEF Bijection, Injection, Surjection, IsInjective
  <2> QED
    BY <2>1, <2>2, FS_CountingElements DEF ExistsBijection
<1>9. F = {at[j] : j \in 1..n} /\ n \in 0..n
  BY <1>2, <1>4, <1>5
<1>10. Cardinality(F) = n
  BY <1>8, <1>9
<1>11. ASSUME NEW p \in F
       PROVE  LET k == Cardinality({q \in F : Before(q, p)}) + 1
              IN  k \in 1..n /\ seen[k] = Taken(outputs, p)
  <2>1. PICK k \in 1..n : at[k] = p
    BY <1>5
  <2>2. k - 1 \in 0..n /\ (k - 1) + 1 = k /\ \A j \in 1..n : j < k <=> j \in 1..(k - 1)
    BY <1>2
  <2>3. {q \in F : Before(q, p)} = {at[j] : j \in 1..(k - 1)}
    <3>1. \A j \in 1..(k - 1) : j \in 1..n /\ j < k
      BY <1>2
    <3>2. \A j \in 1..(k - 1) : at[j] \in F /\ Before(at[j], p)
      <4> SUFFICES ASSUME NEW j \in 1..(k - 1) PROVE at[j] \in F /\ Before(at[j], p)
        OBVIOUS
      <4>1. j \in 1..n /\ j < k
        BY <3>1
      <4> QED
        BY <1>3, <1>4, <2>1, <4>1
    <3>3. ASSUME NEW q \in F, Before(q, p) PROVE \E j \in 1..(k - 1) : at[j] = q
      <4>1. PICK j \in 1..n : at[j] = q
        BY <1>5
      <4>2. j < k
        BY <1>6, <2>1, <3>3, <4>1
      <4> QED
        BY <2>2, <4>1, <4>2
    <3> QED
      BY <3>2, <3>3
  <2>4. Cardinality({q \in F : Before(q, p)}) = k - 1
    BY <1>8, <2>2, <2>3
  <2> QED
    BY <1>3, <2>1, <2>2, <2>4
<1> QED
  BY <1>10, <1>11 DEF n, F

-----------------------------------------------------------------------------
(* The inductive invariant                                                 *)

\* A generation is a record with these fields.
Holds(r, at, outputs, seen, batch, ids) ==
    r = [at |-> at, outputs |-> outputs, seen |-> seen, batch |-> batch, ids |-> ids]
IsGeneration(r) == Holds(r, r.at, r.outputs, r.seen, r.batch, r.ids)

\* What a generation has by itself: the candidates seen are the strategies of its
\* responses, each once, and every candidate it returns has its source.
Draft(r) ==
    /\ IsGeneration(r)
    /\ r.at \in {"idle", "call", "collect", "select", "insert", "done"}
    /\ r.outputs \in Seq(Responses) /\ Len(r.outputs) <= MaxRetries + 1
    /\ r.at = "call" => Len(r.outputs) <= MaxRetries
    /\ Lists(r.seen, r.outputs, Places(r.outputs))
    /\ SourcedRows(r.batch)
    /\ r.at \in {"call", "collect"} => r.batch = <<>>
    /\ r.at \in {"select", "insert"} => Len(r.ids) < Len(r.batch)

\* The ids found name rows of the candidates they were found for.
IdsMatch(ids, batch, rows) ==
    /\ ids \in Seq(DOMAIN rows) /\ Len(ids) <= Len(batch)
    /\ \A i \in DOMAIN ids : rows[ids[i]].key = batch[i].key

OneRowPerKey == \A i, j \in DOMAIN strategies : strategies[i].key = strategies[j].key => i = j

TableInv ==
    /\ SourcedRows(strategies) /\ OneRowPerKey
    /\ gen = [g \in Generator |-> gen[g]]
    /\ \A g \in Generator : Draft(gen[g]) /\ IdsMatch(gen[g].ids, gen[g].batch, strategies)

LEMMA HoldsSet ==
  ASSUME NEW r, IsGeneration(r), NEW stage, NEW v
  PROVE  /\ Holds([r EXCEPT !.at = stage], stage, r.outputs, r.seen, r.batch, r.ids)
         /\ Holds([r EXCEPT !.ids = v, !.at = stage], stage, r.outputs, r.seen, r.batch, v)
         /\ Holds([r EXCEPT !.at = stage, !.batch = v], stage, r.outputs, r.seen, v, r.ids)
<1> DEFINE found == [r EXCEPT !.ids = v]
           moved == [r EXCEPT !.at = stage]
<1>1. /\ found = [at |-> r.at, outputs |-> r.outputs, seen |-> r.seen, batch |-> r.batch, ids |-> v]
      /\ moved = [at |-> stage, outputs |-> r.outputs, seen |-> r.seen, batch |-> r.batch,
                  ids |-> r.ids]
  BY DEF IsGeneration, Holds
<1> HIDE DEF found, moved
<1>2. /\ [found EXCEPT !.at = stage] =
            [at |-> stage, outputs |-> r.outputs, seen |-> r.seen, batch |-> r.batch, ids |-> v]
      /\ [moved EXCEPT !.batch = v] =
            [at |-> stage, outputs |-> r.outputs, seen |-> r.seen, batch |-> v, ids |-> r.ids]
  BY <1>1
<1> QED
  BY <1>1, <1>2 DEF Holds, found, moved

LEMMA HoldsResponse ==
  ASSUME NEW r, IsGeneration(r), NEW outputs, NEW seen, NEW stage
  PROVE  Holds([r EXCEPT !.outputs = outputs, !.seen = seen, !.at = stage],
               stage, outputs, seen, r.batch, r.ids)
<1> DEFINE first == [r EXCEPT !.outputs = outputs]
           second == [first EXCEPT !.seen = seen]
<1>1. first = [at |-> r.at, outputs |-> outputs, seen |-> r.seen, batch |-> r.batch, ids |-> r.ids]
  BY DEF IsGeneration, Holds
<1> HIDE DEF first
<1>2. second = [at |-> r.at, outputs |-> outputs, seen |-> seen, batch |-> r.batch, ids |-> r.ids]
  BY <1>1
<1> HIDE DEF second
<1>3. Holds([second EXCEPT !.at = stage], stage, outputs, seen, r.batch, r.ids)
  BY <1>2 DEF Holds
<1> QED
  BY <1>3 DEF first, second

\* A generation before its first response, or without any.
LEMMA NothingSeen ==
  /\ Holds(NoGeneration, "idle", <<>>, <<>>, <<>>, <<>>) /\ IsGeneration(NoGeneration)
  /\ SourcedRows(<<>>)
  /\ <<>> \in Seq(Responses) /\ Len(<<>>) = 0 /\ Lists(<<>>, <<>>, Places(<<>>))
<1>1. Holds(NoGeneration, "idle", <<>>, <<>>, <<>>, <<>>) /\ IsGeneration(NoGeneration)
  BY DEF NoGeneration, Holds, IsGeneration
<1>2. /\ <<>> \in Seq(Responses) /\ <<>> \in Seq(Candidate) /\ Len(<<>>) = 0 /\ DOMAIN <<>> = {}
  BY EmptySeq
<1>3. Places(<<>>) = {}
  BY <1>2 DEF Places
<1>4. TakenFrom(<<>>, <<>>, <<>>, {})
  <2>1. <<>> \in [1..0 -> {}]
    BY <1>2
  <2> QED
    BY <1>2, <2>1 DEF TakenFrom
<1> QED
  BY <1>1, <1>2, <1>3, <1>4 DEF Lists, SourcedRows

\* A generation that starts over, with stage and batch.
LEMMA Fresh ==
  ASSUME NEW stage \in {"idle", "call", "select", "done"}, NEW batch, SourcedRows(batch),
         stage \in {"idle", "call"} => batch = <<>>, stage = "select" => batch # <<>>,
         NEW r, Holds(r, stage, <<>>, <<>>, batch, <<>>)
  PROVE  Draft(r) /\ r.ids = <<>> /\ r.batch = batch
<1>1. /\ IsGeneration(r) /\ r.at = stage /\ r.outputs = <<>> /\ r.seen = <<>>
      /\ r.batch = batch /\ r.ids = <<>>
  BY DEF Holds, IsGeneration
<1>2. batch \in Seq(Candidate) /\ Len(batch) \in Nat /\ (batch # <<>> => Len(batch) > 0)
  BY EmptySeq, LenProperties DEF SourcedRows
<1>3. MaxRetries \in Nat
  BY GenerationAssumption
<1> QED
  BY <1>1, <1>2, <1>3, NothingSeen DEF Draft

-----------------------------------------------------------------------------
(* A step of one thread on the table                                       *)

LEMMA RowAdded ==
  ASSUME SourcedRows(strategies), NEW new \in Candidate, Sourced(new),
         strategies' = Append(strategies, new)
  PROVE  /\ SourcedRows(strategies') /\ Len(strategies) \in Nat
         /\ DOMAIN strategies = 1..Len(strategies)
         /\ DOMAIN strategies' = 1..(Len(strategies) + 1)
         /\ strategies'[Len(strategies) + 1] = new
         /\ \A i \in DOMAIN strategies : strategies'[i] = strategies[i]
<1>1. /\ strategies' \in Seq(Candidate) /\ Len(strategies') = Len(strategies) + 1
      /\ strategies'[Len(strategies) + 1] = new
      /\ \A i \in 1..Len(strategies) : strategies'[i] = strategies[i]
      /\ Len(strategies) \in Nat /\ DOMAIN strategies = 1..Len(strategies)
      /\ DOMAIN strategies' = 1..Len(strategies')
  BY AppendProperties, LenProperties DEF SourcedRows
<1>2. \A i \in 1..(Len(strategies) + 1) : i \in 1..Len(strategies) \/ i = Len(strategies) + 1
  BY <1>1
<1>3. \A i \in DOMAIN strategies' : Sourced(strategies'[i])
  BY <1>1, <1>2 DEF SourcedRows
<1> QED
  BY <1>1, <1>3 DEF SourcedRows

\* Thread g moves to new, and the table keeps its rows.
LEMMA TableKept ==
  ASSUME TableInv, NEW g \in Generator, NEW new, gen' = [gen EXCEPT ![g] = new],
         SourcedRows(strategies'), OneRowPerKey', DOMAIN strategies \subseteq DOMAIN strategies',
         \A i \in DOMAIN strategies : strategies'[i] = strategies[i],
         Draft(new), IdsMatch(new.ids, new.batch, strategies')
  PROVE  TableInv'
<1>1. /\ gen' = [h \in Generator |-> gen'[h]] /\ gen'[g] = new
      /\ \A h \in Generator \ {g} : gen'[h] = gen[h]
  BY DEF TableInv
<1>2. ASSUME NEW h \in Generator \ {g}
      PROVE  Draft(gen'[h]) /\ IdsMatch(gen'[h].ids, gen'[h].batch, strategies')
  <2>1. /\ Draft(gen[h]) /\ gen'[h] = gen[h]
        /\ gen[h].ids \in Seq(DOMAIN strategies) /\ Len(gen[h].ids) <= Len(gen[h].batch)
        /\ \A i \in DOMAIN gen[h].ids : strategies[gen[h].ids[i]].key = gen[h].batch[i].key
    BY <1>1 DEF TableInv, IdsMatch
  <2>2. gen[h].ids \in Seq(DOMAIN strategies')
    BY <2>1, SeqMonotonic
  <2>3. \A i \in DOMAIN gen[h].ids : gen[h].ids[i] \in DOMAIN strategies
    BY <2>1, LenProperties, ElementOfSeq
  <2> QED
    BY <2>1, <2>2, <2>3 DEF IdsMatch
<1>3. \A h \in Generator : Draft(gen'[h]) /\ IdsMatch(gen'[h].ids, gen'[h].batch, strategies')
  BY <1>1, <1>2
<1> QED
  BY <1>1, <1>3 DEF TableInv

\* It moves without writing.
LEMMA OnlyMoves ==
  ASSUME TableInv, NEW g \in Generator, NEW new, gen' = [gen EXCEPT ![g] = new],
         UNCHANGED strategies, Draft(new),
         (new.ids = gen[g].ids /\ new.batch = gen[g].batch) \/ new.ids = <<>>
  PROVE  TableInv'
<1>1. /\ SourcedRows(strategies') /\ OneRowPerKey' /\ DOMAIN strategies \subseteq DOMAIN strategies'
      /\ \A i \in DOMAIN strategies : strategies'[i] = strategies[i]
  BY DEF TableInv, OneRowPerKey
<1>2. IdsMatch(new.ids, new.batch, strategies')
  <2>1. CASE new.ids = <<>>
    <3>1. <<>> \in Seq(DOMAIN strategies') /\ DOMAIN <<>> = {} /\ Len(<<>>) = 0
      BY EmptySeq
    <3>2. Len(new.batch) \in Nat
      BY LenProperties DEF Draft, SourcedRows
    <3> QED
      BY <2>1, <3>1, <3>2 DEF IdsMatch
  <2>2. CASE new.ids = gen[g].ids /\ new.batch = gen[g].batch
    BY <2>2 DEF TableInv
  <2> QED
    BY <2>1, <2>2
<1> QED
  BY <1>1, <1>2, TableKept

\* It drops what it had.
LEMMA StartsOver ==
  ASSUME TableInv, NEW g \in Generator, gen' = [gen EXCEPT ![g] = NoGeneration],
         UNCHANGED strategies
  PROVE  TableInv'
<1>1. Draft(NoGeneration) /\ NoGeneration.ids = <<>>
  <2>1. SourcedRows(<<>>) /\ Holds(NoGeneration, "idle", <<>>, <<>>, <<>>, <<>>)
    BY NothingSeen
  <2> QED
    BY <2>1, Fresh
<1> QED
  BY <1>1, OnlyMoves

LEMMA StartTable ==
  ASSUME TableInv, NEW g \in Generator, start_generation(g) PROVE TableInv'
<1> DEFINE new == [NoGeneration EXCEPT !.at = "call"]
<1>1. gen' = [gen EXCEPT ![g] = new] /\ UNCHANGED strategies
  BY DEF start_generation
<1>2. Holds(new, "call", <<>>, <<>>, <<>>, <<>>)
  BY DEF NoGeneration, Holds
<1> HIDE DEF new
<1>3. Draft(new) /\ new.ids = <<>>
  BY <1>2, NothingSeen, Fresh
<1> QED
  BY <1>1, <1>3, OnlyMoves

LEMMA CallTable ==
  ASSUME TableInv, NEW g \in Generator, _call_llm(g) PROVE TableInv'
<1> DEFINE old == gen[g]
<1>1. Draft(old) /\ old.at = "call" /\ UNCHANGED strategies
  BY DEF TableInv, _call_llm
<1>2. CASE gen' = [gen EXCEPT ![g] = NoGeneration]
  BY <1>1, <1>2, StartsOver
<1>3. ASSUME NEW response \in Responses,
             LET outputs == Append(gen[g].outputs, response)
             IN  gen' = [gen EXCEPT ![g] =
                    [@ EXCEPT
                       !.outputs = outputs, !.seen = Collapse(gen[g].seen, response),
                       !.at = IF ~HasInvalid(response) \/ Len(outputs) > MaxRetries
                              THEN "collect" ELSE "call"]]
      PROVE  TableInv'
  <2> DEFINE more == Append(old.outputs, response)
             kept == Collapse(old.seen, response)
             stage == IF ~HasInvalid(response) \/ Len(more) > MaxRetries
                      THEN "collect" ELSE "call"
             new == [old EXCEPT !.outputs = more, !.seen = kept, !.at = stage]
  <2>1. gen' = [gen EXCEPT ![g] = new]
    BY <1>3
  <2> HIDE DEF old
  <2>2. /\ IsGeneration(old) /\ old.outputs \in Seq(Responses)
        /\ Len(old.outputs) <= MaxRetries /\ Lists(old.seen, old.outputs, Places(old.outputs))
        /\ SourcedRows(old.batch) /\ old.batch = <<>>
    BY <1>1 DEF Draft
  <2>3. /\ more \in Seq(Responses) /\ Len(more) = Len(old.outputs) + 1 /\ Len(more) \in Nat
        /\ Len(more) <= MaxRetries + 1
    BY <2>2, PlacesKept, GenerationAssumption
  <2>4. Lists(kept, more, Places(more))
    BY <2>2, CollapseLists
  <2>5. stage \in {"collect", "call"} /\ (stage = "call" => Len(more) <= MaxRetries)
    BY <2>3, GenerationAssumption
  <2> HIDE DEF more, kept, stage
  <2>6. Holds(new, stage, more, kept, old.batch, old.ids)
    BY <2>2, HoldsResponse
  <2> HIDE DEF new
  <2>7. /\ IsGeneration(new) /\ new.at = stage /\ new.outputs = more /\ new.seen = kept
        /\ new.batch = old.batch /\ new.ids = old.ids
    BY <2>6 DEF Holds, IsGeneration
  <2>8. Draft(new)
    BY <2>2, <2>3, <2>4, <2>5, <2>7 DEF Draft
  <2> QED
    BY <1>1, <2>1, <2>7, <2>8, OnlyMoves DEF old
<1> QED
  BY <1>2, <1>3 DEF _call_llm

LEMMA CollectTable ==
  ASSUME TableInv, NEW g \in Generator, Collect(g) PROVE TableInv'
<1> DEFINE batch == BatchOf(gen[g].seen)
           stage == IF batch = <<>> THEN "done" ELSE "select"
           new == [NoGeneration EXCEPT !.at = stage, !.batch = batch]
<1>1. gen' = [gen EXCEPT ![g] = new] /\ UNCHANGED strategies
  BY DEF Collect, BatchOf
<1>2. SourcedRows(batch)
  BY SeenSourced, BatchElements DEF TableInv, Draft
<1> HIDE DEF batch
<1>3. stage \in {"done", "select"} /\ (stage = "select" => batch # <<>>)
  OBVIOUS
<1> HIDE DEF stage
<1>4. Holds(new, stage, <<>>, <<>>, batch, <<>>)
  <2>1. /\ IsGeneration(NoGeneration) /\ NoGeneration.outputs = <<>> /\ NoGeneration.seen = <<>>
        /\ NoGeneration.ids = <<>>
    BY NothingSeen DEF Holds
  <2>2. Holds(new, stage, NoGeneration.outputs, NoGeneration.seen, batch, NoGeneration.ids)
    BY <2>1, HoldsSet
  <2> HIDE DEF new
  <2> QED
    BY <2>1, <2>2
<1> HIDE DEF new
<1>5. Draft(new) /\ new.ids = <<>>
  BY <1>2, <1>3, <1>4, Fresh
<1> QED
  BY <1>1, <1>5, OnlyMoves

\* A candidate's id is found, in the table as it is now.
LEMMA FoundTable ==
  ASSUME TableInv, NEW g \in Generator, NEW id \in DOMAIN strategies', Found(g, id),
         gen[g].at \in {"select", "insert"},
         SourcedRows(strategies'), OneRowPerKey',
         \A i \in DOMAIN strategies : i \in DOMAIN strategies' /\ strategies'[i] = strategies[i],
         strategies'[id].key = Current(g).key
  PROVE  TableInv'
<1> DEFINE old == gen[g]
           ids == gen[g].ids
           more == Append(ids, id)
           stage == IF Len(ids) + 1 = Len(gen[g].batch) THEN "done" ELSE "select"
           new == [old EXCEPT !.ids = more, !.at = stage]
<1>1. gen' = [gen EXCEPT ![g] = new]
  BY DEF Found
<1>2. /\ Draft(old) /\ old.at \in {"select", "insert"}
      /\ ids \in Seq(DOMAIN strategies) /\ ids = old.ids
      /\ \A i \in DOMAIN ids : strategies[ids[i]].key = old.batch[i].key
      /\ Current(g) = old.batch[Len(ids) + 1]
  BY DEF TableInv, IdsMatch, Current
<1> HIDE DEF old, ids
<1>3. DOMAIN strategies \subseteq DOMAIN strategies' /\ ids \in Seq(DOMAIN strategies')
  <2>1. DOMAIN strategies \subseteq DOMAIN strategies'
    OBVIOUS
  <2> QED
    BY <1>2, <2>1, SeqMonotonic
<1>4. /\ more \in Seq(DOMAIN strategies') /\ Len(more) = Len(ids) + 1
      /\ Len(ids) \in Nat /\ DOMAIN ids = 1..Len(ids) /\ DOMAIN more = 1..(Len(ids) + 1)
      /\ more[Len(ids) + 1] = id /\ \A i \in 1..Len(ids) : more[i] = ids[i]
  BY <1>3, AppendProperties, LenProperties
<1>5. \A i \in DOMAIN ids : ids[i] \in DOMAIN strategies
  BY <1>2, LenProperties, ElementOfSeq
<1> HIDE DEF more
<1>6. ASSUME NEW i \in DOMAIN more
      PROVE  strategies'[more[i]].key = old.batch[i].key
  <2>1. CASE i = Len(ids) + 1
    BY <1>2, <1>4, <2>1
  <2>2. CASE i \in DOMAIN ids
    <3>1. more[i] = ids[i] /\ ids[i] \in DOMAIN strategies
      BY <1>4, <1>5, <2>2
    <3>2. strategies'[ids[i]] = strategies[ids[i]]
      BY <3>1
    <3> QED
      BY <1>2, <2>2, <3>1, <3>2
  <2> QED
    BY <1>4, <2>1, <2>2
<1>7. Len(old.batch) \in Nat /\ Len(ids) < Len(old.batch)
  BY <1>2, LenProperties DEF Draft, SourcedRows
<1>8. stage \in {"done", "select"} /\ (stage = "select" => Len(more) < Len(old.batch))
  BY <1>4, <1>7 DEF old
<1> HIDE DEF stage
<1>9. Holds(new, stage, old.outputs, old.seen, old.batch, more)
  BY <1>2, HoldsSet DEF Draft
<1> HIDE DEF new
<1>10. /\ IsGeneration(new) /\ new.at = stage /\ new.outputs = old.outputs
       /\ new.seen = old.seen /\ new.batch = old.batch /\ new.ids = more
  BY <1>9 DEF Holds, IsGeneration
<1>11. Draft(new)
  BY <1>2, <1>8, <1>10 DEF Draft
<1>12. IdsMatch(new.ids, new.batch, strategies')
  BY <1>4, <1>6, <1>7, <1>10 DEF IdsMatch
<1> QED
  BY <1>1, <1>3, <1>11, <1>12, TableKept

LEMMA TableSame ==
  ASSUME TableInv, UNCHANGED strategies
  PROVE  /\ SourcedRows(strategies') /\ OneRowPerKey'
         /\ \A i \in DOMAIN strategies : i \in DOMAIN strategies' /\ strategies'[i] = strategies[i]
  BY DEF TableInv, OneRowPerKey

LEMMA SelectTable ==
  ASSUME TableInv, NEW g \in Generator, select_id(g) PROVE TableInv'
<1>1. gen[g].at = "select" /\ Draft(gen[g]) /\ UNCHANGED strategies
  BY DEF select_id, TableInv
<1>2. CASE gen' = [gen EXCEPT ![g].at = "insert"]
  <2> DEFINE old == gen[g]
             new == [old EXCEPT !.at = "insert"]
  <2>1. gen' = [gen EXCEPT ![g] = new]
    BY <1>2
  <2> HIDE DEF old
  <2>2. Holds(new, "insert", old.outputs, old.seen, old.batch, old.ids)
    BY <1>1, HoldsSet DEF Draft, old
  <2> HIDE DEF new
  <2>3. /\ IsGeneration(new) /\ new.at = "insert" /\ new.outputs = old.outputs
        /\ new.seen = old.seen /\ new.batch = old.batch /\ new.ids = old.ids
    BY <2>2 DEF Holds, IsGeneration
  <2>4. Draft(new)
    BY <1>1, <2>3 DEF Draft, old
  <2> QED
    BY <1>1, <2>1, <2>3, <2>4, OnlyMoves DEF old
<1>3. ASSUME NEW id \in DOMAIN strategies, strategies[id].key = Current(g).key, Found(g, id)
      PROVE  TableInv'
  BY <1>1, <1>3, TableSame, FoundTable
<1> QED
  BY <1>2, <1>3 DEF select_id

LEMMA InsertTable ==
  ASSUME TableInv, NEW g \in Generator, insert_strategy(g) PROVE TableInv'
<1>1. CASE gen' = [gen EXCEPT ![g] = NoGeneration] /\ UNCHANGED strategies
  BY <1>1, StartsOver
<1>2. CASE /\ ~HasKey(strategies, Current(g).key)
           /\ strategies' = Append(strategies, Current(g))
           /\ Found(g, Len(strategies) + 1)
  <2>1. gen[g].at = "insert" /\ Draft(gen[g]) /\ gen[g].ids \in Seq(DOMAIN strategies)
    BY DEF insert_strategy, TableInv, IdsMatch
  <2>2. Current(g) \in Candidate /\ Sourced(Current(g))
    <3>1. /\ SourcedRows(gen[g].batch) /\ Len(gen[g].ids) < Len(gen[g].batch)
          /\ Len(gen[g].ids) \in Nat
      BY <2>1, LenProperties DEF Draft
    <3>2. Len(gen[g].ids) + 1 \in 1..Len(gen[g].batch) /\ DOMAIN gen[g].batch = 1..Len(gen[g].batch)
      BY <3>1, LenProperties DEF SourcedRows
    <3> QED
      BY <3>1, <3>2, ElementOfSeq DEF Current, SourcedRows
  <2>3. /\ SourcedRows(strategies') /\ Len(strategies) \in Nat
        /\ DOMAIN strategies = 1..Len(strategies)
        /\ DOMAIN strategies' = 1..(Len(strategies) + 1)
        /\ strategies'[Len(strategies) + 1] = Current(g)
        /\ \A i \in DOMAIN strategies : strategies'[i] = strategies[i]
    BY <1>2, <2>2, RowAdded DEF TableInv
  <2>4. OneRowPerKey'
    <3>1. \A i \in DOMAIN strategies : strategies'[i].key # Current(g).key
      BY <1>2, <2>3 DEF HasKey
    <3>2. \A i, j \in DOMAIN strategies : strategies'[i].key = strategies'[j].key => i = j
      BY <2>3 DEF TableInv, OneRowPerKey
    <3>3. \A i \in DOMAIN strategies' : i \in DOMAIN strategies \/ i = Len(strategies) + 1
      BY <2>3
    <3> QED
      BY <2>3, <3>1, <3>2, <3>3 DEF OneRowPerKey
  <2>5. /\ Len(strategies) + 1 \in DOMAIN strategies'
        /\ \A i \in DOMAIN strategies : i \in DOMAIN strategies'
    BY <2>3
  <2> QED
    BY <1>2, <2>1, <2>3, <2>4, <2>5, FoundTable
<1> QED
  BY <1>1, <1>2 DEF insert_strategy

LEMMA EveryDraft ==
  ASSUME gen = [g \in Generator |-> NoGeneration], SourcedRows(strategies), OneRowPerKey
  PROVE  TableInv
<1>1. SourcedRows(<<>>) /\ Holds(NoGeneration, "idle", <<>>, <<>>, <<>>, <<>>)
  BY NothingSeen
<1>2. Draft(NoGeneration) /\ NoGeneration.ids = <<>> /\ NoGeneration.batch = <<>>
  BY <1>1, Fresh
<1>3. <<>> \in Seq(DOMAIN strategies) /\ DOMAIN <<>> = {} /\ Len(<<>>) = 0
  BY EmptySeq
<1>4. gen = [g \in Generator |-> gen[g]] /\ \A g \in Generator : gen[g] = NoGeneration
  OBVIOUS
<1>5. IdsMatch(<<>>, <<>>, strategies)
  BY <1>3 DEF IdsMatch
<1> QED
  BY <1>2, <1>4, <1>5 DEF TableInv

LEMMA TableInit == GenerationInit => TableInv
<1> SUFFICES ASSUME GenerationInit PROVE TableInv
  OBVIOUS
<1>1. SourcedRows(strategies) /\ OneRowPerKey
  <2>1. DOMAIN <<>> = {} /\ SourcedRows(<<>>)
    BY NothingSeen, EmptySeq
  <2> QED
    BY <2>1 DEF GenerationInit, OneRowPerKey
<1> QED
  BY <1>1, EveryDraft DEF GenerationInit

LEMMA TableNext == TableInv /\ [GenerationNext]_genVars => TableInv'
<1> SUFFICES ASSUME TableInv, [GenerationNext]_genVars PROVE TableInv'
  OBVIOUS
<1>1. CASE \E g \in Generator : GenerationStep(g)
  BY <1>1, StartTable, CallTable, CollectTable, SelectTable, InsertTable DEF GenerationStep
<1>2. CASE RestartGeneration
  <2>1. SourcedRows(<<>>) /\ DOMAIN <<>> = {}
    BY NothingSeen, EmptySeq
  <2>2. SourcedRows(strategies') /\ OneRowPerKey'
    BY <1>2, <2>1 DEF RestartGeneration, TableInv, OneRowPerKey
  <2>3. (gen = [g \in Generator |-> NoGeneration])'
    BY <1>2 DEF RestartGeneration
  <2>4. (SourcedRows(strategies))'
    BY <2>2
  <2> QED
    BY <2>2, <2>3, <2>4, EveryDraft, PTL
<1>3. CASE UNCHANGED genVars
  BY <1>3 DEF genVars, TableInv, OneRowPerKey
<1> QED
  BY <1>1, <1>2, <1>3 DEF GenerationNext

LEMMA TableInvAlways == GenerationSpec => []TableInv
  BY TableInit, TableNext, PTL DEF GenerationSpec

-----------------------------------------------------------------------------
(* What generation promises                                                *)

\* Type correctness of the strategies table and of every generation.
THEOREM GenerationTypeCorrect == GenerationSpec => []GenerationTypeOK
<1>1. TableInv => GenerationTypeOK
  <2> SUFFICES ASSUME TableInv, NEW g \in Generator
               PROVE  /\ strategies \in Seq(Candidate)
                      /\ gen[g].at \in {"idle", "call", "collect", "select", "insert", "done"}
                      /\ gen[g].outputs \in Seq(Responses)
                      /\ Len(gen[g].outputs) <= MaxRetries + 1
                      /\ gen[g].seen \in Seq(Candidate) /\ gen[g].batch \in Seq(Candidate)
                      /\ gen[g].ids \in Seq(DOMAIN strategies)
                      /\ Len(gen[g].ids) <= Len(gen[g].batch)
    BY DEF GenerationTypeOK, TableInv, SourcedRows
  <2> QED
    BY DEF TableInv, SourcedRows, Draft, Lists, IdsMatch
<1> QED
  BY <1>1, TableInvAlways, PTL

\* Each id a generation found is that of the only row of its candidate's key,
\* however many threads insert at once.
THEOREM IdsFindTheirRows == GenerationSpec => []IdsNameOneRow
<1>1. TableInv => IdsNameOneRow
  <2> SUFFICES ASSUME TableInv, NEW g \in Generator, NEW i \in DOMAIN gen[g].ids
               PROVE  {id \in DOMAIN strategies : strategies[id].key = gen[g].batch[i].key}
                        = {gen[g].ids[i]}
    BY DEF IdsNameOneRow
  <2>1. gen[g].ids[i] \in DOMAIN strategies
    BY LenProperties, ElementOfSeq DEF TableInv, IdsMatch
  <2>2. strategies[gen[g].ids[i]].key = gen[g].batch[i].key
    BY DEF TableInv, IdsMatch
  <2> QED
    BY <2>1, <2>2 DEF TableInv, OneRowPerKey
<1> QED
  BY <1>1, TableInvAlways, PTL

\* Every row of the model's is an item of the response stored with it, and every
\* other row a seed.
THEOREM RowsSourced == GenerationSpec => []RowsKeepTheirSource
<1>1. TableInv => RowsKeepTheirSource
  BY DEF TableInv, SourcedRows, Sourced, RowsKeepTheirSource
<1> QED
  BY <1>1, TableInvAlways, PTL

\* What a generation returns: the first n distinct strategies of all its responses,
\* as they first came, and the seeds.
THEOREM BatchesFirstDistinct == GenerationSpec => BatchIsFirstDistinct
<1>1. ASSUME TableInv, GenerationNext, NEW g \in Generator,
             gen[g].at = "collect", gen'[g].batch # <<>>
      PROVE  LET outputs == gen[g].outputs
                 firsts  == Firsts(outputs)
                 batch   == gen'[g].batch
             IN  /\ Len(batch) = Min({Asked, Cardinality(firsts)}) + Len(Seeds)
                 /\ \A p \in firsts :
                      LET k == Cardinality({q \in firsts : Before(q, p)}) + 1
                      IN  k <= Asked =>
                            batch[k] = [key |-> Item(outputs, p).key,
                                        wording |-> Item(outputs, p).wording,
                                        source |-> "llm", raw |-> outputs[p[1]]]
                 /\ SubSeq(batch, Len(batch) - Len(Seeds) + 1, Len(batch)) = SeedCandidates
  <2> DEFINE outputs == gen[g].outputs
             seen == gen[g].seen
             firsts == Firsts(outputs)
             batch == BatchOf(seen)
             n == Len(seen)
             m == Min({Asked, n})
             s == Len(Seeds)
             rank(p) == Cardinality({q \in firsts : Before(q, p)}) + 1
  <2>1. /\ outputs \in Seq(Responses) /\ Lists(seen, outputs, Places(outputs))
        /\ gen[g].batch = <<>> /\ g \in DOMAIN gen
    BY <1>1 DEF TableInv, Draft
  <2>2. Collect(g)
    <3>1. ASSUME NEW h \in Generator \ {g}, GenerationStep(h) PROVE gen'[g] = gen[g]
      BY <2>1, <3>1 DEF GenerationStep, start_generation, _call_llm, Collect, select_id,
                        insert_strategy, Found
    <3>2. GenerationStep(g) => Collect(g)
      BY <1>1 DEF GenerationStep, start_generation, _call_llm, Collect, select_id,
                  insert_strategy
    <3>3. ~ RestartGeneration
      BY <1>1, NothingSeen DEF RestartGeneration, Holds
    <3> QED
      BY <1>1, <2>1, <3>1, <3>2, <3>3 DEF GenerationNext
  <2>3. gen'[g].batch = batch
    <3> DEFINE stage == IF batch = <<>> THEN "done" ELSE "select"
               new == [NoGeneration EXCEPT !.at = stage, !.batch = batch]
    <3>1. gen' = [gen EXCEPT ![g] = new]
      BY <2>2 DEF Collect, BatchOf
    <3> HIDE DEF stage, batch
    <3>2. Holds(new, stage, NoGeneration.outputs, NoGeneration.seen, batch, NoGeneration.ids)
      BY NothingSeen, HoldsSet
    <3> HIDE DEF new
    <3> QED
      BY <2>1, <3>1, <3>2 DEF Holds
  <2>4. SourcedRows(seen)
    BY <2>1, SeenSourced
  <2>5. /\ SourcedRows(batch) /\ n \in Nat /\ m \in Nat /\ m <= n /\ m <= Asked
        /\ m \in {Asked, n} /\ Len(batch) = m + s
        /\ \A k \in 1..m : batch[k] = seen[k]
        /\ \A k \in 1..s : batch[m + k] = SeedCandidates[k]
    BY <2>4, BatchElements
  <2>6. /\ Cardinality(firsts) = n
        /\ \A p \in firsts : rank(p) \in 1..n /\ seen[rank(p)] = Taken(outputs, p)
    BY <2>1, FirstsInOrder
  <2>7. Len(batch) = Min({Asked, Cardinality(firsts)}) + s
    BY <2>5, <2>6
  <2> HIDE DEF rank, m, n, s, batch, seen, firsts
  <2>8. ASSUME NEW p \in firsts, rank(p) <= Asked
        PROVE  batch[rank(p)] = [key |-> Item(outputs, p).key, wording |-> Item(outputs, p).wording,
                                 source |-> "llm", raw |-> outputs[p[1]]]
    <3>1. rank(p) \in 1..m
      BY <2>5, <2>6, <2>8
    <3> QED
      BY <2>5, <2>6, <3>1 DEF Taken, FromModel
  <2>9. SubSeq(batch, Len(batch) - s + 1, Len(batch)) = SeedCandidates
    <3>1. /\ SeedCandidates \in Seq(Candidate) /\ Len(SeedCandidates) = s /\ s \in Nat
          /\ batch \in Seq(Candidate)
      BY <2>5, SeedsSourced DEF SourcedRows, s
    <3> QED
      BY <2>5, <3>1, EndOf
  <2> QED
    BY <2>3, <2>7, <2>8, <2>9 DEF rank, firsts, s
<1>2. TableInv /\ [GenerationNext]_genVars
        => [\A g \in Generator :
              gen[g].at = "collect" /\ gen'[g].batch # <<>> =>
                 LET outputs == gen[g].outputs
                     firsts  == Firsts(outputs)
                     batch   == gen'[g].batch
                 IN  /\ Len(batch) = Min({Asked, Cardinality(firsts)}) + Len(Seeds)
                     /\ \A p \in firsts :
                          LET k == Cardinality({q \in firsts : Before(q, p)}) + 1
                          IN  k <= Asked =>
                                batch[k] = [key |-> Item(outputs, p).key,
                                            wording |-> Item(outputs, p).wording,
                                            source |-> "llm", raw |-> outputs[p[1]]]
                     /\ SubSeq(batch, Len(batch) - Len(Seeds) + 1, Len(batch))
                          = SeedCandidates]_genVars
  BY <1>1
<1> QED
  BY <1>2, TableInvAlways, PTL DEF GenerationSpec, BatchIsFirstDistinct
=============================================================================
