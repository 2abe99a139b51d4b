------------------------- MODULE TradingAgentProofs -------------------------
(***************************************************************************)
(* Theorems about TradingAgent for every value of its constants: the types *)
(* of its state, what the startup reconciliation promises, in both         *)
(* BROKER_TRUTH modes and with one or two traders, the position ceiling    *)
(* with the account book the agent implements, and the premium ceiling,    *)
(* with the induction over finite sets that its sums need.                 *)
(***************************************************************************)
EXTENDS TradingAgentProperties, FiniteSetTheorems, SequenceTheorems, TLAPS

USE DEF Scheduler, Api

-----------------------------------------------------------------------------
(* Type correctness.                                                       *)

\* A sell never reserves more lots than are held, the row a sweep has in hand
\* exists, and a row is inserted for an answered submission only: what the types
\* of held, sells and orders rest on.
TypeInv ==
    /\ TypeOK
    /\ \A c \in Contract : closing[c] <= held[c]
    /\ exit.row \in 0..Len(orders)
    /\ \A t \in Trader : pc[t] = "insert" => cand[t].reply # "none"

LEMMA CandidateTypes == NoCand \in Candidate /\ NoExit \in Exit
<1>1. (CHOOSE c \in Contract : TRUE) \in Contract
  BY AgentAssumption
<1>2. (CHOOSE s \in Strategy : TRUE) \in Strategy
  BY AgentAssumption
<1> QED
  BY <1>1, <1>2 DEF NoCand, NoExit, Candidate, Replies, Exit, CloseReplies

LEMMA MemoTypes == NoMemo \in [fresh : BOOLEAN, prior : BOOLEAN, view : View]
  BY DEF NoMemo, EmptyView, View

LEMMA TypeInit == Init => TypeInv
<1> SUFFICES ASSUME Init PROVE TypeInv
  OBVIOUS
<1>1. BrokerTypeOK /\ \A c \in Contract : closing[c] <= held[c]
  BY DEF Init, BrokerInit, BrokerTypeOK, Age
<1>2. exit.row \in 0..Len(orders)
  BY DEF Init, NoExit
<1>3. pc \in [Trader -> {"boot", "sync", "idle", "sweep", "record",
                         "next", "check", "submit", "insert", "raised"}]
  BY DEF Init
<1>4. orders \in Seq(Row) /\ \A t \in Trader : pc[t] # "insert"
  BY DEF Init
<1>5. cand \in [Trader -> Candidate] /\ exit \in Exit
  BY CandidateTypes DEF Init
<1>6. memo \in [fresh : BOOLEAN, prior : BOOLEAN, view : View]
  BY MemoTypes DEF Init
<1>7. /\ sells \subseteq SellRow
      /\ killed \in BOOLEAN /\ left \in [Trader -> Nat] /\ work \subseteq Contract
  BY DEF Init
<1> QED
  BY <1>1, <1>2, <1>3, <1>4, <1>5, <1>6, <1>7 DEF TypeInv, TypeOK

\* What the broker does on its own keeps its types, whatever the agent does.
BrokerInv == BrokerTypeOK /\ \A c \in Contract : closing[c] <= held[c]

LEMMA BrokerMoves ==
  ASSUME BrokerInv, NEW c \in Contract, NEW F \in SUBSET Contract,
         \/ FillAll(F) \/ Fill(c) \/ ExpireBuy(c) \/ FillClose(c)
         \/ ExpireClose(c) \/ DaysPass \/ AcceptBuy(c) \/ AcceptClose(c)
         \/ UNCHANGED broker
  PROVE  BrokerInv'
<1> USE DEF BrokerInv, BrokerTypeOK, Age
<1>1. CASE FillAll(F)
  BY <1>1 DEF FillAll
<1>2. CASE Fill(c)
  BY <1>2 DEF Fill
<1>3. CASE ExpireBuy(c)
  BY <1>3 DEF ExpireBuy
<1>4. CASE FillClose(c)
  BY <1>4 DEF FillClose
<1>5. CASE ExpireClose(c)
  BY <1>5 DEF ExpireClose
<1>6. CASE DaysPass
  BY <1>6 DEF DaysPass
<1>7. CASE AcceptBuy(c)
  BY <1>7 DEF AcceptBuy
<1>8. CASE AcceptClose(c)
  BY <1>8 DEF AcceptClose
<1>9. CASE UNCHANGED broker
  BY <1>9 DEF broker
<1> QED
  BY <1>1, <1>2, <1>3, <1>4, <1>5, <1>6, <1>7, <1>8, <1>9

LEMMA RowTypes ==
  /\ \A c \in Contract : BrokerTypeOK => ReconRow(c) \in Row
  /\ \A c \in Contract, s \in Strategy, st \in Status :
        [sid |-> s, sym |-> c, status |-> st,
         premium |-> Cost[c] * FIXED_OPTION_CONTRACTS] \in Row
<1>1. \A a, b \in Nat : a * b \in Nat
  OBVIOUS
<1>2. \A c \in Contract : Cost[c] \in Nat
  BY CostAssumption
<1> QED
  BY <1>1, <1>2
  DEF ReconRow, Row, Status, _OPTION_CLOSED_STATUSES, FIXED_OPTION_CONTRACTS, BrokerTypeOK

LEMMA InsertRowType ==
  ASSUME orders \in Seq(Row), NEW c \in Contract, NEW s \in Strategy, NEW st \in Status,
         InsertRow(c, s, st)
  PROVE  orders' \in Seq(Row) /\ Len(orders') = Len(orders) + 1
  BY RowTypes DEF InsertRow

LEMMA ViewType ==
  ASSUME BrokerTypeOK, NEW P, NEW O
  PROVE  _broker_option_view(P, O) \in View
<1>1. \A a, b \in Nat : a * b \in Nat
  OBVIOUS
<1> QED
  BY <1>1, CostAssumption DEF _broker_option_view, View, BrokerTypeOK, FIXED_OPTION_CONTRACTS

\* Every operation of a thread, the scheduler's and the cycle's, keeps the types.
LEMMA TypeNext == TypeInv /\ [Next]_vars => TypeInv'
<1> SUFFICES ASSUME TypeInv, [Next]_vars PROVE TypeInv'
  OBVIOUS
<1> USE DEF TypeInv, TypeOK, db, threads, vars, Goto
<1>0. BrokerInv
  BY DEF BrokerInv
<1>1. CASE BackfillPositions
  <2>1. IsFiniteSet(Orphans)
    BY ContractAssumption, FS_Subset DEF Orphans, Positions
  <2>2. Cardinality(Orphans) \in Nat
    BY <2>1, FS_CardinalityType
  <2>3. orders' \in Seq(Row) /\ Len(orders) <= Len(orders')
    <3>1. CASE UNCHANGED orders
      BY <3>1
    <3>2. ASSUME NEW ord \in [1..Cardinality(Orphans) -> Orphans],
                 orders' = orders \o [i \in 1..Cardinality(Orphans) |-> ReconRow(ord[i])]
          PROVE  orders' \in Seq(Row) /\ Len(orders) <= Len(orders')
      <4>1. \A i \in 1..Cardinality(Orphans) : ReconRow(ord[i]) \in Row
        BY RowTypes DEF Orphans, Positions
      <4> DEFINE n == Cardinality(Orphans)
                 new == [i \in 1..n |-> ReconRow(ord[i])]
      <4>2. new \in Seq(Row)
        <5>1. n \in Nat /\ new \in [1..n -> Row]
          BY <2>2, <4>1
        <5> QED
          BY ONLY <5>1, SMT
      <4>3. orders' = orders \o new
        BY <3>2
      <4> HIDE DEF new
      <4>4. orders' \in Seq(Row) /\ Len(orders') = Len(orders) + Len(new)
        BY <4>2, <4>3, ConcatProperties
      <4> QED
        BY <4>2, <4>4, LenProperties
    <3> QED
      BY <1>1, <3>1, <3>2 DEF BackfillPositions
  <2>4. /\ UNCHANGED <<broker, sells, killed, memo, left, cand, work, exit>>
        /\ pc' = [pc EXCEPT ![Scheduler] = "sync"]
    BY <1>1 DEF BackfillPositions
  <2>5. exit'.row \in 0..Len(orders')
    BY <2>3, <2>4, LenProperties
  <2> QED
    BY <2>3, <2>4, <2>5 DEF broker, BrokerTypeOK
<1>2. CASE ReconcileOrders
  <2>1. BrokerInv'
    BY <1>0, <1>2, BrokerMoves, AgentAssumption
    DEF ReconcileOrders, BetweenReads, broker, OpenBuyOrders
  <2>2. orders' \in Seq(Row) /\ Len(orders') = Len(orders) /\ sells' \subseteq SellRow
    <3>1. ASSUME NEW live, CloseUnconfirmed(live)
          PROVE  /\ orders' \in Seq(Row) /\ Len(orders') = Len(orders)
                 /\ sells' \subseteq SellRow
      <4>1. DOMAIN orders = 1..Len(orders) /\ Len(orders) \in Nat
        BY LenProperties
      <4>2. \A i \in 1..Len(orders) : orders[i] \in Row
        BY <4>1, ElementOfSeq
      <4>3. \A r \in Row : [r EXCEPT !.status = "reconciled-closed"] \in Row
        BY DEF Row, Status, _OPTION_CLOSED_STATUSES
      <4>4. orders' \in [1..Len(orders) -> Row]
        BY <3>1, <4>1, <4>2, <4>3 DEF CloseUnconfirmed
      <4>5. sells' \subseteq SellRow
        BY <3>1 DEF CloseUnconfirmed
      <4>6. orders' \in Seq(Row) /\ Len(orders') = Len(orders)
        BY <4>1, <4>4, SeqDef
      <4> QED
        BY <4>5, <4>6
    <3> QED
      BY <1>2, <3>1 DEF ReconcileOrders
  <2> QED
    BY <1>2, <2>1, <2>2 DEF ReconcileOrders, BrokerInv
<1>3. CASE Tick
  BY <1>3, MemoTypes DEF Tick, broker, BrokerTypeOK, Positions
<1>4. CASE SweepRecord
  <2>1. exit' = NoExit /\ UNCHANGED <<broker, killed, memo, left, cand, work>>
    BY <1>4 DEF SweepRecord
  <2>2. orders' \in Seq(Row) /\ sells' \subseteq SellRow
    <3>1. CASE exit.row # 0 /\ CloseSucceeded
      <4>1. exit.row \in 1..Len(orders)
        BY <3>1, LenProperties
      <4>2. orders[exit.row] \in Row
        BY <4>1, ElementOfSeq
      <4>3. [orders[exit.row] EXCEPT !.status = "closed"] \in Row
        BY <4>2 DEF Row, Status, _OPTION_CLOSED_STATUSES
      <4>4. orders' = [orders EXCEPT ![exit.row] = [@ EXCEPT !.status = "closed"]]
        BY <1>4, <3>1 DEF SweepRecord
      <4>5. orders' \in Seq(Row)
        BY <4>1, <4>3, <4>4, ExceptSeq
      <4> QED
        <5>1. [sid |-> orders[exit.row].sid, sym |-> exit.sym, status |-> exit.reply]
                \in SellRow
          BY <3>1, <4>2 DEF CloseSucceeded, SellRow, Row, Exit
        <5>2. sells' = sells \cup {[sid |-> orders[exit.row].sid, sym |-> exit.sym,
                                   status |-> exit.reply]}
          BY <1>4, <3>1 DEF SweepRecord
        <5> QED
          BY <4>5, <5>1, <5>2
    <3> QED
      BY <1>4, <3>1 DEF SweepRecord
  <2>3. exit'.row \in 0..Len(orders') /\ exit' \in Exit
    BY <2>1, <2>2, CandidateTypes, LenProperties DEF NoExit
  <2> QED
    BY <1>4, <2>1, <2>2, <2>3 DEF SweepRecord, broker, BrokerTypeOK
<1>5. CASE EntryNotDue
  BY <1>5 DEF EntryNotDue, broker, BrokerTypeOK
<1>6. ASSUME NEW c \in Contract, SweepClose(c) PROVE TypeInv'
  <2>1. BrokerInv'
    BY <1>0, <1>6, BrokerMoves, AgentAssumption DEF SweepClose, CloseReply
  <2>2. Len(orders) \in Nat
    BY LenProperties
  <2>3. exit' \in Exit /\ exit'.row \in 0..Len(orders)
    BY <1>6, <2>2 DEF SweepClose, Exit
  <2> QED
    BY <1>6, <2>1, <2>3 DEF SweepClose, BrokerInv
<1>7. ASSUME NEW t \in Trader, StartCycle(t) PROVE TypeInv'
  BY <1>7, AgentAssumption DEF StartCycle, broker, BrokerTypeOK
<1>8. ASSUME NEW t \in Trader, CandidateWithoutContract(t) PROVE TypeInv'
  BY <1>8 DEF CandidateWithoutContract, broker, BrokerTypeOK
<1>9. ASSUME NEW t \in Trader, SelectContract(t) PROVE TypeInv'
  <2>1. cand' \in [Trader -> Candidate]
    BY <1>9 DEF SelectContract, Candidate, Replies
  <2> QED
    BY <1>9, <2>1 DEF SelectContract, broker, BrokerTypeOK
<1>10. ASSUME NEW t \in Trader, RiskCheck(t) PROVE TypeInv'
  <2>1. BrokerInv'
    BY <1>0, <1>10, BrokerMoves, AgentAssumption
    DEF RiskCheck, BetweenReads, broker, OpenBuyOrders
  <2>2. memo' \in [fresh : BOOLEAN, prior : BOOLEAN, view : View]
    <3>1. _broker_option_view(Positions, OpenBuyOrders') \in View
      BY <1>0, ViewType DEF BrokerInv
    <3>2. \/ UNCHANGED memo
          \/ memo' = [fresh |-> TRUE, prior |-> FALSE,
                      view |-> _broker_option_view(Positions, OpenBuyOrders')]
      BY <1>10, Zenon DEF RiskCheck
    <3>3. memo \in [fresh : BOOLEAN, prior : BOOLEAN, view : View]
      OBVIOUS
    <3> QED
      <4>1. CASE UNCHANGED memo
        BY <3>3, <4>1
      <4>2. ASSUME NEW v \in View, memo' = [fresh |-> TRUE, prior |-> FALSE, view |-> v]
            PROVE  memo' \in [fresh : BOOLEAN, prior : BOOLEAN, view : View]
        BY <4>2
      <4> QED
        BY <3>1, <3>2, <4>1, <4>2
  <2>3. ASSUME NEW view, NEW n, Decide(t, view, n)
        PROVE  /\ orders' \in Seq(Row) /\ Len(orders) <= Len(orders')
               /\ cand' \in [Trader -> Candidate]
               /\ pc' \in [Trader -> {"boot", "sync", "idle", "sweep", "record",
                                      "next", "check", "submit", "insert", "raised"}]
               /\ \A u \in Trader : pc'[u] = "insert" => cand'[u].reply # "none"
    <3>1. "blocked" \in Status
      BY DEF Status, _OPTION_CLOSED_STATUSES
    <3>2. cand[t].sym \in Contract /\ cand[t].sid \in Strategy
      BY DEF Candidate
    <3>3. Len(orders) \in Nat
      BY LenProperties
    <3>4. \/ UNCHANGED <<orders, cand>> /\ Goto(t, "submit")
          \/ /\ UNCHANGED orders \/ InsertRow(cand[t].sym, cand[t].sid, "blocked")
             /\ cand' = [cand EXCEPT ![t] = NoCand]
             /\ Goto(t, "next") \/ Goto(t, "raised")
      BY <2>3 DEF Decide, Record
    <3>5. orders' \in Seq(Row) /\ Len(orders) <= Len(orders')
      BY <3>1, <3>2, <3>3, <3>4, InsertRowType
    <3>6. cand' \in [Trader -> Candidate]
      BY <3>4, CandidateTypes
    <3> QED
      BY <3>4, <3>5, <3>6
  <2>4. /\ orders' \in Seq(Row) /\ Len(orders) <= Len(orders')
        /\ cand' \in [Trader -> Candidate]
        /\ pc' \in [Trader -> {"boot", "sync", "idle", "sweep", "record",
                               "next", "check", "submit", "insert", "raised"}]
        /\ \A u \in Trader : pc'[u] = "insert" => cand'[u].reply # "none"
    BY <1>10, <2>3 DEF RiskCheck
  <2>5. Len(orders) \in Nat /\ Len(orders') \in Nat
    BY <2>4, LenProperties
  <2> QED
    BY <1>10, <2>1, <2>2, <2>4, <2>5 DEF RiskCheck, BrokerInv
<1>11. ASSUME NEW t \in Trader, Submit(t) PROVE TypeInv'
  <2>1. cand[t].sym \in Contract
    BY DEF Candidate
  <2>2. BrokerInv'
    BY <1>0, <1>11, <2>1, BrokerMoves, AgentAssumption DEF Submit, SubmitReply
  <2>3. cand' \in [Trader -> Candidate] /\ cand'[t].reply # "none"
    <3>1. PICK reply \in Replies \ {"none"} : cand' = [cand EXCEPT ![t].reply = reply]
      BY <1>11 DEF Submit, SubmitReply, Replies
    <3>2. [cand[t] EXCEPT !.reply = reply] \in Candidate
      BY DEF Candidate
    <3> QED
      BY <3>1, <3>2 DEF Candidate
  <2> QED
    BY <1>11, <2>2, <2>3 DEF Submit, BrokerInv
<1>12. ASSUME NEW t \in Trader, InsertOrder(t) PROVE TypeInv'
  <2>1. cand[t].sym \in Contract /\ cand[t].sid \in Strategy /\ cand[t].reply \in Status
    BY <1>12 DEF InsertOrder, Candidate, Replies, Status, _OPTION_CLOSED_STATUSES
  <2>2. /\ \/ InsertRow(cand[t].sym, cand[t].sid, cand[t].reply)
           \/ UNCHANGED orders
        /\ pc' = [pc EXCEPT ![t] = "next"] \/ pc' = [pc EXCEPT ![t] = "raised"]
        /\ cand' = [cand EXCEPT ![t] = NoCand]
    BY <1>12 DEF InsertOrder, Record
  <2>3. orders' \in Seq(Row) /\ Len(orders) <= Len(orders')
    BY <2>1, <2>2, InsertRowType, LenProperties
  <2>4. exit.row \in 0..Len(orders')
    BY <2>3, LenProperties
  <2> QED
    BY <1>12, <2>2, <2>3, <2>4, CandidateTypes DEF InsertOrder, broker, BrokerTypeOK
<1>13. ASSUME NEW t \in Trader, EndCycle(t) PROVE TypeInv'
  BY <1>13, CandidateTypes DEF EndCycle, broker, BrokerTypeOK
<1>14. CASE BrokerStep
  BY <1>0, <1>14, BrokerMoves, AgentAssumption DEF BrokerStep, BrokerInv
<1>15. CASE MemoExpires
  BY <1>15, MemoTypes DEF MemoExpires, broker, BrokerTypeOK
<1>16. CASE SetKillSwitch
  BY <1>16 DEF SetKillSwitch, broker, BrokerTypeOK
<1>17. CASE Restart
  <2>1. orders' \in Seq(Row)
    BY <1>17, EmptySeq DEF Restart
  <2>2. 0 \in 0..Len(orders')
    BY <2>1, LenProperties
  <2> QED
    BY <1>17, <2>1, <2>2, CandidateTypes, MemoTypes DEF Restart, NoExit, broker, BrokerTypeOK
<1>18. CASE UNCHANGED vars
  BY <1>18 DEF broker, BrokerTypeOK
<1>19. CASE SweepRaises
  <2>1. /\ exit' = NoExit /\ work' = {}
        /\ UNCHANGED <<broker, orders, killed, left, cand>>
        /\ pc' = [pc EXCEPT ![Scheduler] = "idle"]
        /\ memo' = [memo EXCEPT !.prior = memo.fresh]
    BY <1>19 DEF SweepRaises
  <2>2. sells' \subseteq SellRow
    <3>1. CASE UNCHANGED sells
      BY <3>1
    <3>2. CASE /\ CloseSucceeded
               /\ sells' = sells \cup {[sid |-> orders[exit.row].sid, sym |-> exit.sym,
                                       status |-> exit.reply]}
      <4>1. exit.row \in 1..Len(orders)
        BY <1>19, LenProperties DEF SweepRaises
      <4>2. orders[exit.row] \in Row
        BY <4>1, ElementOfSeq
      <4>3. [sid |-> orders[exit.row].sid, sym |-> exit.sym, status |-> exit.reply]
              \in SellRow
        BY <3>2, <4>2 DEF CloseSucceeded, SellRow, Row, Exit
      <4> QED
        BY <3>2, <4>3
    <3> QED
      BY <1>19, <3>1, <3>2 DEF SweepRaises
  <2>3. exit'.row \in 0..Len(orders') /\ exit' \in Exit
    BY <2>1, CandidateTypes, LenProperties DEF NoExit
  <2> QED
    BY <2>1, <2>2, <2>3 DEF broker, BrokerTypeOK
<1> HIDE DEF TypeInv
<1> QED
  BY <1>1, <1>2, <1>3, <1>4, <1>5, <1>6, <1>7, <1>8, <1>9, <1>10, <1>11, <1>12,
     <1>13, <1>14, <1>15, <1>16, <1>17, <1>18, <1>19 DEF Next, SchedulerStep, CycleStep

\* Every variable keeps its type, whatever the two threads, the broker, the
\* operator and the crashes do.
THEOREM TypeCorrect == Spec => []TypeOK
<1>1. Init => TypeInv
  BY TypeInit
<1>2. TypeInv /\ [Next]_vars => TypeInv'
  BY TypeNext
<1>3. TypeInv => TypeOK
  BY DEF TypeInv
<1> QED
  BY <1>1, <1>2, <1>3, PTL DEF Spec

-----------------------------------------------------------------------------
(* The startup reconciliation: no contract is reconstructed twice.         *)

\* Rows that keep their strategy and contract keep the property.
LEMMA RowsSettled ==
  ASSUME ReconstructedOnce, DOMAIN orders' = DOMAIN orders,
         \A i \in DOMAIN orders :
            orders'[i].sid = orders[i].sid /\ orders'[i].sym = orders[i].sym
  PROVE  ReconstructedOnce'
  BY DEF ReconstructedOnce

\* So does a row of a strategy that is no placeholder.
LEMMA RowOfStrategy ==
  ASSUME ReconstructedOnce, ReconStrategy \notin Strategy, orders \in Seq(Row),
         NEW c \in Contract, NEW s \in Strategy, NEW st \in Status, InsertRow(c, s, st)
  PROVE  ReconstructedOnce'
<1> DEFINE row == [sid |-> s, sym |-> c, status |-> st,
                   premium |-> Cost[c] * FIXED_OPTION_CONTRACTS]
<1>1. orders' = Append(orders, row) /\ row \in Row
  BY RowTypes DEF InsertRow
<1>2. row.sid # ReconStrategy
  OBVIOUS
<1> HIDE DEF row
<1>3. /\ DOMAIN orders' = 1..(Len(orders) + 1) /\ DOMAIN orders = 1..Len(orders)
      /\ Len(orders) \in Nat
      /\ orders'[Len(orders) + 1] = row
      /\ \A i \in 1..Len(orders) : orders'[i] = orders[i]
  BY <1>1, AppendProperties, LenProperties
<1>4. \A i \in DOMAIN orders' :
        orders'[i].sid = ReconStrategy => i \in DOMAIN orders /\ orders'[i] = orders[i]
  BY <1>2, <1>3
<1> QED
  BY <1>4 DEF ReconstructedOnce

LEMMA Joined ==
  ASSUME NEW R, NEW s \in Seq(R), NEW t \in Seq(R)
  PROVE  /\ s \o t \in Seq(R)
         /\ Len(s \o t) = Len(s) + Len(t)
         /\ \A i \in 1..Len(s) : (s \o t)[i] = s[i]
         /\ \A i \in 1..Len(t) : (s \o t)[Len(s) + i] = t[i]
<1>1. Len(s) \in Nat /\ Len(t) \in Nat
  BY LenProperties
<1>2. \A i \in 1..(Len(s) + Len(t)) :
         (s \o t)[i] = IF i <= Len(s) THEN s[i] ELSE t[i - Len(s)]
  BY ConcatProperties
<1>3. ASSUME NEW i \in 1..Len(t) PROVE (s \o t)[Len(s) + i] = t[i]
  <2>1. /\ Len(s) + i \in 1..(Len(s) + Len(t)) /\ ~(Len(s) + i <= Len(s))
        /\ (Len(s) + i) - Len(s) = i
    BY <1>1
  <2> QED
    BY <1>2, <2>1
<1>4. \A i \in 1..Len(s) : i \in 1..(Len(s) + Len(t)) /\ i <= Len(s)
  BY <1>1
<1> QED
  BY <1>2, <1>3, <1>4, ConcatProperties

\* Rows for orphans, each of them once, are rows of contracts that had none.
LEMMA RowsOfOrphans ==
  ASSUME TypeInv, ReconstructedOnce, BackfillPositions
  PROVE  ReconstructedOnce'
<1> DEFINE n == Cardinality(Orphans)
<1>1. CASE UNCHANGED orders
  BY <1>1 DEF ReconstructedOnce
<1>2. ASSUME NEW ord \in [1..n -> Orphans], InListOrder(Orphans, ord),
             orders' = orders \o [i \in 1..n |-> ReconRow(ord[i])]
      PROVE  ReconstructedOnce'
  <2> DEFINE new == [i \in 1..n |-> ReconRow(ord[i])]
  <2>1. n \in Nat
    BY ContractAssumption, FS_Subset, FS_CardinalityType DEF Orphans, Positions
  <2>2. \A i \in 1..n : ord[i] \in Contract /\ new[i] \in Row /\ new[i].sym = ord[i]
    BY RowTypes DEF TypeInv, TypeOK, Orphans, Positions, ReconRow
  <2>3. orders \in Seq(Row) /\ new \in Seq(Row) /\ Len(new) = n
    <3>1. new \in [1..n -> Row]
      BY <2>2
    <3>2. orders \in Seq(Row)
      BY DEF TypeInv, TypeOK
    <3> HIDE DEF n, new
    <3> QED
      BY <2>1, <3>1, <3>2, SeqDef, LenProperties
  <2>4. /\ Len(orders) \in Nat /\ DOMAIN orders = 1..Len(orders)
        /\ orders' \in Seq(Row) /\ Len(orders') = Len(orders) + n
        /\ \A i \in 1..Len(orders) : orders'[i] = orders[i]
        /\ \A i \in 1..n : orders'[Len(orders) + i] = new[i]
    <3>1. orders' = orders \o new
      BY <1>2
    <3> HIDE DEF n, new
    <3> QED
      BY <2>3, <3>1, Joined, LenProperties
  <2>5. DOMAIN orders' = 1..(Len(orders) + n)
    BY <2>4, LenProperties
  <2>6. \A i \in DOMAIN orders, j \in 1..n : orders[i].sym # ord[j]
    BY DEF Orphans
  <2>7. \A i, j \in 1..n : ord[i] = ord[j] => i = j
    BY <1>2 DEF InListOrder
  <2> HIDE DEF n, new
  <2>8. ASSUME NEW i \in 1..(Len(orders) + n)
        PROVE  \/ i \in DOMAIN orders /\ orders'[i] = orders[i]
               \/ \E k \in 1..n : i = Len(orders) + k /\ orders'[i].sym = ord[k]
    <3>1. CASE i <= Len(orders)
      BY <2>1, <2>4, <3>1
    <3>2. CASE i > Len(orders)
      <4>1. i - Len(orders) \in 1..n /\ i = Len(orders) + (i - Len(orders))
        BY <2>1, <2>4, <3>2
      <4> QED
        BY <2>2, <2>4, <4>1
    <3> QED
      BY <2>1, <2>4, <3>1, <3>2
  <2>9. ASSUME NEW i \in 1..(Len(orders) + n), NEW j \in 1..(Len(orders) + n),
               orders'[i].sid = ReconStrategy, orders'[j].sid = ReconStrategy,
               orders'[i].sym = orders'[j].sym
        PROVE  i = j
    <3>1. CASE i \in DOMAIN orders /\ orders'[i] = orders[i]
      <4>1. j \in DOMAIN orders /\ orders'[j] = orders[j]
        BY <2>6, <2>8, <2>9, <3>1
      <4> QED
        BY <2>9, <3>1, <4>1 DEF ReconstructedOnce
    <3>2. CASE \E k \in 1..n : i = Len(orders) + k /\ orders'[i].sym = ord[k]
      BY <2>6, <2>7, <2>8, <2>9, <3>2
    <3> QED
      BY <2>8, <3>1, <3>2
  <2> QED
    BY <2>5, <2>9 DEF ReconstructedOnce
<1> QED
  BY <1>1, <1>2 DEF BackfillPositions

LEMMA ReconstructedNext ==
  ASSUME ReconStrategy \notin Strategy, TypeInv, ReconstructedOnce, [Next]_vars
  PROVE  ReconstructedOnce'
<1> USE DEF db, threads, vars
<1>1. CASE BackfillPositions
  BY <1>1, RowsOfOrphans
<1>2. CASE ReconcileOrders
  <2>1. ASSUME NEW live, CloseUnconfirmed(live) PROVE ReconstructedOnce'
    <3>1. \A i \in DOMAIN orders : orders[i] \in Row
      BY LenProperties, ElementOfSeq DEF TypeInv, TypeOK
    <3>2. \A r \in Row : /\ [r EXCEPT !.status = "reconciled-closed"].sid = r.sid
                         /\ [r EXCEPT !.status = "reconciled-closed"].sym = r.sym
      BY DEF Row
    <3> QED
      BY <2>1, <3>1, <3>2, RowsSettled DEF CloseUnconfirmed
  <2> QED
    BY <1>2, <2>1, RowsSettled DEF ReconcileOrders
<1>3. CASE SweepRecord
  <2>1. CASE UNCHANGED orders
    BY <2>1, RowsSettled
  <2>2. CASE orders' = [orders EXCEPT ![exit.row].status = "closed"]
    <3>1. \A i \in DOMAIN orders : orders[i] \in Row
      BY LenProperties, ElementOfSeq DEF TypeInv, TypeOK
    <3>2. \A r \in Row : /\ [r EXCEPT !.status = "closed"].sid = r.sid
                         /\ [r EXCEPT !.status = "closed"].sym = r.sym
      BY DEF Row
    <3> QED
      BY <2>2, <3>1, <3>2, RowsSettled
  <2> QED
    BY <1>3, <2>1, <2>2 DEF SweepRecord
<1>4. ASSUME NEW t \in Trader, RiskCheck(t) PROVE ReconstructedOnce'
  <2>1. /\ orders \in Seq(Row) /\ "blocked" \in Status
        /\ cand[t].sym \in Contract /\ cand[t].sid \in Strategy
    BY DEF TypeInv, TypeOK, Candidate, Status, _OPTION_CLOSED_STATUSES
  <2>2. UNCHANGED orders \/ InsertRow(cand[t].sym, cand[t].sid, "blocked")
    BY <1>4 DEF RiskCheck, Decide, Record
  <2> QED
    BY <2>1, <2>2, RowsSettled, RowOfStrategy
<1>5. ASSUME NEW t \in Trader, InsertOrder(t) PROVE ReconstructedOnce'
  <2>1. /\ orders \in Seq(Row) /\ cand[t].reply \in Status
        /\ cand[t].sym \in Contract /\ cand[t].sid \in Strategy
    BY <1>5 DEF InsertOrder, TypeInv, TypeOK, Candidate, Replies, Status,
                _OPTION_CLOSED_STATUSES
  <2> QED
    BY <1>5, <2>1, RowsSettled, RowOfStrategy DEF InsertOrder, Record
<1>6. CASE Restart
  <2>1. UNCHANGED orders \/ DOMAIN orders' = {}
    BY <1>6 DEF Restart
  <2> QED
    BY <2>1, RowsSettled DEF ReconstructedOnce
<1>7. CASE UNCHANGED orders
  BY <1>7, RowsSettled
<1> QED
  BY <1>1, <1>2, <1>3, <1>4, <1>5, <1>6, <1>7
  DEF Next, SchedulerStep, CycleStep, Tick, SweepRaises, EntryNotDue, SweepClose,
      StartCycle, CandidateWithoutContract, SelectContract, Submit, EndCycle, BrokerStep,
      MemoExpires, SetKillSwitch

\* However often the process dies and syncs again, with or without its table, no
\* contract has two reconstructed rows; no cycle trades for the placeholder.
THEOREM RebuiltOnce ==
  ASSUME ReconStrategy \notin Strategy PROVE Spec => []ReconstructedOnce
<1>1. Init => TypeInv /\ ReconstructedOnce
  BY TypeInit DEF Init, ReconstructedOnce
<1>2. TypeInv /\ ReconstructedOnce /\ [Next]_vars => (TypeInv /\ ReconstructedOnce)'
  BY TypeNext, ReconstructedNext
<1> QED
  BY <1>1, <1>2, PTL DEF Spec

-----------------------------------------------------------------------------
(* What a reconciliation closes, and what it leaves.                       *)

\* The step the two properties are about is a reconciliation.
LEMMA SyncStep ==
  ASSUME TypeInv, [Next]_vars, pc[Scheduler] = "sync", pc'[Scheduler] = "idle"
  PROVE  ReconcileOrders
<1> USE DEF TypeInv, TypeOK
<1>1. Scheduler \in Trader
  BY DEF Trader
<1>2. ASSUME NEW t \in Trader, CycleStep(t) PROVE FALSE
  <2>1. CASE t = Scheduler
    BY <1>1, <1>2, <2>1
    DEF CycleStep, StartCycle, CandidateWithoutContract, SelectContract, RiskCheck, Submit,
        InsertOrder, EndCycle
  <2>2. CASE t # Scheduler
    <3>1. \E where : pc' = [pc EXCEPT ![t] = where] \/ pc' = pc
      BY <1>2 DEF CycleStep, StartCycle, CandidateWithoutContract, SelectContract, RiskCheck,
                  Decide, Record, Submit, InsertOrder, EndCycle, Goto
    <3> QED
      BY <1>1, <2>2, <3>1
  <2> QED
    BY <2>1, <2>2
<1>3. ~BackfillPositions /\ ~Tick /\ ~SweepRecord /\ ~SweepRaises /\ ~EntryNotDue
  BY DEF BackfillPositions, Tick, SweepRecord, SweepRaises, EntryNotDue
<1>4. \A c \in Contract : ~SweepClose(c)
  BY DEF SweepClose
<1>5. ~BrokerStep /\ ~MemoExpires /\ ~SetKillSwitch /\ ~UNCHANGED vars
  BY DEF BrokerStep, MemoExpires, SetKillSwitch, threads, vars
<1>6. ~Restart
  BY <1>1 DEF Restart
<1> QED
  BY <1>2, <1>3, <1>4, <1>5, <1>6 DEF Next, SchedulerStep

\* A row is closed by it only when its contract is not among the live ones, and a
\* row with a status the sync settles stays open only when it is.
LEMMA Settled ==
  ASSUME TypeInv, NEW live, CloseUnconfirmed(live)
  PROVE  /\ DOMAIN orders' = DOMAIN orders
         /\ \A i \in DOMAIN orders :
              /\ orders[i] \in Row /\ orders'[i].sym = orders[i].sym
              /\ IF orders[i].status \in _OPEN_LOCAL_STATUSES /\ orders[i].sym \notin live
                 THEN orders'[i].status = "reconciled-closed"
                 ELSE orders'[i].status = orders[i].status
<1>1. \A i \in DOMAIN orders : orders[i] \in Row
  BY LenProperties, ElementOfSeq DEF TypeInv, TypeOK
<1>2. \A r \in Row : /\ [r EXCEPT !.status = "reconciled-closed"].sym = r.sym
                     /\ [r EXCEPT !.status = "reconciled-closed"].status = "reconciled-closed"
  BY DEF Row
<1> QED
  BY <1>1, <1>2 DEF CloseUnconfirmed

\* Between the two reads only contracts with a working buy change, and those that
\* do are held afterwards.
LEMMA BetweenFills ==
  ASSUME BrokerInv, NEW trouble, BetweenReads(trouble)
  PROVE  /\ Exposed' = Exposed
         /\ \A c \in Contract :
              \/ c \in Positions <=> c \in Positions'
              \/ c \in OpenBuyOrders \ Positions /\ c \in Positions' \ OpenBuyOrders'
<1> USE DEF Exposed, Positions, OpenBuyOrders
<1>1. CASE UNCHANGED broker
  BY <1>1 DEF broker
<1>2. ASSUME NEW F \in SUBSET OpenBuyOrders, FillAll(F)
      PROVE  /\ Exposed' = Exposed
             /\ \A c \in Contract :
                  \/ c \in Positions <=> c \in Positions'
                  \/ c \in OpenBuyOrders \ Positions /\ c \in Positions' \ OpenBuyOrders'
  BY <1>2 DEF FillAll, BrokerInv, BrokerTypeOK
<1> QED
  BY <1>1, <1>2 DEF BetweenReads

\* The contract of a row the reconciliation closes was out of the account, or
\* entered it between the two reads, where the broker's view finds it.
THEOREM OpenRowsKept == Spec => SyncKeepsOpenRows
<1>1. ASSUME TypeInv, [Next]_vars, pc[Scheduler] = "sync", pc'[Scheduler] = "idle"
      PROVE  \A c \in OpenSymbols(orders) \ OpenSymbols(orders') :
               \/ c \notin Exposed'
               \/ c \in OpenBuyOrders \ Positions /\ c \in Positions' \ OpenBuyOrders'
  <2> SUFFICES ASSUME NEW c \in OpenSymbols(orders) \ OpenSymbols(orders')
               PROVE  \/ c \notin Exposed'
                      \/ c \in OpenBuyOrders \ Positions /\ c \in Positions' \ OpenBuyOrders'
    OBVIOUS
  <2>1. ReconcileOrders
    BY <1>1, SyncStep
  <2>2. BetweenReads("racySync") /\ CloseUnconfirmed(Positions \cup OpenOrders')
    BY <1>1, <2>1 DEF ReconcileOrders
  <2>3. PICK i \in _open_option_buys(orders) : orders[i].sym = c
    BY <1>1 DEF OpenSymbols
  <2>4. c \in Contract
    BY <1>1, <2>2, <2>3, Settled DEF _open_option_buys, Row
  <2>5. c \notin Positions \cup OpenOrders'
    <3>1. SUFFICES ASSUME c \in Positions \cup OpenOrders'
                   PROVE  c \in OpenSymbols(orders')
      BY <1>1
    <3>2. /\ i \in DOMAIN orders' /\ orders'[i].sym = c
          /\ orders'[i].status = orders[i].status
      BY <1>1, <2>2, <2>3, <3>1, Settled DEF _open_option_buys
    <3> QED
      BY <2>3, <3>2 DEF OpenSymbols, _open_option_buys
  <2>6. BrokerInv
    BY <1>1 DEF TypeInv, TypeOK, BrokerInv
  <2>7. c \notin OpenBuyOrders' /\ c \notin Positions
    BY <2>5 DEF OpenOrders
  <2>8. \/ c \in Positions <=> c \in Positions'
        \/ c \in OpenBuyOrders \ Positions /\ c \in Positions' \ OpenBuyOrders'
    BY <2>2, <2>4, <2>6, BetweenFills
  <2>9. Exposed' = Positions' \cup OpenBuyOrders'
    BY DEF Exposed
  <2> QED
    BY <2>7, <2>8, <2>9
<1> QED
  BY <1>1, TypeInit, TypeNext, PTL DEF Spec, SyncKeepsOpenRows

\* Under BROKER_TRUTH the reconciliation frees every slot a row holds without the
\* account being exposed to its contract; a row of status "unknown" is not in the
\* set it settles.
THEOREM SlotsFreed == Spec => SyncFreesSlots
<1>1. ASSUME TypeInv, [Next]_vars, pc[Scheduler] = "sync", pc'[Scheduler] = "idle"
      PROVE  \/ "readFail" \in Env /\ UNCHANGED orders
             \/ \A i \in _open_option_buys(orders') :
                   orders'[i].sym \in Exposed' \/ orders'[i].status = "unknown"
  <2>1. ReconcileOrders
    BY <1>1, SyncStep
  <2>2. ASSUME BetweenReads("racySync"), CloseUnconfirmed(Positions \cup OpenOrders')
        PROVE  \A i \in _open_option_buys(orders') :
                 orders'[i].sym \in Exposed' \/ orders'[i].status = "unknown"
    <3>1. BrokerInv
      BY <1>1 DEF TypeInv, TypeOK, BrokerInv
    <3>2. BrokerInv'
      BY <2>2, <3>1, BrokerMoves, AgentAssumption DEF BetweenReads, OpenBuyOrders
    <3>3. Positions \subseteq Positions'
      <4>1. CASE UNCHANGED broker
        BY <4>1 DEF broker, Positions
      <4>2. ASSUME NEW F \in SUBSET OpenBuyOrders, FillAll(F) PROVE Positions \subseteq Positions'
        BY <3>1, <4>2 DEF FillAll, Positions, BrokerInv, BrokerTypeOK
      <4> QED
        BY <2>2, <4>1, <4>2 DEF BetweenReads
    <3>4. OpenOrders' \subseteq Exposed'
      BY <3>2 DEF OpenOrders, OpenBuyOrders, Exposed, Positions, BrokerInv, BrokerTypeOK
    <3>5. Positions \cup OpenOrders' \subseteq Exposed'
      BY <3>3, <3>4 DEF Exposed
    <3>6. ASSUME NEW i \in DOMAIN orders, orders'[i].status \notin _OPTION_CLOSED_STATUSES
          PROVE  orders'[i].sym \in Exposed' \/ orders'[i].status = "unknown"
      <4>1. orders[i].status \in Status
        BY <1>1, <2>2, Settled DEF Row
      <4>2. CASE orders[i].status \in _OPEN_LOCAL_STATUSES
        BY <1>1, <2>2, <3>5, <3>6, <4>2, Settled DEF _OPTION_CLOSED_STATUSES
      <4>3. CASE orders[i].status \notin _OPEN_LOCAL_STATUSES
        BY <1>1, <2>2, <3>6, <4>1, <4>3, Settled
        DEF Status, _OPEN_LOCAL_STATUSES, _OPTION_CLOSED_STATUSES
      <4> QED
        BY <4>2, <4>3
    <3> QED
      BY <1>1, <2>2, <3>6, Settled DEF _open_option_buys
  <2> QED
    BY <2>1, <2>2 DEF ReconcileOrders
<1> QED
  BY <1>1, TypeInit, TypeNext, PTL DEF Spec, SyncFreesSlots

-----------------------------------------------------------------------------
(* The position ceiling holds for every number of contracts, candidates    *)
(* and positions, through crashes, wipes, unfilled orders, submissions     *)
(* without a status, rows that cannot be written, orders that fill while   *)
(* the startup sync reads and any use of the kill switch, in the           *)
(* deployment the ceiling is safe in: the scheduler alone trades, with     *)
(* BROKER_TRUTH on, reads succeed, the two calls of the risk check's read  *)
(* see the same account, and no reply is lost.  The run AgentTwoCycles     *)
(* shows what a second cycle does to it; a lost reply or a failed read     *)
(* hides an order from the check.                                          *)

Deployed ==
    /\ BrokerTruth /\ ~UseApi
    /\ Env \cap {"readFail", "racyRead", "lostReply"} = {}
    /\ Cardinality(Preheld) <= MaxPositions

\* The account holds finitely many contracts.
LEMMA ExposedFinite ==
  ASSUME NEW S \in SUBSET Contract
  PROVE  IsFiniteSet(S) /\ Cardinality(S) \in Nat
  BY ContractAssumption, FS_Subset, FS_CardinalityType

\* Exposure only shrinks, whatever the broker does on its own.
LEMMA BrokerShrinks ==
  ASSUME BrokerInv, NEW c \in Contract, NEW F \in SUBSET Contract,
         \/ FillAll(F) \/ Fill(c) \/ ExpireBuy(c) \/ FillClose(c)
         \/ ExpireClose(c) \/ DaysPass \/ AcceptClose(c) \/ UNCHANGED broker
  PROVE  Exposed' \subseteq Exposed
<1> USE DEF BrokerInv, BrokerTypeOK, Exposed, Positions, OpenBuyOrders
<1>1. CASE FillAll(F)
  BY <1>1 DEF FillAll
<1>2. CASE Fill(c)
  BY <1>2 DEF Fill
<1>3. CASE ExpireBuy(c)
  BY <1>3 DEF ExpireBuy
<1>4. CASE FillClose(c)
  BY <1>4 DEF FillClose
<1>5. CASE ExpireClose(c)
  BY <1>5 DEF ExpireClose
<1>6. CASE DaysPass
  BY <1>6 DEF DaysPass
<1>7. CASE AcceptClose(c)
  BY <1>7 DEF AcceptClose
<1>8. CASE UNCHANGED broker
  BY <1>8 DEF broker
<1> QED
  BY <1>1, <1>2, <1>3, <1>4, <1>5, <1>6, <1>7, <1>8

\* An accepted buy exposes the account to its own contract and no other.
LEMMA BuyExposes ==
  ASSUME BrokerTypeOK, NEW c \in Contract, AcceptBuy(c)
  PROVE  Exposed' = Exposed \cup {c}
  BY DEF AcceptBuy, BrokerTypeOK, Exposed, Positions, OpenBuyOrders

\* A view read in one piece reports every contract the account is exposed to.
LEMMA ViewReports ==
  ASSUME BrokerTypeOK
  PROVE  Reported(_broker_option_view(Positions, OpenBuyOrders)) = Exposed
<1> DEFINE view == _broker_option_view(Positions, OpenBuyOrders)
<1>1. \A a, b \in Nat : a > 0 /\ b > 0 => a * b > 0
  OBVIOUS
<1>2. \A c \in Contract : Cost[c] \in Nat /\ Cost[c] > 0 /\ held[c] \in Nat
  BY CostAssumption DEF BrokerTypeOK
<1>3. \A c \in Contract : c \in Positions => view[c] > 0
  BY <1>1, <1>2 DEF _broker_option_view, Positions
<1>4. \A c \in Contract : c \in OpenBuyOrders => view[c] > 0
  BY <1>2, <1>3 DEF _broker_option_view, FIXED_OPTION_CONTRACTS
<1>5. \A c \in Contract : c \notin Exposed => view[c] = 0
  BY DEF _broker_option_view, Exposed
<1> QED
  BY <1>3, <1>4, <1>5 DEF Reported, Exposed, Positions, OpenBuyOrders

\* Inserting a row forgets no open row, and shows the contract of one that
\* still counts.
LEMMA InsertShows ==
  ASSUME orders \in Seq(Row), NEW c \in Contract, NEW s \in Strategy, NEW st \in Status,
         InsertRow(c, s, st)
  PROVE  /\ OpenSymbols(orders) \subseteq OpenSymbols(orders')
         /\ st \notin _OPTION_CLOSED_STATUSES => c \in OpenSymbols(orders')
<1> DEFINE row == [sid |-> s, sym |-> c, status |-> st,
                   premium |-> Cost[c] * FIXED_OPTION_CONTRACTS]
<1>1. row \in Row /\ row.sym = c /\ row.status = st
  BY RowTypes
<1>2. orders' = Append(orders, row)
  BY DEF InsertRow
<1> HIDE DEF row
<1>3. /\ Len(orders) \in Nat /\ DOMAIN orders = 1..Len(orders)
      /\ DOMAIN orders' = 1..(Len(orders) + 1)
      /\ \A i \in 1..Len(orders) : orders'[i] = orders[i]
      /\ orders'[Len(orders) + 1] = row
  BY <1>1, <1>2, AppendProperties, LenProperties
<1>4. OpenSymbols(orders) \subseteq OpenSymbols(orders')
  BY <1>3 DEF OpenSymbols, _open_option_buys
<1>5. st \notin _OPTION_CLOSED_STATUSES => c \in OpenSymbols(orders')
  BY <1>1, <1>3 DEF OpenSymbols, _open_option_buys
<1> QED
  BY <1>4, <1>5

\* What fits the ceiling fits it after contracts have left, and one contract
\* more fits while there is a free slot.
LEMMA Slots ==
  ASSUME NEW S \in SUBSET Contract, NEW T \in SUBSET Contract, S \subseteq T
  PROVE  /\ Cardinality(T) <= MaxPositions => Cardinality(S) <= MaxPositions
         /\ \A c \in Contract :
              /\ Cardinality(T \cup {c}) <= MaxPositions
                   => Cardinality(S \cup {c}) <= MaxPositions
              /\ Cardinality(T) < MaxPositions => Cardinality(S \cup {c}) <= MaxPositions
<1>1. IsFiniteSet(T) /\ Cardinality(T) \in Nat /\ Cardinality(S) \in Nat
  BY ExposedFinite
<1>2. Cardinality(S) <= Cardinality(T)
  BY <1>1, FS_Subset
<1>3. ASSUME NEW c \in Contract
      PROVE  /\ Cardinality(T \cup {c}) <= MaxPositions
                  => Cardinality(S \cup {c}) <= MaxPositions
             /\ Cardinality(T) < MaxPositions => Cardinality(S \cup {c}) <= MaxPositions
  <2>1. /\ IsFiniteSet(T \cup {c})
        /\ Cardinality(T \cup {c}) = IF c \in T THEN Cardinality(T) ELSE Cardinality(T) + 1
    BY <1>1, FS_AddElement
  <2>2. S \cup {c} \subseteq T \cup {c}
    OBVIOUS
  <2>3. Cardinality(S \cup {c}) <= Cardinality(T \cup {c})
    BY <2>1, <2>2, FS_Subset
  <2>4. Cardinality(S \cup {c}) \in Nat /\ Cardinality(T \cup {c}) \in Nat
    BY ExposedFinite
  <2> QED
    BY <1>1, <2>1, <2>3, <2>4, LimitAssumption
<1> QED
  BY <1>1, <1>2, <1>3, LimitAssumption

LEMMA OpenIdsContracts ==
  ASSUME orders \in Seq(Row), NEW view \in View
  PROVE  OpenIds(orders, view) \in SUBSET Contract
<1>1. \A i \in DOMAIN orders : orders[i].sym \in Contract
  <2>1. \A i \in DOMAIN orders : orders[i] \in Row
    BY LenProperties, ElementOfSeq
  <2> QED
    BY <2>1 DEF Row
<1> QED
  BY <1>1 DEF OpenIds, Reported, OpenSymbols, _open_option_buys

-----------------------------------------------------------------------------
(* The steps, by how they can disturb CeilingInv.                          *)

\* A step that submits nothing and keeps the candidate and the memoised view.
LEMMA QuietSteps ==
  ASSUME Deployed, TypeInv, CeilingInv, Exposed' \subseteq Exposed,
         OpenSymbols(orders) \subseteq OpenSymbols(orders'),
         UNCHANGED <<memo, pc, cand>>
  PROVE  CeilingInv'
<1> USE DEF TypeInv, TypeOK
<1>1. Exposed \in SUBSET Contract /\ Exposed' \in SUBSET Contract
  BY DEF Exposed, Positions, OpenBuyOrders
<1>2. \A t \in Trader : cand[t].sym \in Contract
  BY DEF Candidate
<1>3. /\ Cardinality(Exposed') <= MaxPositions
      /\ \A c \in Contract : Cardinality(Exposed \cup {c}) <= MaxPositions
                              => Cardinality(Exposed' \cup {c}) <= MaxPositions
  BY <1>1, Slots DEF CeilingInv, PositionCeiling
<1>4. PositionCeiling'
  BY <1>3 DEF PositionCeiling
<1>5. ViewCoversAccount'
  BY DEF CeilingInv, ViewCoversAccount, InFlight, OpenIds
<1>6. \A t \in Trader :
         pc'[t] = "submit" => Cardinality(Exposed' \cup {cand'[t].sym}) <= MaxPositions
  BY <1>2, <1>3 DEF CeilingInv
<1> QED
  BY <1>4, <1>5, <1>6 DEF CeilingInv

\* A step that leaves no memoised view, and no thread about to submit but one
\* that was before.
LEMMA UnmemoisedSteps ==
  ASSUME Deployed, TypeInv, CeilingInv, Exposed' \subseteq Exposed, ~memo'.fresh,
         \A t \in Trader : pc'[t] = "submit" => pc[t] = "submit" /\ cand'[t] = cand[t]
  PROVE  CeilingInv'
<1> USE DEF TypeInv, TypeOK
<1>1. Exposed \in SUBSET Contract /\ Exposed' \in SUBSET Contract
  BY DEF Exposed, Positions, OpenBuyOrders
<1>2. \A t \in Trader : cand[t].sym \in Contract
  BY DEF Candidate
<1>3. /\ Cardinality(Exposed') <= MaxPositions
      /\ \A c \in Contract : Cardinality(Exposed \cup {c}) <= MaxPositions
                              => Cardinality(Exposed' \cup {c}) <= MaxPositions
  BY <1>1, Slots DEF CeilingInv, PositionCeiling
<1>4. PositionCeiling'
  BY <1>3 DEF PositionCeiling
<1>5. \A t \in Trader :
         pc'[t] = "submit" => Cardinality(Exposed' \cup {cand'[t].sym}) <= MaxPositions
  BY <1>2, <1>3 DEF CeilingInv
<1> QED
  BY <1>4, <1>5 DEF CeilingInv, ViewCoversAccount

\* A check decides on a view that with the local rows covers the account, the
\* memoised one or one it has just read, and leaves no other memoised.
LEMMA CheckedView ==
  ASSUME Deployed, TypeInv, CeilingInv, NEW t \in Trader, RiskCheck(t)
  PROVE  /\ UNCHANGED broker /\ Exposed' = Exposed
         /\ \E view \in View :
              /\ Decide(t, view, 1)
              /\ Exposed \subseteq OpenIds(orders, view)
              /\ memo'.fresh => memo'.view = view
              /\ \/ memo.fresh /\ view = memo.view
                 \/ view = _broker_option_view(Positions, OpenBuyOrders)
<1> USE DEF TypeInv, TypeOK
<1>1. t = Scheduler /\ Trader = {Scheduler}
  BY DEF Trader, Deployed
<1>2. InFlight = {}
  BY <1>1 DEF InFlight, RiskCheck
<1>3. UNCHANGED broker /\ Exposed' = Exposed
  BY DEF RiskCheck, BetweenReads, Deployed, broker, Exposed, Positions, OpenBuyOrders
<1>4. CASE memo.fresh
  <2>1. Decide(t, memo.view, 1) /\ memo' = memo
    BY <1>4 DEF RiskCheck, Deployed
  <2>2. pc[t] = "check"
    BY DEF RiskCheck
  <2> QED
    BY <1>2, <1>3, <1>4, <2>1, <2>2 DEF CeilingInv, ViewCoversAccount
<1>5. CASE ~memo.fresh
  <2> DEFINE v == _broker_option_view(Positions, OpenBuyOrders)
  <2>1. OpenBuyOrders' = OpenBuyOrders
    BY <1>3 DEF broker, OpenBuyOrders
  <2>2. /\ Decide(t, v, 1)
        /\ memo' = [fresh |-> TRUE, prior |-> FALSE, view |-> v] \/ memo' = memo
    BY <1>5, <2>1 DEF RiskCheck, Deployed
  <2>3. v \in View /\ Reported(v) = Exposed
    BY ViewType, ViewReports
  <2> QED
    BY <1>3, <1>5, <2>2, <2>3 DEF OpenIds
<1> QED
  BY <1>4, <1>5

\* A passed check leaves a slot for its contract; a blocked one forgets no row.
LEMMA CheckSteps ==
  ASSUME Deployed, TypeInv, CeilingInv, NEW t \in Trader, RiskCheck(t)
  PROVE  CeilingInv'
<1> USE DEF TypeInv, TypeOK, Goto
<1> DEFINE c == cand[t].sym
<1>1. c \in Contract /\ cand[t].sid \in Strategy /\ "blocked" \in Status
  BY DEF Candidate, Status, _OPTION_CLOSED_STATUSES
<1>2. t = Scheduler /\ Trader = {Scheduler}
  BY DEF Trader, Deployed
<1>3. Exposed' = Exposed
  BY CheckedView
<1>4. PICK view \in View :
        /\ Decide(t, view, 1)
        /\ Exposed \subseteq OpenIds(orders, view)
        /\ memo'.fresh => memo'.view = view
  BY CheckedView
<1>5. Exposed \in SUBSET Contract /\ OpenIds(orders, view) \in SUBSET Contract
  BY OpenIdsContracts DEF Exposed, Positions, OpenBuyOrders
<1>6. PositionCeiling'
  BY <1>3 DEF CeilingInv, PositionCeiling
<1>7. CASE /\ check_option(c, killed, orders, sells, view, 1)
           /\ Goto(t, "submit")
           /\ UNCHANGED <<orders, cand>>
  <2>1. Cardinality(OpenIds(orders, view)) < MaxPositions
    BY <1>7 DEF check_option, _live_position_strategy_count, ViewAt, Deployed
  <2>2. Cardinality(Exposed \cup {c}) <= MaxPositions
    BY <1>1, <1>4, <1>5, <2>1, Slots
  <2>3. ViewCoversAccount'
    BY <1>3, <1>4, <1>7 DEF ViewCoversAccount, OpenIds
  <2> QED
    BY <1>2, <1>3, <1>6, <1>7, <2>2, <2>3 DEF CeilingInv
<1>8. CASE Record(t, "blocked")
  <2>1. OpenSymbols(orders) \subseteq OpenSymbols(orders')
    BY <1>1, <1>8, InsertShows DEF Record
  <2>2. ViewCoversAccount'
    BY <1>3, <1>4, <2>1 DEF ViewCoversAccount, OpenIds
  <2> QED
    BY <1>2, <1>6, <1>8, <2>2 DEF CeilingInv, Record
<1> QED
  BY <1>4, <1>7, <1>8 DEF Decide

\* A submission enters the contract its check left a slot for, and keeps it in
\* flight until its row is inserted.
LEMMA SubmitSteps ==
  ASSUME Deployed, TypeInv, CeilingInv, NEW t \in Trader, Submit(t)
  PROVE  /\ CeilingInv'
         /\ Exposed' = Exposed \/ Exposed' = Exposed \cup {cand[t].sym}
<1> USE DEF TypeInv, TypeOK, Goto
<1> DEFINE c == cand[t].sym
<1>1. c \in Contract
  BY DEF Candidate
<1>2. t = Scheduler /\ Trader = {Scheduler}
  BY DEF Trader, Deployed
<1>3. PICK reply \in Replies :
        /\ SubmitReply(c, reply)
        /\ cand' = [cand EXCEPT ![t].reply = reply]
  BY DEF Submit
<1>4. /\ pc[t] = "submit" /\ pc' = [pc EXCEPT ![t] = "insert"]
      /\ UNCHANGED <<orders, memo>>
  BY DEF Submit, db
<1>5. cand'[t].sym = c /\ cand'[t].reply = reply
  BY <1>3 DEF Candidate
<1>6. \/ Exposed' = Exposed
      \/ Exposed' = Exposed \cup {c} /\ reply \in {"accepted", "unknown"}
  <2>1. CASE UNCHANGED broker
    BY <2>1 DEF broker, Exposed, Positions, OpenBuyOrders
  <2>2. CASE AcceptBuy(c) /\ reply \in {"accepted", "unknown"}
    BY <1>1, <2>2, BuyExposes
  <2> QED
    BY <1>3, <2>1, <2>2 DEF SubmitReply, Deployed
<1>7. InFlight = {}
  BY <1>2, <1>4 DEF InFlight
<1>8. reply \in {"accepted", "unknown"} => c \in InFlight'
  BY <1>2, <1>4, <1>5 DEF InFlight
<1>9. ViewCoversAccount'
  BY <1>4, <1>6, <1>7, <1>8 DEF CeilingInv, ViewCoversAccount
<1>10. PositionCeiling'
  BY <1>4, <1>6 DEF CeilingInv, PositionCeiling
<1> QED
  BY <1>2, <1>4, <1>6, <1>9, <1>10 DEF CeilingInv

\* The row of a submission shows its contract before it stops being in flight; a
\* cycle whose row cannot be inserted makes no check any more.
LEMMA InsertSteps ==
  ASSUME Deployed, TypeInv, CeilingInv, NEW t \in Trader, InsertOrder(t)
  PROVE  CeilingInv'
<1> USE DEF TypeInv, TypeOK, Goto
<1> DEFINE c == cand[t].sym
<1>1. pc[t] = "insert" /\ Record(t, cand[t].reply) /\ UNCHANGED <<broker, memo>>
  BY DEF InsertOrder
<1>2. c \in Contract /\ cand[t].sid \in Strategy /\ cand[t].reply \in Status
  BY <1>1 DEF Candidate, Replies, Status, _OPTION_CLOSED_STATUSES
<1>3. t = Scheduler /\ Trader = {Scheduler}
  BY DEF Trader, Deployed
<1>4. Exposed' = Exposed
  BY <1>1 DEF broker, Exposed, Positions, OpenBuyOrders
<1>5. CASE InsertRow(c, cand[t].sid, cand[t].reply) /\ pc' = [pc EXCEPT ![t] = "next"]
  <2>1. /\ OpenSymbols(orders) \subseteq OpenSymbols(orders')
        /\ cand[t].reply \in {"accepted", "unknown"} => c \in OpenSymbols(orders')
    BY <1>2, <1>5, InsertShows DEF _OPTION_CLOSED_STATUSES
  <2>2. InFlight \subseteq OpenSymbols(orders')
    BY <1>3, <2>1 DEF InFlight
  <2>3. ViewCoversAccount'
    BY <1>1, <1>3, <1>4, <2>1, <2>2 DEF CeilingInv, ViewCoversAccount, OpenIds
  <2> QED
    BY <1>1, <1>3, <1>4, <1>5, <2>3 DEF CeilingInv, PositionCeiling
<1>6. CASE pc' = [pc EXCEPT ![t] = "raised"]
  <2>1. ViewCoversAccount'
    BY <1>3, <1>6 DEF ViewCoversAccount
  <2> QED
    BY <1>1, <1>3, <1>4, <1>6, <2>1 DEF CeilingInv, PositionCeiling
<1> QED
  BY <1>1, <1>5, <1>6 DEF Record

-----------------------------------------------------------------------------
(* The invariant and the abstract specification.                           *)

\* AccountBook counts with the same operator.
LEMMA BookCardinality == \A S : Book!Cardinality(S) = Cardinality(S)
  BY DEF Book!Cardinality, Cardinality, Book!IsFiniteSet, IsFiniteSet

LEMMA CeilingInit == Deployed /\ Init => CeilingInv
<1> SUFFICES ASSUME Deployed, Init PROVE CeilingInv
  OBVIOUS
<1>1. Exposed = Preheld
  BY PreheldAssumption DEF Init, BrokerInit, Exposed, Positions, OpenBuyOrders
<1>2. ~memo.fresh /\ \A t \in Trader : pc[t] # "submit"
  BY DEF Init, NoMemo
<1> QED
  BY <1>1, <1>2 DEF CeilingInv, PositionCeiling, ViewCoversAccount, Deployed

\* Every step keeps the invariant, and changes the account's exposure as the
\* abstract book allows.
LEMMA CeilingNext ==
  ASSUME Deployed, TypeInv, CeilingInv, [Next]_vars
  PROVE  CeilingInv' /\ [Book!Next]_Exposed
<1> USE DEF db, threads, vars, Goto
<1>0. /\ BrokerInv /\ BrokerTypeOK
      /\ DOMAIN pc = Trader
      /\ Contract # {}
  BY AgentAssumption DEF TypeInv, TypeOK, BrokerInv
<1>1. Scheduler \in Trader /\ Trader = {Scheduler}
  BY DEF Trader, Deployed
<1>a. ASSUME UNCHANGED broker PROVE Exposed' = Exposed
  BY <1>a DEF broker, Exposed, Positions, OpenBuyOrders
<1>2. CASE BackfillPositions
  <2>1. ~memo.fresh
    BY <1>2 DEF CeilingInv, BackfillPositions
  <2> QED
    BY <1>0, <1>1, <1>2, <1>a, <2>1, UnmemoisedSteps DEF BackfillPositions
<1>3. CASE ReconcileOrders
  <2>1. ~memo.fresh
    BY <1>3 DEF CeilingInv, ReconcileOrders
  <2>2. Exposed' = Exposed /\ UNCHANGED memo
    BY <1>0, <1>3, <1>a, BetweenFills DEF ReconcileOrders
  <2> QED
    BY <1>0, <1>1, <1>3, <2>1, <2>2, UnmemoisedSteps DEF ReconcileOrders
<1>4. CASE Tick
  <2>1. ~memo'.fresh
    BY <1>4 DEF CeilingInv, Tick, NoMemo
  <2> QED
    BY <1>0, <1>1, <1>4, <1>a, <2>1, UnmemoisedSteps DEF Tick
<1>5. CASE SweepRecord
  <2>1. ~memo.fresh
    BY <1>5 DEF CeilingInv, SweepRecord
  <2> QED
    BY <1>0, <1>1, <1>5, <1>a, <2>1, UnmemoisedSteps DEF SweepRecord
<1>6. CASE EntryNotDue
  <2>1. ~memo.fresh
    BY <1>6 DEF CeilingInv, EntryNotDue
  <2>2. ~memo'.fresh
    BY <1>6, <2>1 DEF EntryNotDue, TypeInv, TypeOK
  <2> QED
    BY <1>0, <1>1, <1>6, <1>a, <2>2, UnmemoisedSteps DEF EntryNotDue
<1>7. ASSUME NEW c \in Contract, SweepClose(c) PROVE CeilingInv' /\ [Book!Next]_Exposed
  <2>1. ~memo'.fresh
    BY <1>7 DEF CeilingInv, SweepClose
  <2>2. Exposed' = Exposed
    <3>1. CASE AcceptClose(c)
      BY <3>1, <1>0 DEF AcceptClose, Exposed, Positions, OpenBuyOrders
    <3> QED
      BY <1>7, <1>a, <3>1 DEF SweepClose, CloseReply
  <2> QED
    BY <1>0, <1>1, <1>7, <2>1, <2>2, UnmemoisedSteps DEF SweepClose
<1>8. ASSUME NEW t \in Trader, StartCycle(t) PROVE CeilingInv' /\ [Book!Next]_Exposed
  <2>1. ~memo'.fresh
    BY <1>1, <1>8 DEF CeilingInv, StartCycle
  <2> QED
    BY <1>0, <1>1, <1>8, <1>a, <2>1, UnmemoisedSteps DEF StartCycle
<1>9. ASSUME NEW t \in Trader, CandidateWithoutContract(t)
      PROVE  CeilingInv' /\ [Book!Next]_Exposed
  BY <1>9, <1>a, QuietSteps DEF CandidateWithoutContract
<1>10. ASSUME NEW t \in Trader, SelectContract(t) PROVE CeilingInv' /\ [Book!Next]_Exposed
  <2>1. Exposed' = Exposed /\ UNCHANGED <<orders, memo>>
    BY <1>10, <1>a DEF SelectContract
  <2>2. pc[Scheduler] = "next" /\ pc'[Scheduler] = "check"
    BY <1>0, <1>1, <1>10 DEF SelectContract
  <2>3. InFlight = {} /\ InFlight' = {}
    BY <1>1, <2>2 DEF InFlight
  <2> QED
    BY <1>1, <2>1, <2>2, <2>3 DEF CeilingInv, PositionCeiling, ViewCoversAccount, OpenIds
<1>11. ASSUME NEW t \in Trader, RiskCheck(t) PROVE CeilingInv' /\ [Book!Next]_Exposed
  <2>1. UNCHANGED broker
    BY <1>11 DEF RiskCheck, BetweenReads, Deployed, broker
  <2> QED
    BY <1>11, <1>a, <2>1, CheckSteps
<1>12. ASSUME NEW t \in Trader, Submit(t) PROVE CeilingInv' /\ [Book!Next]_Exposed
  <2> DEFINE c == cand[t].sym
  <2>1. c \in Contract
    BY DEF TypeInv, TypeOK, Candidate
  <2>2. Exposed \in SUBSET Contract /\ IsFiniteSet(Exposed) /\ Cardinality(Exposed) \in Nat
    BY ExposedFinite DEF Exposed, Positions, OpenBuyOrders
  <2>3. Cardinality(Exposed \cup {c}) <= MaxPositions
    BY <1>12 DEF CeilingInv, Submit
  <2>4. ASSUME c \notin Exposed, Exposed' = Exposed \cup {c} PROVE Book!Enter(c)
    <3>1. Cardinality(Exposed \cup {c}) = Cardinality(Exposed) + 1
      BY <2>2, <2>4, FS_AddElement
    <3>2. Cardinality(Exposed) < MaxPositions
      BY <2>2, <2>3, <3>1, LimitAssumption
    <3> QED
      BY <2>4, <3>2, BookCardinality DEF Book!Enter
  <2>5. Exposed' = Exposed \/ Exposed' = Exposed \cup {c}
    BY <1>12, SubmitSteps
  <2>6. [Book!Next]_Exposed
    BY <2>1, <2>4, <2>5 DEF Book!Next
  <2> QED
    BY <1>12, <2>6, SubmitSteps
<1>13. ASSUME NEW t \in Trader, InsertOrder(t) PROVE CeilingInv' /\ [Book!Next]_Exposed
  BY <1>13, <1>a, InsertSteps DEF InsertOrder
<1>14. ASSUME NEW t \in Trader, EndCycle(t) PROVE CeilingInv' /\ [Book!Next]_Exposed
  <2>1. Exposed' = Exposed /\ UNCHANGED orders
    BY <1>14, <1>a DEF EndCycle
  <2>2. pc[Scheduler] \in {"next", "raised"} /\ pc'[Scheduler] = "idle"
    BY <1>0, <1>1, <1>14 DEF EndCycle
  <2>3. memo' = [memo EXCEPT !.prior = memo.fresh]
    BY <1>1, <1>14 DEF EndCycle
  <2>4. memo'.fresh = memo.fresh /\ memo'.view = memo.view /\ memo'.prior = memo.fresh
    BY <2>3 DEF TypeInv, TypeOK
  <2> QED
    BY <1>1, <2>1, <2>2, <2>4 DEF CeilingInv, PositionCeiling, ViewCoversAccount
<1>15. CASE BrokerStep
  <2>1. PICK c \in Contract :
          Fill(c) \/ FillClose(c) \/ ExpireBuy(c) \/ ExpireClose(c) \/ DaysPass
    BY <1>0, <1>15 DEF BrokerStep
  <2>2. Exposed' \subseteq Exposed
    BY <1>0, <2>1, BrokerShrinks
  <2>3. Exposed' = Exposed \/ Exposed' = Exposed \ {c}
    BY <1>0, <2>1
    DEF Fill, FillClose, ExpireBuy, ExpireClose, DaysPass,
        Exposed, Positions, OpenBuyOrders, BrokerTypeOK, BrokerInv, Age
  <2>4. [Book!Next]_Exposed
    BY <2>3 DEF Book!Next, Book!Leave
  <2> QED
    BY <1>15, <2>2, <2>4, QuietSteps DEF BrokerStep
<1>16. CASE MemoExpires
  BY <1>16, <1>a, UnmemoisedSteps DEF MemoExpires, NoMemo
<1>17. CASE SetKillSwitch
  BY <1>17, <1>a, QuietSteps DEF SetKillSwitch
<1>18. CASE Restart
  BY <1>18, <1>1, <1>a, UnmemoisedSteps DEF Restart, NoMemo
<1>19. CASE UNCHANGED vars
  BY <1>19, <1>a, QuietSteps
<1>20. CASE SweepRaises
  <2>1. ~memo.fresh
    BY <1>20 DEF CeilingInv, SweepRaises
  <2>2. ~memo'.fresh
    BY <1>20, <2>1 DEF SweepRaises, TypeInv, TypeOK
  <2> QED
    BY <1>0, <1>1, <1>20, <1>a, <2>2, UnmemoisedSteps DEF SweepRaises
<1> QED
  BY <1>2, <1>3, <1>4, <1>5, <1>6, <1>7, <1>8, <1>9, <1>10, <1>11, <1>12, <1>13,
     <1>14, <1>15, <1>16, <1>17, <1>18, <1>19, <1>20 DEF Next, SchedulerStep, CycleStep

\* While the scheduler alone trades on broker truth, its account never exceeds
\* the concurrent-position ceiling, however many cycles, crashes, wipes and
\* expired orders there are (risk.py, control 2).
THEOREM CeilingHolds ==
  ASSUME Deployed PROVE Spec => []PositionCeiling
<1>1. Init => TypeInv /\ CeilingInv
  BY TypeInit, CeilingInit
<1>2. TypeInv /\ CeilingInv /\ [Next]_vars => (TypeInv /\ CeilingInv)'
  BY TypeNext, CeilingNext
<1>3. CeilingInv => PositionCeiling
  BY DEF CeilingInv
<1> QED
  BY <1>1, <1>2, <1>3, PTL DEF Spec

\* Where a memoised view is still to be used, it, the local rows and the buy in
\* flight between them cover everything the account is exposed to (risk.py,
\* _BROKER_TTL_S).
THEOREM ViewHolds ==
  ASSUME Deployed PROVE Spec => []ViewCoversAccount
<1>1. Init => TypeInv /\ CeilingInv
  BY TypeInit, CeilingInit
<1>2. TypeInv /\ CeilingInv /\ [Next]_vars => (TypeInv /\ CeilingInv)'
  BY TypeNext, CeilingNext
<1>3. CeilingInv => ViewCoversAccount
  BY DEF CeilingInv
<1> QED
  BY <1>1, <1>2, <1>3, PTL DEF Spec

\* The agent implements the abstract book: its account enters one contract at a
\* time, only into a free slot, and leaves one at a time.
THEOREM BookImplemented ==
  ASSUME Deployed PROVE Spec => RefinesAccountBook
<1>1. Init => TypeInv /\ CeilingInv /\ Book!Init
  <2>1. Init => Exposed \subseteq Contract
    BY DEF Exposed, Positions, OpenBuyOrders
  <2> QED
    BY <2>1, TypeInit, CeilingInit, BookCardinality DEF Book!Init, CeilingInv, PositionCeiling
<1>2. TypeInv /\ CeilingInv /\ [Next]_vars => (TypeInv /\ CeilingInv)'
  BY TypeNext, CeilingNext
<1>3. TypeInv /\ CeilingInv /\ [Next]_vars => [Book!Next]_Exposed
  BY CeilingNext
<1> QED
  BY <1>1, <1>2, <1>3, PTL DEF Spec, RefinesAccountBook, Book!Spec

-----------------------------------------------------------------------------
(* Sums over finite sets.  A sum takes the elements of its set one by one, *)
(* in an order CHOOSE fixes; that the order does not matter, and the       *)
(* bounds that follow, are shown by induction over the set.                *)

\* What holds of the empty set, and of a set when it holds of the set without any
\* one of its elements, holds of every finite set.
LEMMA FiniteInduction ==
  ASSUME NEW S, IsFiniteSet(S), NEW T, {} \in T,
         \A A \in SUBSET S : A # {} /\ (\A x \in A : A \ {x} \in T) => A \in T
  PROVE  \A A \in SUBSET S : A \in T
<1> SUFFICES ASSUME (SUBSET S) \ T # {} PROVE FALSE
  OBVIOUS
<1>1. (SUBSET S) \ T \subseteq FiniteSubsetsOf(S)
  BY FS_Subset DEF FiniteSubsetsOf
<1>2. PICK A \in (SUBSET S) \ T :
        \A B \in (SUBSET S) \ T : ~ (<<B, A>> \in StrictSubsetOrdering(S))
  BY <1>1, WFMin, FS_StrictSubsetOrderingWellFounded
<1>3. ASSUME NEW x \in A PROVE A \ {x} \in T
  <2>1. A \ {x} \in SUBSET S /\ A \ {x} \subseteq A /\ A \ {x} # A
    OBVIOUS
  <2>2. <<A \ {x}, A>> \in StrictSubsetOrdering(S)
    BY <2>1 DEF StrictSubsetOrdering
  <2> QED
    BY <1>2, <2>1, <2>2
<1> QED
  BY <1>2, <1>3

Pick(S) == CHOOSE x \in S : TRUE

\* g is the recursive function by which the sums of f over the subsets of S are defined.
Sums(g, f, S) ==
    g = [s \in SUBSET S |-> IF s = {} THEN 0 ELSE f[Pick(s)] + g[s \ {Pick(s)}]]

LEMMA SumsAgree ==
  ASSUME NEW f, NEW A, NEW B, NEW g, NEW h, Sums(g, f, A), Sums(h, f, B),
         NEW C \in SUBSET (A \cap B), IsFiniteSet(C)
  PROVE  g[C] = h[C]
<1> DEFINE T == {s \in SUBSET C : g[s] = h[s]}
<1>1. ASSUME NEW s \in SUBSET C
      PROVE  /\ g[s] = IF s = {} THEN 0 ELSE f[Pick(s)] + g[s \ {Pick(s)}]
             /\ h[s] = IF s = {} THEN 0 ELSE f[Pick(s)] + h[s \ {Pick(s)}]
  <2>1. s \in SUBSET A /\ s \in SUBSET B
    OBVIOUS
  <2> QED
    BY <2>1 DEF Sums
<1>2. {} \in T
  BY <1>1
<1>3. ASSUME NEW s \in SUBSET C, s # {}, \A x \in s : s \ {x} \in T PROVE s \in T
  <2>1. Pick(s) \in s
    BY <1>3 DEF Pick
  <2>2. g[s \ {Pick(s)}] = h[s \ {Pick(s)}]
    BY <1>3, <2>1
  <2> QED
    BY <1>1, <1>3, <2>2
<1> HIDE DEF T
<1>4. C \in T
  BY <1>2, <1>3, FiniteInduction
<1> QED
  BY <1>4 DEF T

\* A set has its sums when its subsets of one element less have theirs.
LEMMA SumsExtend ==
  ASSUME NEW f, NEW A, IsFiniteSet(A), A # {}, \A x \in A : \E g : Sums(g, f, A \ {x})
  PROVE  \E h : Sums(h, f, A)
<1> DEFINE G == [x \in A |-> CHOOSE g : Sums(g, f, A \ {x})]
           p == Pick(A)
           h == [s \in SUBSET A |-> IF s = A THEN f[p] + G[p][A \ {p}] ELSE G[Pick(A \ s)][s]]
<1>1. \A x \in A : Sums(G[x], f, A \ {x})
  OBVIOUS
<1>2. p \in A
  BY DEF Pick
<1> HIDE DEF G, p
<1>3. ASSUME NEW s \in SUBSET A, s # A
      PROVE  /\ h[s] = G[Pick(A \ s)][s]
             /\ Pick(A \ s) \in A \ s
             /\ s \in SUBSET (A \ {Pick(A \ s)})
  <2>1. A \ s # {}
    BY <1>3
  <2>2. Pick(A \ s) \in A \ s
    BY <2>1 DEF Pick
  <2> QED
    BY <1>3, <2>2
<1>4. ASSUME NEW s \in SUBSET A, NEW x \in A, s \in SUBSET (A \ {x}) PROVE h[s] = G[x][s]
  <2>1. s # A
    BY <1>4
  <2> DEFINE y == Pick(A \ s)
  <2>2. h[s] = G[y][s] /\ y \in A /\ s \in SUBSET (A \ {y})
    BY <1>3, <2>1
  <2> HIDE DEF y, h
  <2>3. Sums(G[x], f, A \ {x}) /\ Sums(G[y], f, A \ {y})
    BY <1>1, <2>2
  <2>4. s \in SUBSET ((A \ {x}) \cap (A \ {y})) /\ IsFiniteSet(s)
    BY <1>4, <2>2, FS_Subset
  <2>5. G[x][s] = G[y][s]
    BY <2>3, <2>4, SumsAgree
  <2> QED
    BY <2>2, <2>5
<1>5. ASSUME NEW s \in SUBSET A
      PROVE  h[s] = IF s = {} THEN 0 ELSE f[Pick(s)] + h[s \ {Pick(s)}]
  <2>1. CASE s = A
    <3>1. h[s \ {p}] = G[p][A \ {p}]
      BY <1>2, <1>4, <2>1
    <3> QED
      BY <2>1, <3>1 DEF p
  <2>2. CASE s # A
    <3> DEFINE y == Pick(A \ s)
    <3>1. h[s] = G[y][s] /\ y \in A /\ s \in SUBSET (A \ {y})
      BY <1>3, <2>2
    <3> HIDE DEF y
    <3>2. h[s \ {Pick(s)}] = G[y][s \ {Pick(s)}]
      BY <1>4, <3>1
    <3> HIDE DEF h
    <3>3. G[y][s] = IF s = {} THEN 0 ELSE f[Pick(s)] + G[y][s \ {Pick(s)}]
      BY <1>1, <3>1, ZenonT(60) DEF Sums
    <3> QED
      BY <3>1, <3>2, <3>3
  <2> QED
    BY <2>1, <2>2
<1>6. Sums(h, f, A)
  BY <1>5 DEF Sums
<1> QED
  BY <1>6

LEMMA SumsExist == ASSUME NEW f, NEW S, IsFiniteSet(S) PROVE \E g : Sums(g, f, S)
<1> DEFINE T == {A \in SUBSET S : \E g : Sums(g, f, A)}
<1>1. {} \in T
  <2>1. Sums([s \in SUBSET {} |-> 0], f, {})
    BY DEF Sums
  <2> QED
    BY <2>1
<1>2. ASSUME NEW A \in SUBSET S, A # {}, \A x \in A : A \ {x} \in T PROVE A \in T
  BY <1>2, SumsExtend, FS_Subset
<1> HIDE DEF T
<1>3. \A A \in SUBSET S : A # {} /\ (\A x \in A : A \ {x} \in T) => A \in T
  BY <1>2
<1>4. \A A \in SUBSET S : A \in T
  BY <1>1, <1>3, FiniteInduction
<1>5. S \in T
  BY <1>4
<1> QED
  BY <1>5 DEF T

LEMMA SumIs ==
  ASSUME NEW f, NEW S, IsFiniteSet(S), NEW g, NEW R, Sums(g, f, R), S \in SUBSET R
  PROVE  SumFunctionOnSet(f, S) = g[S]
<1>1. SumFunctionOnSet(f, S) = (CHOOSE h : Sums(h, f, S))[S]
  BY DEF SumFunctionOnSet, FoldFunctionOnSet, MapThenFoldSet, Pick, Sums
<1>2. Sums(CHOOSE h : Sums(h, f, S), f, S)
  BY SumsExist
<1>3. S \in SUBSET (S \cap R)
  OBVIOUS
<1> QED
  BY <1>1, <1>2, <1>3, SumsAgree

LEMMA SumStep ==
  ASSUME NEW f, NEW S, IsFiniteSet(S)
  PROVE  SumFunctionOnSet(f, S) = IF S = {} THEN 0
                                  ELSE f[Pick(S)] + SumFunctionOnSet(f, S \ {Pick(S)})
<1>1. PICK g : Sums(g, f, S)
  BY SumsExist
<1>2. S \in SUBSET S /\ S \ {Pick(S)} \in SUBSET S /\ IsFiniteSet(S \ {Pick(S)})
  BY FS_Subset
<1>3. g[S] = IF S = {} THEN 0 ELSE f[Pick(S)] + g[S \ {Pick(S)}]
  BY <1>1, <1>2 DEF Sums
<1> QED
  BY <1>1, <1>2, <1>3, SumIs

LEMMA SumNatural ==
  ASSUME NEW f, NEW S, IsFiniteSet(S), \A x \in S : f[x] \in Nat
  PROVE  SumFunctionOnSet(f, S) \in Nat
<1> DEFINE T == {A \in SUBSET S : SumFunctionOnSet(f, A) \in Nat}
<1>1. {} \in T
  <2>1. SumFunctionOnSet(f, {}) = 0
    BY SumStep, FS_EmptySet
  <2> QED
    BY <2>1
<1>2. ASSUME NEW A \in SUBSET S, A # {}, \A x \in A : A \ {x} \in T PROVE A \in T
  <2>1. Pick(A) \in A /\ IsFiniteSet(A)
    BY <1>2, FS_Subset DEF Pick
  <2>2. f[Pick(A)] \in Nat /\ SumFunctionOnSet(f, A \ {Pick(A)}) \in Nat
    BY <1>2, <2>1
  <2>3. SumFunctionOnSet(f, A) = f[Pick(A)] + SumFunctionOnSet(f, A \ {Pick(A)})
    BY <1>2, <2>1, SumStep
  <2> QED
    BY <2>2, <2>3
<1> HIDE DEF T
<1>3. \A A \in SUBSET S : A # {} /\ (\A x \in A : A \ {x} \in T) => A \in T
  BY <1>2
<1>4. \A A \in SUBSET S : A \in T
  BY <1>1, <1>3, FiniteInduction
<1>5. S \in T
  BY <1>4
<1> QED
  BY <1>5 DEF T

\* Any element can be taken out of a sum first.
LEMMA SumOut ==
  ASSUME NEW f, NEW S, IsFiniteSet(S), \A x \in S : f[x] \in Nat
  PROVE  \A x \in S : SumFunctionOnSet(f, S) = f[x] + SumFunctionOnSet(f, S \ {x})
<1> DEFINE Sum(A) == SumFunctionOnSet(f, A)
           T == {A \in SUBSET S : \A x \in A : Sum(A) = f[x] + Sum(A \ {x})}
<1>1. ASSUME NEW A \in SUBSET S, A # {}
      PROVE  Pick(A) \in A /\ Sum(A) = f[Pick(A)] + Sum(A \ {Pick(A)})
  <2>1. IsFiniteSet(A)
    BY FS_Subset
  <2> QED
    BY <1>1, <2>1, SumStep DEF Pick
<1>2. ASSUME NEW A \in SUBSET S PROVE Sum(A) \in Nat
  <2>1. IsFiniteSet(A)
    BY FS_Subset
  <2> QED
    BY <2>1, SumNatural
<1> HIDE DEF Sum
<1>3. {} \in T
  OBVIOUS
<1>4. ASSUME NEW A \in SUBSET S, A # {}, \A x \in A : A \ {x} \in T PROVE A \in T
  <2>1. PICK p \in A : Sum(A) = f[p] + Sum(A \ {p})
    BY <1>1, <1>4
  <2>2. ASSUME NEW x \in A, x # p PROVE Sum(A) = f[x] + Sum(A \ {x})
    <3>1. Sum(A \ {p}) = f[x] + Sum((A \ {p}) \ {x})
      BY <1>4, <2>2
    <3>2. Sum(A \ {x}) = f[p] + Sum((A \ {p}) \ {x})
      <4>1. Sum(A \ {x}) = f[p] + Sum((A \ {x}) \ {p})
        BY <1>4, <2>2
      <4>2. (A \ {p}) \ {x} = (A \ {x}) \ {p}
        OBVIOUS
      <4> QED
        BY <4>1, <4>2
    <3> DEFINE a == f[p]
               b == f[x]
               c == Sum((A \ {p}) \ {x})
               d == Sum(A \ {p})
               e == Sum(A \ {x})
               g == Sum(A)
    <3>3. a \in Nat /\ b \in Nat /\ c \in Nat
      BY <1>2
    <3>4. d = b + c /\ e = a + c /\ g = a + d
      BY <2>1, <3>1, <3>2
    <3> HIDE DEF a, b, c, d, e, g
    <3>5. g = b + e
      BY ONLY <3>3, <3>4
    <3> QED
      BY <3>5 DEF b, e, g
  <2> QED
    BY <2>1, <2>2
<1> HIDE DEF T
<1>5. \A A \in SUBSET S : A # {} /\ (\A x \in A : A \ {x} \in T) => A \in T
  BY <1>4
<1>6. \A A \in SUBSET S : A \in T
  BY <1>3, <1>5, FiniteInduction
<1>7. S \in T
  BY <1>6
<1> QED
  BY <1>7 DEF T, Sum

LEMMA SumEmpty == ASSUME NEW f PROVE SumFunctionOnSet(f, {}) = 0
  BY SumStep, FS_EmptySet

\* One element more adds its own value, if it was not there.
LEMMA SumAdd ==
  ASSUME NEW f, NEW S, IsFiniteSet(S), NEW x, \A y \in S \cup {x} : f[y] \in Nat
  PROVE  /\ IsFiniteSet(S \cup {x})
         /\ SumFunctionOnSet(f, S \cup {x}) \in Nat
         /\ SumFunctionOnSet(f, S) \in Nat
         /\ SumFunctionOnSet(f, S \cup {x})
              = IF x \in S THEN SumFunctionOnSet(f, S) ELSE f[x] + SumFunctionOnSet(f, S)
<1>1. IsFiniteSet(S \cup {x})
  BY FS_AddElement
<1>2. x \in S \cup {x}
  OBVIOUS
<1>3. /\ SumFunctionOnSet(f, S \cup {x}) \in Nat
      /\ SumFunctionOnSet(f, S \cup {x}) = f[x] + SumFunctionOnSet(f, (S \cup {x}) \ {x})
  BY <1>1, <1>2, SumOut, SumNatural
<1>4. SumFunctionOnSet(f, S) \in Nat
  BY SumNatural
<1>5. CASE x \in S
  <2>1. S \cup {x} = S
    BY <1>5
  <2> QED
    BY <1>1, <1>4, <1>5, <2>1
<1>6. CASE x \notin S
  <2>1. (S \cup {x}) \ {x} = S
    BY <1>6
  <2> QED
    BY <1>1, <1>3, <1>4, <1>6, <2>1
<1> QED
  BY <1>5, <1>6

\* Fewer elements and smaller values give a smaller sum.
LEMMA SumAtMost ==
  ASSUME NEW f, NEW h, NEW B, IsFiniteSet(B), NEW A \in SUBSET B,
         \A x \in B : h[x] \in Nat, \A x \in A : f[x] \in Nat /\ f[x] <= h[x]
  PROVE  SumFunctionOnSet(f, A) <= SumFunctionOnSet(h, B)
<1> DEFINE F(X) == SumFunctionOnSet(f, A \cap X)
           H(X) == SumFunctionOnSet(h, X)
           T == {X \in SUBSET B : F(X) <= H(X)}
<1>1. ASSUME NEW X \in SUBSET B, NEW x \in X
      PROVE  /\ h[x] \in Nat /\ H(X \ {x}) \in Nat /\ H(X) = h[x] + H(X \ {x})
             /\ F(X) \in Nat /\ F(X \ {x}) \in Nat
             /\ \/ F(X) = F(X \ {x})
                \/ f[x] \in Nat /\ f[x] <= h[x] /\ F(X) = f[x] + F(X \ {x})
  <2>1. /\ IsFiniteSet(X) /\ IsFiniteSet(X \ {x})
        /\ IsFiniteSet(A \cap X) /\ IsFiniteSet(A \cap (X \ {x}))
    BY FS_Subset
  <2>2. h[x] \in Nat /\ H(X \ {x}) \in Nat /\ H(X) = h[x] + H(X \ {x})
    BY <2>1, SumOut, SumNatural
  <2>3. F(X) \in Nat /\ F(X \ {x}) \in Nat
    BY <2>1, SumNatural
  <2>4. CASE x \in A
    <3>1. (A \cap X) \ {x} = A \cap (X \ {x}) /\ x \in A \cap X
      BY <2>4
    <3>2. \A y \in A \cap X : f[y] \in Nat
      OBVIOUS
    <3>3. F(X) = f[x] + SumFunctionOnSet(f, (A \cap X) \ {x})
      BY <2>1, <3>1, <3>2, SumOut
    <3> QED
      BY <2>2, <2>3, <2>4, <3>1, <3>3
  <2>5. CASE x \notin A
    <3>1. A \cap X = A \cap (X \ {x})
      BY <2>5
    <3> QED
      BY <2>2, <2>3, <3>1
  <2> QED
    BY <2>4, <2>5
<1>2. {} \in T
  <2>1. A \cap {} = {}
    OBVIOUS
  <2> QED
    BY <2>1, SumEmpty
<1> HIDE DEF F, H
<1>3. ASSUME NEW X \in SUBSET B, X # {}, \A x \in X : X \ {x} \in T PROVE X \in T
  <2>1. PICK x \in X : TRUE
    BY <1>3
  <2>2. F(X \ {x}) <= H(X \ {x})
    BY <1>3
  <2>3. /\ h[x] \in Nat /\ H(X \ {x}) \in Nat /\ H(X) = h[x] + H(X \ {x})
        /\ F(X) \in Nat /\ F(X \ {x}) \in Nat
        /\ \/ F(X) = F(X \ {x})
           \/ f[x] \in Nat /\ f[x] <= h[x] /\ F(X) = f[x] + F(X \ {x})
    BY <1>1
  <2>4. F(X) <= H(X)
    BY ONLY <2>2, <2>3
  <2> QED
    BY <2>4
<1> HIDE DEF T
<1>4. \A X \in SUBSET B : X # {} /\ (\A x \in X : X \ {x} \in T) => X \in T
  BY <1>3
<1>5. \A X \in SUBSET B : X \in T
  BY <1>2, <1>4, FiniteInduction
<1>6. F(B) <= H(B)
  BY <1>5 DEF T
<1>7. A \cap B = A
  OBVIOUS
<1> QED
  BY <1>6, <1>7 DEF F, H

\* The values w of indices bound the sum over what the indices stand for, however
\* many stand for the same.
LEMMA SumImage ==
  ASSUME NEW f, NEW q, NEW w, NEW R, IsFiniteSet(R), NEW J, IsFiniteSet(J),
         \A x \in R : f[x] \in Nat,
         \A i \in J : f[q[i]] \in Nat /\ w[i] \in Nat /\ f[q[i]] <= w[i]
  PROVE  SumFunctionOnSet(f, R \cup {q[i] : i \in J})
            <= SumFunctionOnSet(f, R) + SumFunctionOnSet(w, J)
<1> DEFINE I(X) == R \cup {q[i] : i \in X}
           F(X) == SumFunctionOnSet(f, I(X))
           W(X) == SumFunctionOnSet(w, X)
           r == SumFunctionOnSet(f, R)
           T == {X \in SUBSET J : IsFiniteSet(I(X)) /\ F(X) <= r + W(X)}
<1>1. r \in Nat
  BY SumNatural
<1>2. {} \in T
  <2>1. I({}) = R
    OBVIOUS
  <2>2. F({}) = r
    BY <2>1
  <2>3. W({}) = 0
    BY SumEmpty
  <2> HIDE DEF F, W, I, r
  <2>4. F({}) <= r + W({})
    BY <1>1, <2>2, <2>3
  <2> QED
    BY <2>1, <2>4
<1>3. ASSUME NEW X \in SUBSET J, NEW x \in X, IsFiniteSet(I(X \ {x}))
      PROVE  /\ IsFiniteSet(I(X))
             /\ F(X) \in Nat /\ F(X \ {x}) \in Nat /\ W(X \ {x}) \in Nat
             /\ w[x] \in Nat /\ f[q[x]] \in Nat /\ f[q[x]] <= w[x]
             /\ W(X) = w[x] + W(X \ {x})
             /\ F(X) = F(X \ {x}) \/ F(X) = f[q[x]] + F(X \ {x})
  <2>1. I(X) = I(X \ {x}) \cup {q[x]}
    OBVIOUS
  <2>2. IsFiniteSet(X) /\ IsFiniteSet(X \ {x})
    BY FS_Subset
  <2>3. W(X \ {x}) \in Nat /\ W(X) = w[x] + W(X \ {x})
    BY <2>2, SumOut, SumNatural
  <2>4. \A y \in I(X \ {x}) \cup {q[x]} : f[y] \in Nat
    OBVIOUS
  <2> DEFINE Y == I(X \ {x})
             z == q[x]
  <2>5. /\ IsFiniteSet(Y \cup {z})
        /\ SumFunctionOnSet(f, Y \cup {z}) \in Nat
        /\ SumFunctionOnSet(f, Y) \in Nat
        /\ SumFunctionOnSet(f, Y \cup {z})
             = IF z \in Y THEN SumFunctionOnSet(f, Y) ELSE f[z] + SumFunctionOnSet(f, Y)
    <3>1. IsFiniteSet(Y) /\ \A y \in Y \cup {z} : f[y] \in Nat
      BY <1>3, <2>4
    <3> HIDE DEF Y, z
    <3> QED
      BY <3>1, SumAdd
  <2> QED
    BY <2>1, <2>3, <2>5
<1> HIDE DEF F, W, I, r
<1>4. ASSUME NEW X \in SUBSET J, X # {}, \A x \in X : X \ {x} \in T PROVE X \in T
  <2>1. PICK x \in X : TRUE
    BY <1>4
  <2>2. IsFiniteSet(I(X \ {x})) /\ F(X \ {x}) <= r + W(X \ {x})
    BY <1>4
  <2>3. /\ IsFiniteSet(I(X))
        /\ F(X) \in Nat /\ F(X \ {x}) \in Nat /\ W(X \ {x}) \in Nat
        /\ w[x] \in Nat /\ f[q[x]] \in Nat /\ f[q[x]] <= w[x]
        /\ W(X) = w[x] + W(X \ {x})
        /\ F(X) = F(X \ {x}) \/ F(X) = f[q[x]] + F(X \ {x})
    BY <1>3, <2>2
  <2>4. F(X) <= r + W(X)
    BY ONLY <1>1, <2>2, <2>3
  <2> QED
    BY <2>3, <2>4
<1> HIDE DEF T
<1>5. \A X \in SUBSET J : X # {} /\ (\A x \in X : X \ {x} \in T) => X \in T
  BY <1>4
<1>6. \A X \in SUBSET J : X \in T
  BY <1>2, <1>5, FiniteInduction
<1>7. F(J) <= r + W(J)
  BY <1>6 DEF T
<1> QED
  BY <1>7 DEF F, W, I, r

-----------------------------------------------------------------------------
(* The premium ceiling, under the same deployment: one lot of everything   *)
(* the account is exposed to stays below it, whatever the lots cost.  The  *)
(* check adds up the broker's view and the first open row of each contract *)
(* the view lacks; PremiumInv says that neither undercounts a lot.         *)

PricedRows == \A i \in DOMAIN orders : Cost[orders[i].sym] <= orders[i].premium

PricedView(view) == \A c \in Reported(view) : Cost[c] <= view[c]

\* What keeps the premium ceiling from one step to the next: rows and memoised
\* view count every contract at one lot or more, and the contract a passed check
\* lets through is paid for in the ceiling when it is submitted.
PremiumInv ==
    /\ OneLotPremiumCeiling
    /\ PricedRows
    /\ memo.fresh => PricedView(memo.view)
    /\ \A t \in Trader : pc[t] = "submit" =>
          SumFunctionOnSet(Cost, Exposed \cup {cand[t].sym}) <= MaxPremium

LEMMA IntervalSubset == ASSUME NEW n \in Nat, NEW S \in SUBSET (1..n) PROVE IsFiniteSet(S)
<1>1. IsFiniteSet(1..n)
  BY FS_Interval
<1> QED
  BY <1>1, FS_Subset

LEMMA LeastOf ==
  ASSUME NEW n \in Nat, NEW S \in SUBSET (1..n), S # {}
  PROVE  \E m \in S : \A k \in S : m <= k
<1> DEFINE T == {A \in SUBSET S : A # {} => \E m \in A : \A k \in A : m <= k}
<1>1. IsFiniteSet(S)
  BY IntervalSubset
<1>2. {} \in T
  OBVIOUS
<1>3. ASSUME NEW A \in SUBSET S, A # {}, \A x \in A : A \ {x} \in T PROVE A \in T
  <2>1. PICK x \in A : TRUE
    BY <1>3
  <2>2. CASE A \ {x} = {}
    BY <2>2
  <2>3. CASE A \ {x} # {}
    <3>1. PICK m \in A \ {x} : \A k \in A \ {x} : m <= k
      BY <1>3, <2>3
    <3>2. m \in Nat /\ x \in Nat
      OBVIOUS
    <3>3. CASE m <= x
      BY <3>1, <3>3
    <3>4. CASE x <= m
      BY <3>1, <3>2, <3>4
    <3> QED
      BY <3>2, <3>3, <3>4
  <2> QED
    BY <2>2, <2>3
<1> HIDE DEF T
<1>4. \A A \in SUBSET S : A # {} /\ (\A x \in A : A \ {x} \in T) => A \in T
  BY <1>3
<1>5. \A A \in SUBSET S : A \in T
  BY <1>1, <1>2, <1>4, FiniteInduction
<1> QED
  BY <1>5 DEF T

\* Every contract with an open row has a first one.
LEMMA FirstRow ==
  ASSUME orders \in Seq(Row), NEW c \in OpenSymbols(orders)
  PROVE  \E i \in FirstOpen(orders) : orders[i].sym = c
<1> DEFINE S == {i \in _open_option_buys(orders) : orders[i].sym = c}
<1>1. Len(orders) \in Nat /\ DOMAIN orders = 1..Len(orders)
  BY LenProperties
<1>2. S \in SUBSET (1..Len(orders)) /\ S # {}
  BY <1>1 DEF OpenSymbols, _open_option_buys
<1>3. PICK m \in S : \A k \in S : m <= k
  BY <1>1, <1>2, LeastOf
<1> QED
  BY <1>3 DEF FirstOpen

\* What the check counts is at least one lot of everything it counts as open.
LEMMA PremiumCovers ==
  ASSUME orders \in Seq(Row), PricedRows, NEW view \in View, PricedView(view),
         NEW E \in SUBSET OpenIds(orders, view)
  PROVE  /\ OpenPremium(orders, view) \in Nat
         /\ SumFunctionOnSet(Cost, E) <= OpenPremium(orders, view)
<1> DEFINE R == Reported(view)
           J == {i \in FirstOpen(orders) : orders[i].sym \notin R}
           sym == [i \in J |-> orders[i].sym]
           premium == [i \in DOMAIN orders |-> orders[i].premium]
           all == R \cup {sym[i] : i \in J}
<1>1. Len(orders) \in Nat /\ DOMAIN orders = 1..Len(orders)
  BY LenProperties
<1>2. \A i \in DOMAIN orders : orders[i] \in Row
  BY <1>1, ElementOfSeq
<1>3. \A i \in DOMAIN orders : orders[i].sym \in Contract /\ premium[i] \in Nat
  BY <1>2 DEF Row
<1>4. J \in SUBSET (1..Len(orders)) /\ IsFiniteSet(J)
  <2>1. J \in SUBSET (1..Len(orders))
    BY <1>1 DEF FirstOpen, _open_option_buys
  <2> QED
    BY <1>1, <2>1, IntervalSubset
<1>5. R \in SUBSET Contract /\ IsFiniteSet(R)
  BY ExposedFinite DEF Reported
<1>6. \A c \in Contract : Cost[c] \in Nat
  BY CostAssumption
<1>7. \A i \in J : /\ Cost[sym[i]] \in Nat /\ premium[i] \in Nat
                   /\ Cost[sym[i]] <= premium[i]
  BY <1>1, <1>3, <1>4, <1>6 DEF PricedRows
<1>8. OpenIds(orders, view) \subseteq all
  <2>1. ASSUME NEW c \in OpenSymbols(orders), c \notin R PROVE c \in {sym[i] : i \in J}
    <3>1. PICK i \in FirstOpen(orders) : orders[i].sym = c
      BY FirstRow
    <3>2. i \in J /\ sym[i] = c
      BY <2>1, <3>1
    <3> QED
      BY <3>2
  <2> QED
    BY <2>1 DEF OpenIds
<1>9. all \in SUBSET Contract /\ E \in SUBSET all
  BY <1>1, <1>3, <1>4, <1>5, <1>8
<1>10. DOMAIN view = Contract /\ \A c \in Contract : view[c] \in Nat
  BY DEF View
<1>11. \A c \in R : Cost[c] \in Nat /\ Cost[c] <= view[c]
  BY <1>5, <1>6 DEF PricedView
<1>12. OpenPremium(orders, view) = SumFunctionOnSet(view, Contract) + SumFunctionOnSet(premium, J)
  BY <1>10 DEF OpenPremium, SumFunction, PremiumOf
<1> HIDE DEF R, J, sym, premium, all
<1>13. SumFunctionOnSet(Cost, E) <= SumFunctionOnSet(Cost, all)
  <2>1. IsFiniteSet(all) /\ \A c \in all : Cost[c] \in Nat
    BY <1>6, <1>9, ExposedFinite
  <2>2. \A c \in E : Cost[c] \in Nat /\ Cost[c] <= Cost[c]
    BY <1>9, <2>1
  <2> QED
    BY <1>9, <2>1, <2>2, SumAtMost
<1>14. SumFunctionOnSet(Cost, all) <= SumFunctionOnSet(Cost, R) + SumFunctionOnSet(premium, J)
  <2>1. \A c \in R : Cost[c] \in Nat
    BY <1>11
  <2> QED
    BY <1>4, <1>5, <1>7, <2>1, SumImage DEF all
<1>15. SumFunctionOnSet(Cost, R) <= SumFunctionOnSet(view, Contract)
  BY <1>5, <1>10, <1>11, ContractAssumption, SumAtMost
<1>16. /\ SumFunctionOnSet(Cost, E) \in Nat /\ SumFunctionOnSet(Cost, all) \in Nat
       /\ SumFunctionOnSet(Cost, R) \in Nat
  BY <1>5, <1>6, <1>9, ExposedFinite, SumNatural
<1>17. SumFunctionOnSet(view, Contract) \in Nat
  BY <1>10, ContractAssumption, SumNatural
<1>18. SumFunctionOnSet(premium, J) \in Nat
  BY <1>4, <1>7, SumNatural
<1> QED
  BY ONLY <1>12, <1>13, <1>14, <1>15, <1>16, <1>17, <1>18

\* A view read in one piece counts every contract at one lot or more.
LEMMA ViewPriced ==
  ASSUME BrokerTypeOK
  PROVE  PricedView(_broker_option_view(Positions, OpenBuyOrders))
<1>1. \A a, b \in Nat : a > 0 => b <= a * b
  OBVIOUS
<1>2. \A c \in Contract : Cost[c] \in Nat /\ Cost[c] > 0 /\ held[c] \in Nat
  BY CostAssumption DEF BrokerTypeOK
<1>3. \A c \in Positions : Cost[c] <= held[c] * Cost[c]
  BY <1>1, <1>2 DEF Positions
<1>4. \A c \in Contract : Cost[c] * FIXED_OPTION_CONTRACTS = Cost[c]
  BY <1>2 DEF FIXED_OPTION_CONTRACTS
<1>5. \A c \in Contract : Cost[c] <= Cost[c]
  BY <1>2
<1> QED
  BY <1>3, <1>4, <1>5 DEF PricedView, Reported, _broker_option_view

\* Rows that keep their contract and premium stay priced.
LEMMA PricedKept ==
  ASSUME PricedRows, DOMAIN orders' = DOMAIN orders,
         \A i \in DOMAIN orders :
            orders'[i].sym = orders[i].sym /\ orders'[i].premium = orders[i].premium
  PROVE  PricedRows'
  BY DEF PricedRows

\* An inserted row is priced at its lot.
LEMMA PricedInsert ==
  ASSUME orders \in Seq(Row), PricedRows, NEW c \in Contract, NEW s \in Strategy,
         NEW st \in Status, InsertRow(c, s, st)
  PROVE  PricedRows'
<1> DEFINE row == [sid |-> s, sym |-> c, status |-> st,
                   premium |-> Cost[c] * FIXED_OPTION_CONTRACTS]
<1>1. row \in Row /\ Cost[row.sym] <= row.premium
  <2>1. Cost[c] \in Nat /\ Cost[c] * FIXED_OPTION_CONTRACTS = Cost[c]
    BY CostAssumption DEF FIXED_OPTION_CONTRACTS
  <2> QED
    BY <2>1, RowTypes
<1>2. orders' = Append(orders, row)
  BY DEF InsertRow
<1> HIDE DEF row
<1>3. /\ DOMAIN orders = 1..Len(orders) /\ DOMAIN orders' = 1..(Len(orders) + 1)
      /\ Len(orders) \in Nat
      /\ \A i \in 1..Len(orders) : orders'[i] = orders[i]
      /\ orders'[Len(orders) + 1] = row
  BY <1>1, <1>2, AppendProperties, LenProperties
<1>4. \A i \in DOMAIN orders' : i \in DOMAIN orders \/ i = Len(orders) + 1
  BY <1>3
<1> QED
  BY <1>1, <1>3, <1>4 DEF PricedRows

\* A reconstructed row is priced at all the lots of its position.
LEMMA PricedBackfill ==
  ASSUME TypeInv, PricedRows, BackfillPositions
  PROVE  PricedRows'
<1> DEFINE n == Cardinality(Orphans)
<1>1. CASE UNCHANGED orders
  BY <1>1 DEF PricedRows
<1>2. ASSUME NEW ord \in [1..n -> Orphans],
             orders' = orders \o [i \in 1..n |-> ReconRow(ord[i])]
      PROVE  PricedRows'
  <2> DEFINE new == [i \in 1..n |-> ReconRow(ord[i])]
  <2>1. n \in Nat
    BY ContractAssumption, FS_Subset, FS_CardinalityType DEF Orphans, Positions
  <2>2. ASSUME NEW i \in 1..n
        PROVE  new[i] \in Row /\ Cost[new[i].sym] <= new[i].premium
    <3>1. \A a, b \in Nat : a > 0 => b <= a * b
      OBVIOUS
    <3>2. ord[i] \in Positions
      BY DEF Orphans
    <3>3. /\ ord[i] \in Contract /\ held[ord[i]] \in Nat /\ held[ord[i]] > 0
          /\ Cost[ord[i]] \in Nat
      BY <3>2, CostAssumption DEF Positions, TypeInv, TypeOK, BrokerTypeOK
    <3>4. Cost[ord[i]] <= held[ord[i]] * Cost[ord[i]]
      BY <3>1, <3>3
    <3>5. ReconRow(ord[i]) \in Row
      BY <3>3, RowTypes DEF TypeInv, TypeOK
    <3> QED
      BY <3>4, <3>5 DEF ReconRow
  <2>3. orders \in Seq(Row) /\ new \in Seq(Row) /\ Len(new) = n
    <3>1. new \in [1..n -> Row]
      BY <2>2
    <3> HIDE DEF new, n
    <3> QED
      BY <2>1, <3>1, SeqDef DEF TypeInv, TypeOK
  <2>4. orders' = orders \o new
    BY <1>2
  <2> HIDE DEF new, n
  <2>5. /\ Len(orders) \in Nat /\ DOMAIN orders = 1..Len(orders)
        /\ DOMAIN orders' = 1..(Len(orders) + n)
    BY <2>3, <2>4, Joined, LenProperties
  <2>6. /\ \A i \in 1..Len(orders) : orders'[i] = orders[i]
        /\ \A i \in 1..n : orders'[Len(orders) + i] = new[i]
    BY <2>3, <2>4, Joined
  <2>7. ASSUME NEW i \in DOMAIN orders', i \notin DOMAIN orders
        PROVE  i - Len(orders) \in 1..n /\ orders'[i] = new[i - Len(orders)]
    <3>1. i - Len(orders) \in 1..n /\ Len(orders) + (i - Len(orders)) = i
      BY <2>1, <2>5, <2>7
    <3> QED
      BY <2>6, <3>1
  <2>8. \A i \in DOMAIN orders' : Cost[orders'[i].sym] <= orders'[i].premium
    BY <2>2, <2>5, <2>6, <2>7 DEF PricedRows
  <2> QED
    BY <2>8 DEF PricedRows
<1> QED
  BY <1>1, <1>2 DEF BackfillPositions

\* No step prices a row below its lot.
LEMMA PricedRowsNext ==
  ASSUME TypeInv, PricedRows, [Next]_vars
  PROVE  PricedRows'
<1> USE DEF db, threads, vars
<1>0. orders \in Seq(Row) /\ DOMAIN orders = 1..Len(orders) /\ Len(orders) \in Nat
  BY LenProperties DEF TypeInv, TypeOK
<1>1. \A i \in DOMAIN orders : orders[i] \in Row
  BY <1>0, ElementOfSeq
<1>2. \A r \in Row, st \in Status : /\ [r EXCEPT !.status = st].sym = r.sym
                                    /\ [r EXCEPT !.status = st].premium = r.premium
  BY DEF Row
<1>3. CASE UNCHANGED orders
  BY <1>3, PricedKept
<1>4. CASE BackfillPositions
  BY <1>4, PricedBackfill
<1>5. CASE ReconcileOrders
  <2>1. "reconciled-closed" \in Status
    BY DEF Status, _OPTION_CLOSED_STATUSES
  <2>2. ASSUME NEW live, CloseUnconfirmed(live) PROVE PricedRows'
    <3>1. DOMAIN orders' = DOMAIN orders
      BY <2>2 DEF CloseUnconfirmed
    <3>2. \A i \in DOMAIN orders :
            orders'[i].sym = orders[i].sym /\ orders'[i].premium = orders[i].premium
      BY <1>1, <1>2, <2>1, <2>2 DEF CloseUnconfirmed
    <3> QED
      BY <3>1, <3>2, PricedKept
  <2> QED
    BY <1>3, <1>5, <2>2 DEF ReconcileOrders
<1>6. CASE SweepRecord
  <2>1. "closed" \in Status
    BY DEF Status, _OPTION_CLOSED_STATUSES
  <2>2. CASE orders' = [orders EXCEPT ![exit.row].status = "closed"]
    <3>1. DOMAIN orders' = DOMAIN orders
      BY <2>2
    <3>2. ASSUME NEW i \in DOMAIN orders
          PROVE  orders'[i].sym = orders[i].sym /\ orders'[i].premium = orders[i].premium
      <4>1. orders'[i] = orders[i] \/ orders'[i] = [orders[i] EXCEPT !.status = "closed"]
        BY <2>2
      <4> QED
        BY <1>1, <1>2, <2>1, <4>1, ZenonT(60)
    <3> QED
      BY <3>1, <3>2, PricedKept
  <2> QED
    BY <1>3, <1>6, <2>2 DEF SweepRecord
<1>7. ASSUME NEW t \in Trader, RiskCheck(t) PROVE PricedRows'
  <2>1. cand[t].sym \in Contract /\ cand[t].sid \in Strategy /\ "blocked" \in Status
    BY DEF Candidate, Status, _OPTION_CLOSED_STATUSES, TypeInv, TypeOK
  <2>2. UNCHANGED orders \/ InsertRow(cand[t].sym, cand[t].sid, "blocked")
    BY <1>7 DEF RiskCheck, Decide, Record
  <2> QED
    BY <1>0, <1>3, <2>1, <2>2, PricedInsert
<1>8. ASSUME NEW t \in Trader, InsertOrder(t) PROVE PricedRows'
  <2>1. cand[t].sym \in Contract /\ cand[t].sid \in Strategy /\ cand[t].reply \in Status
    BY <1>8 DEF InsertOrder, Candidate, Replies, Status, _OPTION_CLOSED_STATUSES,
                TypeInv, TypeOK
  <2> QED
    BY <1>0, <1>3, <1>8, <2>1, PricedInsert DEF InsertOrder, Record
<1>9. CASE Restart
  <2>1. CASE orders' = <<>>
    BY <2>1 DEF PricedRows
  <2> QED
    BY <1>3, <1>9, <2>1 DEF Restart
<1>10. \/ UNCHANGED orders \/ BackfillPositions \/ ReconcileOrders \/ SweepRecord \/ Restart
       \/ \E t \in Trader : RiskCheck(t) \/ InsertOrder(t)
  BY DEF Next, SchedulerStep, CycleStep, Tick, SweepRaises, EntryNotDue, SweepClose,
         StartCycle, CandidateWithoutContract, SelectContract, Submit, EndCycle, BrokerStep,
         MemoExpires, SetKillSwitch
<1> QED
  BY <1>3, <1>4, <1>5, <1>6, <1>7, <1>8, <1>9, <1>10

\* A memoised view is the one there was or one a check has read.
LEMMA MemoSteps ==
  ASSUME TypeInv, [Next]_vars
  PROVE  \/ memo'.fresh => memo.fresh /\ memo'.view = memo.view
         \/ \E t \in Trader : RiskCheck(t)
<1> USE DEF db, threads, vars
<1>1. memo \in [fresh : BOOLEAN, prior : BOOLEAN, view : View]
  BY DEF TypeInv, TypeOK
<1>2. \/ UNCHANGED memo \/ memo' = NoMemo \/ memo' = [memo EXCEPT !.prior = memo.fresh]
      \/ \E t \in Trader : RiskCheck(t)
  BY DEF Next, SchedulerStep, CycleStep, BackfillPositions, ReconcileOrders, Tick,
         SweepRecord, SweepRaises, EntryNotDue, SweepClose, StartCycle,
         CandidateWithoutContract, SelectContract, Submit, InsertOrder, EndCycle, BrokerStep,
         MemoExpires,
         SetKillSwitch, Restart
<1>3. ~NoMemo.fresh
  BY DEF NoMemo
<1>4. CASE memo' = [memo EXCEPT !.prior = memo.fresh]
  BY <1>1, <1>4
<1> QED
  BY <1>2, <1>3, <1>4

\* Only a submission exposes the account to more, and only a check sends a
\* candidate on to be submitted.
LEMMA QuietExposure ==
  ASSUME Deployed, TypeInv, [Next]_vars
  PROVE  \/ /\ Exposed' \subseteq Exposed
            /\ \A t \in Trader :
                 pc'[t] = "submit" => pc[t] = "submit" /\ cand'[t] = cand[t]
         \/ \E t \in Trader : RiskCheck(t) \/ Submit(t)
<1> USE DEF db, threads, vars, Goto
<1> DEFINE Quiet == \A t \in Trader :
                      pc'[t] = "submit" => pc[t] = "submit" /\ cand'[t] = cand[t]
<1>0. BrokerInv /\ DOMAIN pc = Trader /\ Contract # {}
  BY AgentAssumption DEF TypeInv, TypeOK, BrokerInv
<1>1. Scheduler \in Trader /\ Trader = {Scheduler}
  BY DEF Trader, Deployed
<1>2. ASSUME UNCHANGED broker PROVE Exposed' \subseteq Exposed
  BY <1>2 DEF broker, Exposed, Positions, OpenBuyOrders
<1>3. CASE \/ BackfillPositions \/ ReconcileOrders \/ Tick
           \/ SweepRecord \/ SweepRaises \/ EntryNotDue
  <2>1. UNCHANGED broker \/ BetweenReads("racySync")
    BY <1>3 DEF BackfillPositions, ReconcileOrders, Tick, SweepRecord, SweepRaises, EntryNotDue
  <2>2. Quiet
    BY <1>0, <1>1, <1>3
    DEF BackfillPositions, ReconcileOrders, Tick, SweepRecord, SweepRaises, EntryNotDue
  <2> QED
    BY <1>0, <1>2, <2>1, <2>2, BetweenFills
<1>4. ASSUME NEW c \in Contract, SweepClose(c)
      PROVE  Exposed' \subseteq Exposed /\ Quiet
  <2>1. AcceptClose(c) \/ UNCHANGED broker
    BY <1>4 DEF SweepClose, CloseReply
  <2>2. Exposed' \subseteq Exposed
    BY <1>0, <2>1, BrokerShrinks
  <2>3. Quiet
    BY <1>0, <1>1, <1>4 DEF SweepClose
  <2> QED
    BY <2>2, <2>3
<1>5. ASSUME NEW t \in Trader,
             \/ StartCycle(t) \/ CandidateWithoutContract(t) \/ SelectContract(t)
             \/ InsertOrder(t) \/ EndCycle(t)
      PROVE  Exposed' \subseteq Exposed /\ Quiet
  <2>1. UNCHANGED broker
    BY <1>5 DEF StartCycle, CandidateWithoutContract, SelectContract, InsertOrder, EndCycle
  <2>2. Quiet
    BY <1>0, <1>1, <1>5
    DEF StartCycle, CandidateWithoutContract, SelectContract, InsertOrder, Record, EndCycle
  <2> QED
    BY <1>2, <2>1, <2>2
<1>6. CASE BrokerStep
  <2>1. PICK c \in Contract :
          Fill(c) \/ FillClose(c) \/ ExpireBuy(c) \/ ExpireClose(c) \/ DaysPass
    BY <1>0, <1>6 DEF BrokerStep
  <2>2. Exposed' \subseteq Exposed
    BY <1>0, <2>1, BrokerShrinks
  <2> QED
    BY <1>6, <2>2 DEF BrokerStep
<1>7. CASE MemoExpires \/ SetKillSwitch \/ Restart \/ UNCHANGED vars
  <2>1. UNCHANGED broker
    BY <1>7 DEF MemoExpires, SetKillSwitch, Restart
  <2>2. Quiet
    BY <1>1, <1>7 DEF MemoExpires, SetKillSwitch, Restart
  <2> QED
    BY <1>2, <2>1, <2>2
<1> QED
  BY <1>3, <1>4, <1>5, <1>6, <1>7 DEF Next, SchedulerStep, CycleStep

\* What fits the premium ceiling fits it after contracts have left.
LEMMA PremiumShrinks ==
  ASSUME NEW S \in SUBSET Contract, NEW T \in SUBSET Contract, S \subseteq T,
         SumFunctionOnSet(Cost, T) <= MaxPremium
  PROVE  SumFunctionOnSet(Cost, S) <= MaxPremium
<1>1. \A c \in Contract : Cost[c] \in Nat /\ Cost[c] <= Cost[c]
  BY CostAssumption
<1>2. IsFiniteSet(S) /\ IsFiniteSet(T)
  BY ExposedFinite
<1>3. SumFunctionOnSet(Cost, S) \in Nat /\ SumFunctionOnSet(Cost, T) \in Nat
  BY <1>1, <1>2, SumNatural
<1>4. SumFunctionOnSet(Cost, S) <= SumFunctionOnSet(Cost, T)
  BY <1>1, <1>2, SumAtMost
<1> QED
  BY <1>3, <1>4, LimitAssumption

\* A passed check has counted one lot of everything the account is exposed to,
\* and room for one of its own contract.
LEMMA CheckPays ==
  ASSUME Deployed, orders \in Seq(Row), PricedRows, NEW view \in View, PricedView(view),
         Exposed \subseteq OpenIds(orders, view), NEW c \in Contract,
         check_option(c, killed, orders, sells, view, 1)
  PROVE  SumFunctionOnSet(Cost, Exposed \cup {c}) <= MaxPremium
<1>1. \A x \in Contract : Cost[x] \in Nat
  BY CostAssumption
<1>2. Exposed \in SUBSET Contract /\ IsFiniteSet(Exposed)
  BY ExposedFinite DEF Exposed, Positions, OpenBuyOrders
<1>3. /\ OpenPremium(orders, view) \in Nat
      /\ SumFunctionOnSet(Cost, Exposed) <= OpenPremium(orders, view)
  BY PremiumCovers
<1>4. OpenPremium(orders, view) + Cost[c] <= MaxPremium
  <2>1. OpenPremium(orders, view) + FIXED_OPTION_CONTRACTS * Cost[c] <= MaxPremium
    BY DEF check_option, _live_option_premium_at_risk, ViewAt, Deployed
  <2>2. FIXED_OPTION_CONTRACTS * Cost[c] = Cost[c]
    BY <1>1 DEF FIXED_OPTION_CONTRACTS
  <2> QED
    BY <2>1, <2>2
<1>5. \A x \in Exposed \cup {c} : Cost[x] \in Nat
  BY <1>1, <1>2
<1>6. /\ SumFunctionOnSet(Cost, Exposed \cup {c}) \in Nat
      /\ SumFunctionOnSet(Cost, Exposed) \in Nat
      /\ SumFunctionOnSet(Cost, Exposed \cup {c})
           = IF c \in Exposed THEN SumFunctionOnSet(Cost, Exposed)
             ELSE Cost[c] + SumFunctionOnSet(Cost, Exposed)
  BY <1>2, <1>5, SumAdd
<1>7. Cost[c] \in Nat /\ MaxPremium \in Nat
  BY <1>1, LimitAssumption
<1> QED
  BY ONLY <1>3, <1>4, <1>6, <1>7

LEMMA PremiumInit ==
  Deployed /\ SumFunctionOnSet(Cost, Preheld) <= MaxPremium /\ Init => PremiumInv
<1> SUFFICES ASSUME Deployed, SumFunctionOnSet(Cost, Preheld) <= MaxPremium, Init
             PROVE  PremiumInv
  OBVIOUS
<1>1. Exposed = Preheld
  BY PreheldAssumption DEF Init, BrokerInit, Exposed, Positions, OpenBuyOrders
<1>2. ~memo.fresh /\ (\A t \in Trader : pc[t] # "submit") /\ orders = <<>>
  BY DEF Init, NoMemo
<1>3. PricedRows
  BY <1>2 DEF PricedRows
<1> QED
  BY <1>1, <1>2, <1>3 DEF PremiumInv, OneLotPremiumCeiling

LEMMA PremiumNext ==
  ASSUME Deployed, TypeInv, CeilingInv, PremiumInv, [Next]_vars
  PROVE  PremiumInv'
<1>1. PricedRows'
  BY PricedRowsNext DEF PremiumInv
<1>2. /\ orders \in Seq(Row) /\ BrokerTypeOK /\ DOMAIN pc = Trader
      /\ \A t \in Trader : cand[t].sym \in Contract
  BY DEF TypeInv, TypeOK, Candidate
<1>3. Trader = {Scheduler}
  BY DEF Trader, Deployed
<1>4. Exposed \in SUBSET Contract /\ Exposed' \in SUBSET Contract
  BY DEF Exposed, Positions, OpenBuyOrders
<1>5. ASSUME NEW t \in Trader, RiskCheck(t) PROVE PremiumInv'
  <2>1. PICK view \in View :
          /\ Decide(t, view, 1)
          /\ Exposed \subseteq OpenIds(orders, view)
          /\ memo'.fresh => memo'.view = view
          /\ \/ memo.fresh /\ view = memo.view
             \/ view = _broker_option_view(Positions, OpenBuyOrders)
    BY <1>5, CheckedView
  <2>2. Exposed' = Exposed
    BY <1>5, CheckedView
  <2>3. PricedView(view)
    BY <1>2, <2>1, ViewPriced DEF PremiumInv
  <2>4. memo'.fresh => PricedView(memo.view)'
    BY <2>1, <2>3 DEF PricedView
  <2>5. OneLotPremiumCeiling'
    BY <2>2 DEF PremiumInv, OneLotPremiumCeiling
  <2>6. ASSUME pc'[t] = "submit"
        PROVE  SumFunctionOnSet(Cost, Exposed' \cup {cand'[t].sym}) <= MaxPremium
    <3>1. check_option(cand[t].sym, killed, orders, sells, view, 1) /\ cand' = cand
      BY <1>2, <2>1, <2>6 DEF Decide, Record, Goto
    <3>2. SumFunctionOnSet(Cost, Exposed \cup {cand[t].sym}) <= MaxPremium
      BY <1>2, <2>1, <2>3, <3>1, CheckPays DEF PremiumInv
    <3> QED
      BY <2>2, <3>1, <3>2
  <2> QED
    BY <1>1, <1>3, <2>4, <2>5, <2>6 DEF PremiumInv
<1>6. ASSUME NEW t \in Trader, Submit(t) PROVE PremiumInv'
  <2>1. Exposed' \subseteq Exposed \cup {cand[t].sym}
    BY <1>6, SubmitSteps
  <2>2. SumFunctionOnSet(Cost, Exposed \cup {cand[t].sym}) <= MaxPremium
    BY <1>6 DEF Submit, PremiumInv
  <2>3. Exposed \cup {cand[t].sym} \in SUBSET Contract
    BY <1>2, <1>4
  <2>4. OneLotPremiumCeiling'
    BY <1>4, <2>1, <2>2, <2>3, PremiumShrinks DEF OneLotPremiumCeiling
  <2>5. UNCHANGED memo /\ pc'[t] = "insert"
    BY <1>2, <1>6 DEF Submit, Goto
  <2>6. memo'.fresh => PricedView(memo.view)'
    BY <2>5 DEF PremiumInv, PricedView
  <2> QED
    BY <1>1, <1>3, <2>4, <2>5, <2>6 DEF PremiumInv
<1>7. ASSUME Exposed' \subseteq Exposed,
             \A t \in Trader : pc'[t] = "submit" => pc[t] = "submit" /\ cand'[t] = cand[t],
             memo'.fresh => memo.fresh /\ memo'.view = memo.view
      PROVE  PremiumInv'
  <2>1. OneLotPremiumCeiling'
    BY <1>4, <1>7, PremiumShrinks DEF PremiumInv, OneLotPremiumCeiling
  <2>2. memo'.fresh => PricedView(memo.view)'
    BY <1>7 DEF PremiumInv, PricedView
  <2>3. ASSUME NEW t \in Trader, pc'[t] = "submit"
        PROVE  SumFunctionOnSet(Cost, Exposed' \cup {cand'[t].sym}) <= MaxPremium
    <3>1. /\ SumFunctionOnSet(Cost, Exposed \cup {cand[t].sym}) <= MaxPremium
          /\ cand'[t] = cand[t]
      BY <1>7, <2>3 DEF PremiumInv
    <3>2. /\ Exposed \cup {cand[t].sym} \in SUBSET Contract
          /\ Exposed' \cup {cand[t].sym} \in SUBSET Contract
          /\ Exposed' \cup {cand[t].sym} \subseteq Exposed \cup {cand[t].sym}
      BY <1>2, <1>4, <1>7
    <3> QED
      BY <3>1, <3>2, PremiumShrinks
  <2> QED
    BY <1>1, <2>1, <2>2, <2>3 DEF PremiumInv
<1> QED
  BY <1>5, <1>6, <1>7, MemoSteps, QuietExposure

\* While the scheduler alone trades on broker truth, and what the account held at
\* the start fits, one lot of everything it is exposed to fits the ceiling on the
\* premium at risk, through crashes, wipes and expired orders, and for every cost
\* of every contract (risk.py, the premium check of check_option).
THEOREM PremiumHolds ==
  ASSUME Deployed, SumFunctionOnSet(Cost, Preheld) <= MaxPremium
  PROVE  Spec => []OneLotPremiumCeiling
<1>1. Init => TypeInv /\ CeilingInv /\ PremiumInv
  BY TypeInit, CeilingInit, PremiumInit
<1>2. TypeInv /\ CeilingInv /\ PremiumInv /\ [Next]_vars
        => (TypeInv /\ CeilingInv /\ PremiumInv)'
  BY TypeNext, CeilingNext, PremiumNext
<1>3. PremiumInv => OneLotPremiumCeiling
  BY DEF PremiumInv
<1> QED
  BY <1>1, <1>2, <1>3, PTL DEF Spec
=============================================================================
