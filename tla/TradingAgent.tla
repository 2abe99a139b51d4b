---------------------------- MODULE TradingAgent ----------------------------
(***************************************************************************)
(* The trading agent against its broker account: the scheduler thread      *)
(* (startup sync, exit sweep, entry cycle), the thread POST /api/cycle     *)
(* starts, and the account, which moves on its own between any two calls.  *)
(* A cycle's candidate is chosen, risk-checked, submitted and recorded in  *)
(* four separate steps; a sweep closes a position and records it in two.   *)
(*                                                                         *)
(* Env names the troubles a configuration lets happen:                     *)
(*   "crash"      the process dies between two steps and starts again      *)
(*   "wipe"       a restart comes up with an empty orders table            *)
(*   "readFail"   an MCP read raises                                       *)
(*   "racyRead"   orders fill between the two calls of the risk check's    *)
(*                read of the account                                      *)
(*   "racySync"   orders fill between the two calls of the startup sync    *)
(*   "rowFails"   inserting or closing an orders row raises                *)
(*   "lostReply"  the broker accepts a call whose reply never arrives      *)
(*   "noStatus"   a submit reply carries no status                         *)
(*   "buyFails"   a working buy expires unfilled                           *)
(*   "sellFails"  an accepted closing sell expires unfilled                *)
(*   "killSwitch" the operator moves the kill switch                       *)
(*   "days"       positions reach the age of the time stop                 *)
(***************************************************************************)
EXTENDS RiskControls

CONSTANTS
    UseApi,     \* whether POST /api/cycle is used beside the scheduler
    Env,        \* the troubles that can happen
    CycleN,     \* candidates of one entry cycle
    MaxRows,    \* bound: no contract is selected once this many rows exist
    MaxLots     \* bound: nor one the account has this many lots of, or working

ASSUME AgentAssumption ==
    /\ Contract # {} /\ Strategy # {}
    /\ UseApi \in BOOLEAN
    /\ CycleN \in Nat /\ MaxRows \in Nat /\ MaxLots \in Nat
    /\ Env \subseteq {"crash", "wipe", "readFail", "racyRead", "racySync",
                      "rowFails", "lostReply", "noStatus", "buyFails", "sellFails",
                      "killSwitch", "days"}

Scheduler == "scheduler"
Api == "api"
Trader == IF UseApi THEN {Scheduler, Api} ELSE {Scheduler}

VARIABLES
    orders,     \* the option BUY rows of the orders table
    sells,      \* its SELL rows whose status is not terminal
    killed,     \* the kill switch (system_state row)
    memo,       \* _broker_cache: is it fresh, read before the last wait, its view
    pc,         \* where each thread stands
    left,       \* candidates each thread's cycle has still to take up
    cand,       \* the candidate in hand and the reply to its submission
    work,       \* contracts the running sweep has still to close
    exit        \* the close in hand: contract, matching row, reply

db == <<orders, sells, killed>>
threads == <<pc, left, cand, work, exit>>
vars == <<broker, db, memo, threads>>

Replies == {"none", "accepted", "unknown", "error"}
Candidate == [sid : Strategy, sym : Contract, reply : Replies]
NoCand == [sid |-> CHOOSE s \in Strategy : TRUE,
           sym |-> CHOOSE c \in Contract : TRUE, reply |-> "none"]
CloseReplies == {"none", "accepted", "no_position", "error"}
Exit == [sym : Contract, row : Nat, reply : CloseReplies]
NoExit == [sym |-> CHOOSE c \in Contract : TRUE, row |-> 0, reply |-> "none"]
NoMemo == [fresh |-> FALSE, prior |-> FALSE, view |-> EmptyView]

TypeOK ==
    /\ BrokerTypeOK
    /\ orders \in Seq(Row)
    /\ sells \subseteq SellRow
    /\ killed \in BOOLEAN
    /\ memo \in [fresh : BOOLEAN, prior : BOOLEAN, view : View]
    /\ pc \in [Trader -> {"boot", "sync", "idle", "sweep", "record",
                          "next", "check", "submit", "insert", "raised"}]
    /\ left \in [Trader -> Nat]
    /\ cand \in [Trader -> Candidate]
    /\ work \subseteq Contract
    /\ exit \in Exit

Init ==
    /\ BrokerInit
    /\ orders = <<>> /\ sells = {} /\ killed = FALSE
    /\ memo = NoMemo
    /\ pc = [t \in Trader |-> IF t = Scheduler THEN "boot" ELSE "idle"]
    /\ left = [t \in Trader |-> 0]
    /\ cand = [t \in Trader |-> NoCand]
    /\ work = {} /\ exit = NoExit

Goto(t, where) == pc' = [pc EXCEPT ![t] = where]

\* What happens at the broker between the two calls of a read, list_positions
\* and list_open_orders.
BetweenReads(trouble) ==
    \/ UNCHANGED broker
    \/ /\ trouble \in Env
       /\ \E F \in SUBSET OpenBuyOrders : FillAll(F)

-----------------------------------------------------------------------------
(* reconcile.py: the startup sync of the scheduler thread.                 *)

ReconRow(c) == [sid |-> ReconStrategy, sym |-> c, status |-> "broker-reconstructed",
                premium |-> held[c] * Cost[c]]

\* Faulty variant: a position whose rows have all settled is an orphan.
Orphans_OpenRowsOnly == Positions \ OpenSymbols(orders)

\* Positions no local row of any status mentions.
Orphans == {c \in Positions : \A i \in DOMAIN orders : orders[i].sym # c}

InListOrder(S, ord) ==
    /\ ord \in [1..Cardinality(S) -> S]
    /\ \A i, j \in DOMAIN ord : ord[i] = ord[j] => i = j

BackfillPositions ==
    /\ pc[Scheduler] = "boot"
    /\ \/ \E ord \in [1..Cardinality(Orphans) -> Orphans] :
             /\ InListOrder(Orphans, ord)
             /\ orders' = orders \o [i \in 1..Cardinality(Orphans) |-> ReconRow(ord[i])]
       \/ "readFail" \in Env /\ UNCHANGED orders
    /\ Goto(Scheduler, "sync")
    /\ UNCHANGED <<broker, sells, killed, memo, left, cand, work, exit>>

\* Faulty variant: a rebuilt row is not settled any more.
_OPEN_LOCAL_STATUSES_NotRebuilt == {"accepted"}

_OPEN_LOCAL_STATUSES == {"accepted", "broker-reconstructed"}

CloseUnconfirmed(live) ==
    /\ sells' = {s \in sells : s.status \in _OPEN_LOCAL_STATUSES => s.sym \in live}
    /\ orders' = [i \in DOMAIN orders |->
                    IF orders[i].status \in _OPEN_LOCAL_STATUSES /\ orders[i].sym \notin live
                    THEN [orders[i] EXCEPT !.status = "reconciled-closed"]
                    ELSE orders[i]]

\* Faulty variant: only positions confirm a row, working orders do not.
ReconcileOrders_PositionsOnly ==
    /\ pc[Scheduler] = "sync"
    /\ CloseUnconfirmed(Positions)
    /\ Goto(Scheduler, "idle")
    /\ UNCHANGED <<broker, killed, memo, left, cand, work, exit>>

ReconcileOrders ==
    /\ pc[Scheduler] = "sync"
    /\ \/ /\ BetweenReads("racySync")
          /\ CloseUnconfirmed(Positions \cup OpenOrders')
       \/ "readFail" \in Env /\ UNCHANGED <<broker, orders, sells>>
    /\ Goto(Scheduler, "idle")
    /\ UNCHANGED <<killed, memo, left, cand, work, exit>>

-----------------------------------------------------------------------------
(* scheduler.py: one tick.  A tick that finds the market closed or no      *)
(* clock changes nothing here.  Between two ticks the scheduler waits      *)
(* TICK_INTERVAL_S, longer than _BROKER_TTL_S: a view read before the wait *)
(* is stale after it.                                                      *)

\* Faulty variants: a memoised view survives the wait; only positions with an
\* open local row are looked at.
Tick_KeepsView ==
    /\ pc[Scheduler] = "idle"
    /\ work' \in SUBSET Positions
    /\ Goto(Scheduler, "sweep")
    /\ UNCHANGED <<broker, db, memo, left, cand, exit>>

Tick_RowsOnly ==
    /\ pc[Scheduler] = "idle"
    /\ memo' = IF memo.prior THEN NoMemo ELSE memo
    /\ work' \in SUBSET (Positions \cap OpenSymbols(orders))
    /\ Goto(Scheduler, "sweep")
    /\ UNCHANGED <<broker, db, left, cand, exit>>

Tick ==
    /\ pc[Scheduler] = "idle"
    /\ memo' = IF memo.prior THEN NoMemo ELSE memo
    /\ \/ /\ "readFail" \in Env
          /\ work' = {}
       \/ \E hits \in SUBSET Positions :
             /\ \/ "readFail" \in Env
                \/ {c \in Positions : history[c] = "old"} \subseteq hits
             /\ work' = hits
    /\ Goto(Scheduler, "sweep")
    /\ UNCHANGED <<broker, db, left, cand, exit>>

\* row is the most recent BUY row of the contract, whatever its status; 0 if
\* it has none.
_matching_buy(c, row) ==
    \/ /\ row \in DOMAIN orders
       /\ orders[row].sym = c
       /\ \A i \in DOMAIN orders : orders[i].sym = c => i <= row
    \/ row = 0 /\ \A i \in DOMAIN orders : orders[i].sym # c

\* close_position: accepted; no position left, which counts as success; refused
\* or unreachable; accepted with the reply lost.
CloseReply(c, reply) ==
    \/ reply = "accepted" /\ AcceptClose(c)
    \/ reply = "no_position" /\ held[c] = 0 /\ UNCHANGED broker
    \/ reply = "error" /\ UNCHANGED broker
    \/ reply = "error" /\ "lostReply" \in Env /\ AcceptClose(c)

SweepClose(c) ==
    /\ pc[Scheduler] = "sweep"
    /\ c \in work
    /\ work' = work \ {c}
    /\ \E row \in 0..Len(orders), reply \in CloseReplies :
         /\ _matching_buy(c, row)
         /\ CloseReply(c, reply)
         /\ exit' = [sym |-> c, row |-> row, reply |-> reply]
    /\ Goto(Scheduler, "record")
    /\ UNCHANGED <<db, memo, left, cand>>

\* With a matching buy row, the sell row is inserted and a close that succeeded
\* closes the buy row; a failed one adds a row with a terminal status only.
CloseSucceeded == exit.reply \in {"accepted", "no_position"}

SweepRecord ==
    /\ pc[Scheduler] = "record"
    /\ IF exit.row # 0 /\ CloseSucceeded
       THEN /\ orders' = [orders EXCEPT ![exit.row].status = "closed"]
            /\ sells' = sells \cup {[sid |-> orders[exit.row].sid, sym |-> exit.sym,
                                    status |-> exit.reply]}
       ELSE UNCHANGED <<orders, sells>>
    /\ exit' = NoExit
    /\ Goto(Scheduler, "sweep")
    /\ UNCHANGED <<broker, killed, memo, left, cand, work>>

\* Inserting the sell row raises, or closing the buy row after it: the exception
\* leaves the sweep and the tick, and _loop waits for the next one.
SweepRaises ==
    /\ "rowFails" \in Env
    /\ pc[Scheduler] = "record" /\ exit.row # 0
    /\ \/ UNCHANGED sells
       \/ /\ CloseSucceeded
          /\ sells' = sells \cup {[sid |-> orders[exit.row].sid, sym |-> exit.sym,
                                  status |-> exit.reply]}
    /\ work' = {} /\ exit' = NoExit
    /\ memo' = [memo EXCEPT !.prior = memo.fresh]
    /\ Goto(Scheduler, "idle")
    /\ UNCHANGED <<broker, orders, killed, left, cand>>

\* _entry_due is left open here: it depends on the clock.
EntryNotDue ==
    /\ pc[Scheduler] = "sweep" /\ work = {}
    /\ Goto(Scheduler, "idle")
    /\ memo' = [memo EXCEPT !.prior = memo.fresh]
    /\ UNCHANGED <<broker, db, left, cand, work, exit>>

StartCycle(t) ==
    /\ \/ t = Scheduler /\ pc[t] = "sweep" /\ work = {}
       \/ t = Api /\ pc[t] = "idle"
    /\ left' = [left EXCEPT ![t] = CycleN]
    /\ Goto(t, "next")
    /\ UNCHANGED <<broker, db, memo, cand, work, exit>>

-----------------------------------------------------------------------------
(* cycle.py: the candidates of one cycle, through the option path.         *)

\* The candidate is rejected by the gate, or no contract qualifies: no row is
\* written that a control reads.  (Faulty variant: past the last candidate.)
CandidateWithoutContract_Uncounted(t) ==
    /\ pc[t] = "next"
    /\ left' = [left EXCEPT ![t] = @ - 1]
    /\ UNCHANGED <<broker, db, memo, pc, cand, work, exit>>

CandidateWithoutContract(t) ==
    /\ pc[t] = "next" /\ left[t] > 0
    /\ left' = [left EXCEPT ![t] = @ - 1]
    /\ UNCHANGED <<broker, db, memo, pc, cand, work, exit>>

\* The candidate is promoted and a contract selected for it.
SelectContract(t) ==
    /\ pc[t] = "next" /\ left[t] > 0
    /\ Len(orders) < MaxRows
    /\ \E s \in Strategy, c \in Contract :
          /\ held[c] + working[c] < MaxLots
          /\ cand' = [cand EXCEPT ![t] = [sid |-> s, sym |-> c, reply |-> "none"]]
    /\ left' = [left EXCEPT ![t] = @ - 1]
    /\ Goto(t, "check")
    /\ UNCHANGED <<broker, db, memo, work, exit>>

InsertRow(c, s, status) ==
    orders' = Append(orders, [sid |-> s, sym |-> c, status |-> status,
                              premium |-> Cost[c] * FIXED_OPTION_CONTRACTS])

\* A row for the candidate in hand; when the insert raises, the whole cycle does,
\* whatever the row was to record.
Record(t, status) ==
    /\ \/ InsertRow(cand[t].sym, cand[t].sid, status) /\ Goto(t, "next")
       \/ "rowFails" \in Env /\ UNCHANGED orders /\ Goto(t, "raised")
    /\ cand' = [cand EXCEPT ![t] = NoCand]

\* The decision of check_option: go on to submit, or record a blocked order.
Decide(t, view, n) ==
    LET c == cand[t].sym
    IN  \/ /\ check_option(c, killed, orders, sells, view, n)
           /\ Goto(t, "submit")
           /\ UNCHANGED <<orders, cand>>
        \/ /\ ~check_option(c, killed, orders, sells, view, n)
           /\ Record(t, "blocked")

\* With BROKER_TRUTH the memoised view is used while it is fresh; otherwise the
\* n-th reading gets through and, if it is made at all, is memoised.
RiskCheck(t) ==
    /\ pc[t] = "check"
    /\ \/ /\ BrokerTruth /\ memo.fresh
          /\ Decide(t, memo.view, 1)
          /\ UNCHANGED <<broker, memo>>
       \/ /\ BrokerTruth /\ ~memo.fresh
          /\ BetweenReads("racyRead")
          /\ \E n \in 1..4 :
               LET view == _broker_option_view(Positions, OpenBuyOrders')
               IN  /\ n > 1 => "readFail" \in Env
                   /\ Decide(t, view, n)
                   /\ memo' = IF n \in Reads(killed, orders)
                              THEN [fresh |-> TRUE, prior |-> FALSE, view |-> view]
                              ELSE memo
       \/ /\ ~BrokerTruth
          /\ Decide(t, EmptyView, 4)
          /\ UNCHANGED <<broker, memo>>
    /\ UNCHANGED <<sells, killed, left, work, exit>>

\* submit_option_order: accepted with a status, accepted without one, refused
\* or unreachable, or accepted with the reply lost.
SubmitReply(c, reply) ==
    \/ reply = "accepted" /\ AcceptBuy(c)
    \/ reply = "unknown" /\ "noStatus" \in Env /\ AcceptBuy(c)
    \/ reply = "error" /\ UNCHANGED broker
    \/ reply = "error" /\ "lostReply" \in Env /\ AcceptBuy(c)

Submit(t) ==
    /\ pc[t] = "submit"
    /\ \E reply \in Replies :
         /\ SubmitReply(cand[t].sym, reply)
         /\ cand' = [cand EXCEPT ![t].reply = reply]
    /\ Goto(t, "insert")
    /\ UNCHANGED <<db, memo, left, work, exit>>

InsertOrder(t) ==
    /\ pc[t] = "insert"
    /\ Record(t, cand[t].reply)
    /\ UNCHANGED <<broker, sells, killed, memo, left, work, exit>>

\* The cycle ends after its candidates, or earlier when a call raises: also when
\* the row of an order the broker has accepted cannot be inserted.
EndCycle(t) ==
    /\ pc[t] \in {"next", "raised"}
    /\ left' = [left EXCEPT ![t] = 0]
    /\ cand' = [cand EXCEPT ![t] = NoCand]
    /\ memo' = IF t = Scheduler THEN [memo EXCEPT !.prior = memo.fresh] ELSE memo
    /\ Goto(t, "idle")
    /\ UNCHANGED <<broker, db, work, exit>>

-----------------------------------------------------------------------------
(* Time, the operator, and restarts.                                       *)

MemoExpires ==
    /\ memo.fresh
    /\ memo' = NoMemo
    /\ UNCHANGED <<broker, db, threads>>

SetKillSwitch ==
    /\ "killSwitch" \in Env
    /\ killed' = ~killed
    /\ UNCHANGED <<broker, orders, sells, memo, threads>>

\* The process dies and a new one starts; "wipe": with an empty database.
Restart ==
    /\ "crash" \in Env
    /\ \/ UNCHANGED db
       \/ "wipe" \in Env /\ orders' = <<>> /\ sells' = {} /\ killed' = FALSE
    /\ memo' = NoMemo
    /\ pc' = [t \in Trader |-> IF t = Scheduler THEN "boot" ELSE "idle"]
    /\ left' = [t \in Trader |-> 0]
    /\ cand' = [t \in Trader |-> NoCand]
    /\ work' = {} /\ exit' = NoExit
    /\ UNCHANGED broker

BrokerStep ==
    /\ \/ \E c \in Contract : \/ Fill(c) \/ FillClose(c)
                              \/ "buyFails" \in Env /\ ExpireBuy(c)
                              \/ "sellFails" \in Env /\ ExpireClose(c)
       \/ "days" \in Env /\ DaysPass
    /\ UNCHANGED <<db, memo, threads>>

SchedulerStep ==
    \/ BackfillPositions \/ ReconcileOrders
    \/ Tick \/ SweepRecord \/ SweepRaises \/ EntryNotDue
    \/ \E c \in Contract : SweepClose(c)

CycleStep(t) ==
    \/ StartCycle(t) \/ CandidateWithoutContract(t) \/ SelectContract(t)
    \/ RiskCheck(t) \/ Submit(t) \/ InsertOrder(t) \/ EndCycle(t)

Next ==
    \/ SchedulerStep
    \/ \E t \in Trader : CycleStep(t)
    \/ BrokerStep \/ MemoExpires \/ SetKillSwitch \/ Restart

Spec == Init /\ [][Next]_vars
=============================================================================
