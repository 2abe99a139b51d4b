----------------------- MODULE TradingAgentProperties -----------------------
(***************************************************************************)
(* What the risk controls, the exit sweep and the startup sync promise     *)
(* about the account, stated over TradingAgent.                            *)
(***************************************************************************)
EXTENDS TradingAgent

\* The account is never exposed to more contracts than the concurrent-position
\* ceiling, whatever it fills or expires and wherever the process stops
\* (risk.py, control 2, measured on what the account holds: BROKER_TRUTH).
PositionCeiling == Cardinality(Exposed) <= MaxPositions

\* The contract in hand of a thread whose buy the broker has accepted and whose
\* row is not inserted yet.
InFlight ==
    {cand[t].sym : t \in {u \in Trader :
        pc[u] = "insert" /\ cand[u].reply \in {"accepted", "unknown"}}}

\* Where a candidate is still to be checked against a memoised view, nothing the
\* account is exposed to escapes view, local rows and the candidate in hand: the
\* TTL of _broker_cache never hides an order from the ceiling.  (A cycle whose row
\* insertion raised ends without another check.)
ViewCoversAccount ==
    memo.fresh /\ (\E t \in Trader : pc[t] \in {"next", "check", "submit", "insert"})
      => Exposed \subseteq OpenIds(orders, memo.view) \cup InFlight

\* What keeps the ceiling from one step to the next: a memoised view is in use
\* inside one entry cycle only, it covers the account, and the contract a passed
\* check lets through still fits when it is submitted.
CeilingInv ==
    /\ PositionCeiling
    /\ ViewCoversAccount
    /\ memo.fresh => pc[Scheduler] \in {"idle", "next", "check", "submit", "insert", "raised"}
    /\ memo.fresh /\ pc[Scheduler] = "idle" => memo.prior
    /\ \A t \in Trader :
          pc[t] = "submit" => Cardinality(Exposed \cup {cand[t].sym}) <= MaxPositions

\* The agent's account is a book that enters a contract only into a free slot:
\* the abstract specification the risk controls implement.
Book == INSTANCE AccountBook WITH book <- Exposed
RefinesAccountBook == Book!Spec

\* The startup reconciliation takes a contract out of the rows that count for two
\* reasons only: the account is not exposed to it, or its order filled between the
\* two reads of the account (reconcile.py asks for the positions first, so an order
\* that fills before the open orders are read is in neither list).  The contract
\* such a fill hides is held from then on, so the broker's view counts it.
SyncKeepsOpenRows ==
    [][pc[Scheduler] = "sync" /\ pc'[Scheduler] = "idle" =>
         \A c \in OpenSymbols(orders) \ OpenSymbols(orders') :
            \/ c \notin Exposed'
            \/ c \in OpenBuyOrders \ Positions /\ c \in Positions' \ OpenBuyOrders']_vars

\* One lot of every contract the account is exposed to fits the premium ceiling:
\* _open_positions counts each contract, though not each of its lots.
OneLotPremiumCeiling == SumFunctionOnSet(Cost, Exposed) <= MaxPremium

\* No contract is reconstructed twice into the same table, however often the
\* sync runs (reconcile.py: "Idempotent").
ReconstructedOnce ==
    \A i, j \in DOMAIN orders :
        /\ orders[i].sid = ReconStrategy /\ orders[j].sid = ReconStrategy
        /\ orders[i].sym = orders[j].sym
        => i = j

\* Under BROKER_TRUTH, every row that still takes a slot after a startup
\* reconciliation stands for a contract the account is exposed to, whatever crash,
\* lost close or expired order left it behind; only a row whose submission was
\* answered without a status keeps a slot for ever (reconcile.py: the sync closes
\* "any still-open local row whose symbol is not in that set").  Without BROKER_TRUTH
\* the count also takes closed rows and sells, which no reconciliation settles.
SyncFreesSlots ==
    [][BrokerTruth /\ pc[Scheduler] = "sync" /\ pc'[Scheduler] = "idle" =>
         \/ "readFail" \in Env /\ UNCHANGED orders
         \/ \A i \in _open_option_buys(orders') :
               orders'[i].sym \in Exposed' \/ orders'[i].status = "unknown"]_vars

-----------------------------------------------------------------------------
(* Liveness: the scheduler thread keeps running, the broker eventually     *)
(* fills what it accepts, and a read or a close that is retried for ever   *)
(* eventually gets through.                                                *)

Fairness ==
    /\ WF_vars(SchedulerStep \/ CycleStep(Scheduler))
    /\ SF_vars(Tick /\ {c \in Positions : history[c] = "old"} \subseteq work')
    /\ \A c \in Contract :
         /\ SF_vars(SweepClose(c) /\ CloseSucceeded')
         /\ SF_vars(FillClose(c) /\ UNCHANGED <<db, memo, threads>>)

FairSpec == Spec /\ Fairness

\* A position the time stop applies to leaves the account, however often its
\* close is refused, expires unfilled or has its reply lost (D60).
TimeStopCloses ==
    \A c \in Contract : held[c] > 0 /\ history[c] = "old" ~> held[c] = 0
=============================================================================
