-------------------------- MODULE LedgerProperties --------------------------
(***************************************************************************)
(* What the ledger of the cycles promises.                                 *)
(***************************************************************************)
EXTENDS CycleLedger

Promoted(run) == {i \in DOMAIN run.decisions : run.decisions[i].outcome = "promoted"}

\* A finished run is complete: one decision per candidate it counts, and one order
\* row per promotion (cycle.py: "Nothing is silently dropped: every candidate ends
\* with a decision row, and every promotion ends with an order row").
FinishedRunsComplete ==
    \A i \in DOMAIN db.runs :
        LET run == db.runs[i] IN
        run.state = "done" =>
            /\ Len(run.decisions) = run.n
            /\ Len(run.orders) = run.promoted
            /\ Cardinality(Promoted(run)) = run.promoted

\* Every order row, of a run in whatever state, was earned by a promotion its own
\* run had already written, and no strategy is active without one: processes die,
\* and copies of the database are taken, between any two writes.
OrdersBackedByDecisions ==
    /\ \A i \in DOMAIN db.runs, k \in Key :
          LET run == db.runs[i] IN
          Cardinality({o \in DOMAIN run.orders : run.orders[o] = k})
            <= Cardinality({d \in Promoted(run) : run.decisions[d].key = k})
    /\ \A k \in Key :
          db.status[k] = "active" =>
             \E i \in DOMAIN db.runs : \E d \in Promoted(db.runs[i]) :
                db.runs[i].decisions[d].key = k

\* Two tasks of POST /api/cycle never work at the same time (api.py: "one cycle
\* at a time").
OneApiCycle == Cardinality({w \in Worker : pc[w] # "idle"}) <= 1

\* After a scheduler cycle placed an order the scheduler starts no cycle for the
\* entry interval, in spite of a restart, of a lost or old database, of failing
\* reads or of failing writes, one of them at a time (D58: a restart must not
\* "re-run a cycle it already did").
EntrySpacing ==
    [][pc[Scheduler] = "due" /\ pc'[Scheduler] = "generate"
         => Elapsed(placed, Interval)]_vars

Open(i) == i \in DOMAIN db.runs /\ db.runs[i].state = "open"

\* Every run that is started is closed, done or failed, while the process lives
\* and its writes succeed.
RunsClose ==
    \A i \in 1..MaxRuns :
        trouble \in {"none", "read"} /\ Open(i) ~> ~Open(i)

\* Once a task of POST /api/cycle has connected, whatever fails after that, and where
\* connecting does not fail at all once it has been started, the running flag is
\* cleared again and the endpoint usable. A task that fails to connect, which it does
\* before its try block (api.py:651), leaves the flag set until the next restart.
ApiReopens ==
    (\E w \in Worker : pc[w] # "idle" /\ ~(pc[w] = "connect" /\ trouble = "db")) ~> ~running
=============================================================================
