---------------------------- MODULE CycleLedger ----------------------------
(***************************************************************************)
(* The audit ledger of the agent's cycles: the runs, decisions, orders,    *)
(* strategy and scheduler_ticks rows that cycle.run_cycle leaves behind,   *)
(* when the scheduler thread and the background tasks of POST /api/cycle   *)
(* run it at the same time, and when an entry cycle is due (BROKER_TRUTH   *)
(* on).  Rows that carry a run id are grouped under their run.             *)
(*                                                                         *)
(* A behaviour has one kind of trouble, chosen at the start:               *)
(*   "none"                                                                *)
(*   "crash"  the process dies between two steps and starts again          *)
(*   "read"   reads of the broker's order history may fail                 *)
(*   "db"     a connect, a write outside a cycle, or the write that closes *)
(*            a failed run may fail                                        *)
(* Whatever the trouble, any call inside a cycle may raise as well.        *)
(***************************************************************************)
EXTENDS Integers, Sequences, FiniteSetsExt

CONSTANTS
    Key,        \* strategies, by dedup_key
    Worker,     \* threads that serve POST /api/cycle
    Troubles,   \* the troubles a behaviour may have
    CycleN,     \* candidates a cycle generates at most
    Interval,   \* ENTRY_INTERVAL_MIN, in time units
    RateLimit,  \* CYCLE_MIN_INTERVAL_S, in time units
    MaxRuns,    \* bound: no run is started beyond this many
    MaxTime     \* bound: the clock stops here

ASSUME LedgerAssumption ==
    /\ Key # {} /\ "scheduler" \notin Worker
    /\ Troubles \subseteq {"none", "crash", "read", "db"}
    /\ {CycleN, Interval, RateLimit, MaxRuns, MaxTime} \subseteq Nat

Scheduler == "scheduler"
Thread == Worker \cup {Scheduler}

VARIABLES
    trouble,    \* the kind of trouble of this behaviour
    now,        \* the clock
    db,         \* the SQLite file: runs, strategy statuses, last entry tick
    trade,      \* when the account's latest order was submitted
    placed,     \* auxiliary: when a scheduler cycle last placed an order
    running,    \* _cycle_state["running"]
    started,    \* _cycle_state["last_started"]
    pc,         \* where each thread stands
    job         \* the cycle a thread works on: its run and local counters

vars == <<trouble, now, db, trade, placed, running, started, pc, job>>

Never == -1
Time == {Never} \cup Nat

Decision == [key : Key, outcome : {"promoted", "rejected"}]
Run == [state : {"open", "done", "failed"}, n : Int, promoted : Nat,
        decisions : Seq(Decision), orders : Seq(Key)]
NewRun == [state |-> "open", n |-> 0, promoted |-> 0,
           decisions |-> <<>>, orders |-> <<>>]

Ledger == [runs : Seq(Run), entry : Time,
           status : [Key -> {"none", "candidate", "active", "rejected"}]]
EmptyLedger == [runs |-> <<>>, entry |-> Never, status |-> [k \in Key |-> "none"]]

Job == [run : Nat, n : Nat, left : Nat, promoted : Nat, key : Key]
NoJob == [run |-> 0, n |-> 0, left |-> 0, promoted |-> 0, key |-> CHOOSE k \in Key : TRUE]

Stages == {"idle", "due", "connect", "generate", "decide", "status",
           "execute", "fail", "report"}

TypeOK ==
    /\ trouble \in Troubles
    /\ now \in Nat
    /\ db \in Ledger
    /\ trade \in Time /\ placed \in Time
    /\ running \in BOOLEAN /\ started \in Time
    /\ pc \in [Thread -> Stages]
    /\ job \in [Thread -> Job]

Init ==
    /\ trouble \in Troubles
    /\ now = 0
    /\ db = EmptyLedger
    /\ trade = Never /\ placed = Never
    /\ running = FALSE /\ started = Never
    /\ pc = [t \in Thread |-> "idle"]
    /\ job = [t \in Thread |-> NoJob]

Goto(t, stage) == pc' = [pc EXCEPT ![t] = stage]
Elapsed(since, span) == since = Never \/ now - since >= span

\* start_run: the new run is the last one of the table.
start_run(t) ==
    /\ db' = [db EXCEPT !.runs = Append(@, NewRun)]
    /\ job' = [job EXCEPT ![t] = [NoJob EXCEPT !.run = Len(db.runs) + 1]]

-----------------------------------------------------------------------------
(* cycle.py: one cycle, in any thread.                                     *)

\* Control leaves the cycle; of its locals the caller knows the run only.
Leave(t, stage) ==
    /\ Goto(t, stage)
    /\ job' = [job EXCEPT ![t] = [NoJob EXCEPT !.run = job[t].run]]

Raise(t) == Leave(t, "fail")

\* A read of bars, a replay or a write to the database raises.
CallRaises(t) ==
    /\ pc[t] \in {"decide", "status"}
    /\ Raise(t)
    /\ UNCHANGED <<trouble, now, db, trade, placed, running, started>>

\* Candidates are stored, known ones keep their row; a generator that raises
\* may have stored some.
Generate(t) ==
    /\ pc[t] = "generate"
    /\ \E new \in SUBSET Key :
         db' = [db EXCEPT !.status =
                  [k \in Key |-> IF k \in new /\ @[k] = "none" THEN "candidate" ELSE @[k]]]
    /\ \/ \E n \in 0..CycleN :
             /\ n > 0 => \E k \in Key : db'.status[k] # "none"
             /\ job' = [job EXCEPT ![t] = [@ EXCEPT !.n = n, !.left = n]]
             /\ Goto(t, "decide")
       \/ Raise(t)
    /\ UNCHANGED <<trouble, now, trade, placed, running, started>>

\* Faulty variant: one candidate too many is taken up.
DecideCandidate_PastLast(t) ==
    /\ pc[t] = "decide"
    /\ job' = [job EXCEPT ![t].left = @ - 1]
    /\ Goto(t, "decide")
    /\ UNCHANGED <<trouble, now, db, trade, placed, running, started>>

\* The bars are read, the candidate is replayed and gated, and its decision is
\* written; the gate may promote or reject any candidate.
DecideCandidate(t) ==
    /\ pc[t] = "decide" /\ job[t].left > 0
    /\ \E k \in Key, outcome \in {"promoted", "rejected"} :
         /\ db.status[k] # "none"
         /\ db' = [db EXCEPT !.runs[job[t].run].decisions =
                      Append(@, [key |-> k, outcome |-> outcome])]
         /\ job' = [job EXCEPT ![t] = [@ EXCEPT !.key = k, !.left = job[t].left - 1]]
    /\ Goto(t, "status")
    /\ UNCHANGED <<trouble, now, trade, placed, running, started>>

LastOutcome(t) ==
    LET ds == db.runs[job[t].run].decisions IN ds[Len(ds)].outcome

\* Faulty variant: a rejected candidate is executed as well.
SetStatus_AlwaysExecutes(t) ==
    /\ pc[t] = "status"
    /\ db' = [db EXCEPT !.status[job[t].key] =
                IF LastOutcome(t) = "promoted" THEN "active" ELSE "rejected"]
    /\ Goto(t, "execute")
    /\ UNCHANGED <<trouble, now, trade, placed, running, started, job>>

SetStatus(t) ==
    /\ pc[t] = "status"
    /\ \/ /\ LastOutcome(t) = "promoted"
          /\ db' = [db EXCEPT !.status[job[t].key] = "active"]
          /\ job' = [job EXCEPT ![t].promoted = @ + 1]
          /\ Goto(t, "execute")
       \/ /\ LastOutcome(t) = "rejected"
          /\ db' = [db EXCEPT !.status[job[t].key] = "rejected"]
          /\ Goto(t, "decide")
          /\ UNCHANGED job
    /\ UNCHANGED <<trouble, now, trade, placed, running, started>>

PlaceOrder(t) ==
    /\ trade' = now
    /\ placed' = IF t = Scheduler THEN now ELSE placed

\* Faulty variant: a promotion no order was placed for leaves no row.
Execute_SkipUnrecorded(t) ==
    /\ pc[t] = "execute"
    /\ UNCHANGED <<db, trade, placed>>
    /\ Goto(t, "decide")
    /\ UNCHANGED <<trouble, now, running, started, job>>

\* An order is placed, or the promotion is skipped or blocked; either way an
\* order row records it.
Execute(t) ==
    /\ pc[t] = "execute"
    /\ PlaceOrder(t) \/ UNCHANGED <<trade, placed>>
    /\ \/ /\ db' = [db EXCEPT !.runs[job[t].run].orders = Append(@, job[t].key)]
          /\ Goto(t, "decide")
          /\ UNCHANGED job
       \/ Raise(t) /\ UNCHANGED db
    /\ UNCHANGED <<trouble, now, running, started>>

FinishRun(t) ==
    /\ pc[t] = "decide" /\ job[t].left = 0
    /\ db' = [db EXCEPT !.runs[job[t].run] =
                 [@ EXCEPT !.state = "done", !.n = job[t].n, !.promoted = job[t].promoted]]
    /\ Leave(t, "report")
    /\ UNCHANGED <<trouble, now, trade, placed, running, started>>

\* Faulty variants: the except clause leaves the run alone; it leaves without
\* reaching the finally clause.
FailRun_LeavesOpen(t) ==
    /\ pc[t] = "fail"
    /\ Goto(t, "report")
    /\ UNCHANGED <<trouble, now, db, trade, placed, running, started, job>>

FailRun_NoFinally(t) ==
    /\ pc[t] = "fail"
    /\ db' = [db EXCEPT !.runs[job[t].run] = [@ EXCEPT !.state = "failed", !.n = -1]]
    /\ Goto(t, "idle")
    /\ UNCHANGED <<trouble, now, trade, placed, running, started, job>>

\* The cycle raised: its run is closed as failed, and an error of that write is
\* swallowed.
FailRun(t) ==
    /\ pc[t] = "fail"
    /\ \/ db' = [db EXCEPT !.runs[job[t].run] = [@ EXCEPT !.state = "failed", !.n = -1]]
       \/ trouble = "db" /\ UNCHANGED db
    /\ Goto(t, "report")
    /\ UNCHANGED <<trouble, now, trade, placed, running, started, job>>

CycleStep(t) ==
    \/ Generate(t) \/ DecideCandidate(t) \/ SetStatus(t) \/ Execute(t)
    \/ CallRaises(t) \/ FinishRun(t) \/ FailRun(t)

-----------------------------------------------------------------------------
(* scheduler.py: a tick.  A tick that finds the market closed, or no       *)
(* clock, writes a tick row no decision is taken from.                     *)

\* The exit sweep, which may submit closing orders.
SweepPositions ==
    /\ pc[Scheduler] = "idle"
    /\ trade' = now \/ UNCHANGED trade
    /\ Goto(Scheduler, "due")
    /\ UNCHANGED <<trouble, now, db, placed, running, started, job>>

\* The latest of the last entry-cycle tick and the account's last order.
_broker_last_trade_at == IF trouble = "read" THEN {trade, Never} ELSE {trade}
_entry_due(broker) == Elapsed(Max({db.entry, broker}), Interval)

\* Faulty variant: only the local marker is looked at.
EntryCheck_LocalOnly ==
    /\ pc[Scheduler] = "due"
    /\ IF Elapsed(db.entry, Interval) /\ Len(db.runs) < MaxRuns
       THEN start_run(Scheduler) /\ Goto(Scheduler, "generate")
       ELSE Goto(Scheduler, "idle") /\ UNCHANGED <<db, job>>
    /\ UNCHANGED <<trouble, now, trade, placed, running, started>>

EntryCheck ==
    /\ pc[Scheduler] = "due"
    /\ \/ \E broker \in _broker_last_trade_at :
             /\ _entry_due(broker) /\ Len(db.runs) < MaxRuns
             /\ start_run(Scheduler)
             /\ Goto(Scheduler, "generate")
       \/ /\ \/ \E broker \in _broker_last_trade_at : ~_entry_due(broker)
             \/ trouble = "db" \/ Len(db.runs) = MaxRuns
          /\ Goto(Scheduler, "idle")
          /\ UNCHANGED <<db, job>>
    /\ UNCHANGED <<trouble, now, trade, placed, running, started>>

\* The entry-cycle tick row, whether the cycle failed or not.
RecordTick ==
    /\ pc[Scheduler] = "report"
    /\ \/ db' = [db EXCEPT !.entry = now]
       \/ trouble = "db" /\ UNCHANGED db
    /\ Goto(Scheduler, "idle")
    /\ job' = [job EXCEPT ![Scheduler] = NoJob]
    /\ UNCHANGED <<trouble, now, trade, placed, running, started>>

-----------------------------------------------------------------------------
(* api.py: POST /api/cycle and its background task.                        *)

\* Faulty variant: the running flag is not looked at.
trigger_cycle_Unguarded(w) ==
    /\ pc[w] = "idle" /\ Len(db.runs) < MaxRuns
    /\ Elapsed(started, RateLimit)
    /\ start_run(w)
    /\ running' = TRUE /\ started' = now
    /\ Goto(w, "connect")
    /\ UNCHANGED <<trouble, now, trade, placed>>

trigger_cycle(w) ==
    /\ pc[w] = "idle" /\ Len(db.runs) < MaxRuns
    /\ ~running
    /\ Elapsed(started, RateLimit)
    /\ start_run(w)
    /\ running' = TRUE /\ started' = now
    /\ Goto(w, "connect")
    /\ UNCHANGED <<trouble, now, trade, placed>>

\* The task connects before its try block: an error there ends it at once.
_run_cycle_bg(w) ==
    /\ pc[w] = "connect"
    /\ \/ Goto(w, "generate") /\ UNCHANGED job
       \/ trouble = "db" /\ Goto(w, "idle") /\ job' = [job EXCEPT ![w] = NoJob]
    /\ UNCHANGED <<trouble, now, db, trade, placed, running, started>>

ReleaseCycle(w) ==
    /\ pc[w] = "report"
    /\ running' = FALSE
    /\ Goto(w, "idle")
    /\ job' = [job EXCEPT ![w] = NoJob]
    /\ UNCHANGED <<trouble, now, db, trade, placed, started>>

-----------------------------------------------------------------------------
PassTime ==
    /\ now < MaxTime
    /\ now' = now + 1
    /\ UNCHANGED <<trouble, db, trade, placed, running, started, pc, job>>

\* A new process on the database file fresh.
Reboot(fresh) ==
    /\ trouble = "crash"
    /\ db' = fresh
    /\ running' = FALSE /\ started' = Never
    /\ pc' = [t \in Thread |-> "idle"]
    /\ job' = [t \in Thread |-> NoJob]
    /\ UNCHANGED <<trouble, now, trade, placed>>

SchedulerTick == SweepPositions \/ EntryCheck \/ RecordTick
TaskStep(w) == _run_cycle_bg(w) \/ ReleaseCycle(w)

Next ==
    \/ SchedulerTick
    \/ \E t \in Thread : CycleStep(t)
    \/ \E w \in Worker : trigger_cycle(w) \/ TaskStep(w)
    \/ PassTime
    \/ Reboot(db) \/ Reboot(EmptyLedger)

Fairness ==
    /\ WF_vars(SchedulerTick \/ CycleStep(Scheduler))
    /\ \A w \in Worker : WF_vars(TaskStep(w) \/ CycleStep(w))

Spec == Init /\ [][Next]_vars /\ Fairness
=============================================================================
