---------------------------- MODULE LedgerProofs ----------------------------
(***************************************************************************)
(* Proofs about the ledger of the cycles, for any number of strategies,    *)
(* request threads, candidates and runs, and any kind of trouble: types,   *)
(* the endpoint and the entry interval; that the audit is complete, what   *)
(* the rows of a run add up to at every step of the cycle that writes      *)
(* them; and both after a restart on a published copy of the database.     *)
(***************************************************************************)
EXTENDS LedgerProperties, LedgerSnapshots, FiniteSetTheorems, SequenceTheorems, TLAPS

USE DEF Scheduler

\* A thread between the start of its run and the write that closes it.
Working(t) == pc[t] \in {"connect", "generate", "decide", "status", "execute", "fail"}
RunOf(t) == db.runs[job[t].run]

\* Each thread works on a run of its own, which is open.
OwnRuns ==
    /\ \A t \in Thread : Working(t) => job[t].run \in DOMAIN db.runs /\ RunOf(t).state = "open"
    /\ \A t, u \in Thread : Working(t) /\ Working(u) /\ job[t].run = job[u].run => t = u

JobsInv == TypeOK /\ OwnRuns

-----------------------------------------------------------------------------
(* Writes to the database.                                                 *)

LEMMA NoneTyped == /\ EmptyLedger \in Ledger /\ NoJob \in Job /\ NewRun \in Run
                   /\ EmptyLedger.runs = <<>> /\ NewRun.state = "open"
<1>1. (CHOOSE k \in Key : TRUE) \in Key
  BY LedgerAssumption
<1>2. NoJob \in Job
  BY <1>1 DEF NoJob, Job
<1>3. NewRun \in Run /\ NewRun.state = "open"
  BY EmptySeq DEF NewRun, Run
<1>4. EmptyLedger \in Ledger /\ EmptyLedger.runs = <<>>
  BY EmptySeq DEF EmptyLedger, Ledger, Time
<1> QED
  BY <1>2, <1>3, <1>4

LEMMA JobStarted ==
  ASSUME NEW n \in Nat
  PROVE  /\ [NoJob EXCEPT !.run = n] \in Job
         /\ [NoJob EXCEPT !.run = n].run = n
         /\ [NoJob EXCEPT !.run = n].promoted = 0
<1>1. NoJob \in Job /\ NoJob.promoted = 0
  BY NoneTyped DEF NoJob
<1> QED
  BY <1>1 DEF Job

LEMMA JobFields ==
  ASSUME NEW j \in Job, NEW n \in Nat, NEW left \in Nat, NEW k \in Key
  PROVE  /\ [j EXCEPT !.n = n, !.left = left] \in Job
         /\ [j EXCEPT !.n = n, !.left = left].run = j.run
         /\ [j EXCEPT !.key = k, !.left = left] \in Job
         /\ [j EXCEPT !.key = k, !.left = left].run = j.run
<1>1. ASSUME NEW i \in Job
      PROVE  /\ [i EXCEPT !.n = n] \in Job /\ [i EXCEPT !.n = n].run = i.run
             /\ [i EXCEPT !.key = k] \in Job /\ [i EXCEPT !.key = k].run = i.run
             /\ [i EXCEPT !.left = left] \in Job /\ [i EXCEPT !.left = left].run = i.run
  BY DEF Job
<1> QED
  BY <1>1

LEMMA RunFailed ==
  ASSUME NEW run \in Run
  PROVE  LET new == [run EXCEPT !.state = "failed", !.n = -1]
         IN  /\ new \in Run /\ new.state = "failed"
             /\ new.decisions = run.decisions /\ new.orders = run.orders
<1> DEFINE first == [run EXCEPT !.state = "failed"]
           second == [first EXCEPT !.n = -1]
<1>1. /\ first \in Run /\ first.state = "failed"
      /\ first.decisions = run.decisions /\ first.orders = run.orders
  BY DEF Run
<1> HIDE DEF first
<1>2. /\ second \in Run /\ second.state = "failed"
      /\ second.decisions = run.decisions /\ second.orders = run.orders
  BY <1>1 DEF Run
<1> QED
  BY <1>2 DEF first

Closes(new, run, n, promoted) ==
    /\ new \in Run /\ new.state = "done" /\ new.n = n /\ new.promoted = promoted
    /\ new.decisions = run.decisions /\ new.orders = run.orders

LEMMA RunDone ==
  ASSUME NEW run \in Run, NEW n \in Nat, NEW promoted \in Nat, NEW new,
         new = [run EXCEPT !.state = "done", !.n = n, !.promoted = promoted]
  PROVE  Closes(new, run, n, promoted)
<1> DEFINE first == [run EXCEPT !.state = "done"]
           second == [first EXCEPT !.n = n]
           third == [second EXCEPT !.promoted = promoted]
<1>1. /\ first \in Run /\ first.state = "done"
      /\ first.decisions = run.decisions /\ first.orders = run.orders
  BY DEF Run
<1> HIDE DEF first
<1>2. /\ second \in Run /\ second.state = "done" /\ second.n = n
      /\ second.decisions = run.decisions /\ second.orders = run.orders
  BY <1>1 DEF Run
<1> HIDE DEF second
<1>3. /\ third \in Run /\ third.state = "done" /\ third.n = n /\ third.promoted = promoted
      /\ third.decisions = run.decisions /\ third.orders = run.orders
  BY <1>2 DEF Run
<1>4. new = third
  BY DEF first, second
<1> HIDE DEF third
<1> QED
  BY <1>3, <1>4 DEF Closes

\* A run is rewritten.
LEMMA RunWritten ==
  ASSUME db \in Ledger, NEW r \in DOMAIN db.runs, NEW new \in Run,
         db' = [db EXCEPT !.runs[r] = new]
  PROVE  /\ db' \in Ledger
         /\ DOMAIN db'.runs = DOMAIN db.runs
         /\ db'.runs[r] = new
         /\ \A i \in DOMAIN db.runs \ {r} : db'.runs[i] = db.runs[i]
         /\ db'.status = db.status /\ db'.entry = db.entry
<1> DEFINE runs == [db.runs EXCEPT ![r] = new]
<1>1. db.runs \in Seq(Run)
  BY DEF Ledger
<1>2. /\ runs \in Seq(Run) /\ DOMAIN runs = DOMAIN db.runs
      /\ runs[r] = new /\ \A i \in DOMAIN db.runs \ {r} : runs[i] = db.runs[i]
  BY <1>1, LenProperties, ExceptSeq
<1>3. db' = [db EXCEPT !.runs = runs]
  OBVIOUS
<1> HIDE DEF runs
<1> QED
  BY <1>2, <1>3 DEF Ledger

\* The status of a strategy is written.
LEMMA StatusWritten ==
  ASSUME db \in Ledger,
         NEW status \in [Key -> {"none", "candidate", "active", "rejected"}],
         db' = [db EXCEPT !.status = status]
  PROVE  db' \in Ledger /\ db'.runs = db.runs /\ db'.status = status /\ db'.entry = db.entry
  BY DEF Ledger

\* A run is started.
LEMMA RunStarted ==
  ASSUME db \in Ledger, job \in [Thread -> Job], NEW t \in Thread, start_run(t)
  PROVE  /\ db' \in Ledger /\ job' \in [Thread -> Job]
         /\ Len(db.runs) \in Nat /\ DOMAIN db.runs = 1..Len(db.runs)
         /\ DOMAIN db'.runs = 1..(Len(db.runs) + 1)
         /\ db'.runs[Len(db.runs) + 1] = NewRun
         /\ \A i \in DOMAIN db.runs : db'.runs[i] = db.runs[i]
         /\ db'.status = db.status /\ db'.entry = db.entry
         /\ job'[t] = [NoJob EXCEPT !.run = Len(db.runs) + 1]
         /\ \A u \in Thread \ {t} : job'[u] = job[u]
<1> DEFINE runs == Append(db.runs, NewRun)
<1>1. db.runs \in Seq(Run)
  BY DEF Ledger
<1>2. /\ runs \in Seq(Run) /\ Len(runs) = Len(db.runs) + 1
      /\ runs[Len(db.runs) + 1] = NewRun
      /\ \A i \in 1..Len(db.runs) : runs[i] = db.runs[i]
      /\ Len(db.runs) \in Nat /\ DOMAIN db.runs = 1..Len(db.runs)
      /\ DOMAIN runs = 1..Len(runs)
  BY <1>1, NoneTyped, AppendProperties, LenProperties
<1>3. db' = [db EXCEPT !.runs = runs]
  BY DEF start_run
<1>4. job' = [job EXCEPT ![t] = [NoJob EXCEPT !.run = Len(db.runs) + 1]]
  BY DEF start_run
<1>5. [NoJob EXCEPT !.run = Len(db.runs) + 1] \in Job
  <2>1. Len(db.runs) + 1 \in Nat
    BY <1>2
  <2> QED
    BY <2>1, JobStarted
<1> HIDE DEF runs
<1>6. /\ db' \in Ledger /\ db'.runs = runs
      /\ db'.status = db.status /\ db'.entry = db.entry
  BY <1>2, <1>3 DEF Ledger
<1> QED
  BY <1>2, <1>4, <1>5, <1>6

-----------------------------------------------------------------------------
(* Types, and whose run is whose.                                          *)

LEMMA JobsInit == Init => JobsInv
<1> SUFFICES ASSUME Init PROVE JobsInv
  OBVIOUS
<1>1. TypeOK
  BY NoneTyped DEF Init, TypeOK, Time, Stages, Never
<1>2. OwnRuns
  BY DEF Init, OwnRuns, Working
<1> QED
  BY <1>1, <1>2 DEF JobsInv

\* A step that moves one thread inside its cycle, or out of it, and leaves every
\* other run alone, keeps the runs apart.
LEMMA OwnRunsKept ==
  ASSUME JobsInv, NEW t \in Thread, NEW stage, pc' = [pc EXCEPT ![t] = stage],
         \A u \in Thread : job'[u].run = job[u].run \/ (u = t /\ ~Working(t)'),
         DOMAIN db'.runs = DOMAIN db.runs,
         \A i \in DOMAIN db.runs : db'.runs[i].state = db.runs[i].state
                                   \/ (Working(t) /\ i = job[t].run /\ ~Working(t)'),
         Working(t)' => Working(t)
  PROVE  OwnRuns'
<1>1. \A u \in Thread : Working(u)' => Working(u) /\ job'[u].run = job[u].run
  BY DEF JobsInv, TypeOK, Working
<1>2. \A u \in Thread : Working(u)' => db'.runs[job[u].run].state = "open"
  BY <1>1 DEF JobsInv, OwnRuns, RunOf
<1> QED
  BY <1>1, <1>2 DEF JobsInv, OwnRuns, RunOf

\* A thread in its cycle, its run and its locals have the types they need.
LEMMA WorkingTypes ==
  ASSUME JobsInv, NEW t \in Thread, Working(t)
  PROVE  /\ job[t] \in Job /\ job[t].run \in Nat /\ job[t].key \in Key
         /\ job[t].left \in Nat /\ job[t].n \in Nat /\ job[t].promoted \in Nat
         /\ job[t].run \in DOMAIN db.runs /\ RunOf(t) \in Run /\ RunOf(t).state = "open"
         /\ RunOf(t).decisions \in Seq(Decision) /\ RunOf(t).orders \in Seq(Key)
         /\ db \in Ledger
<1>1. job[t] \in Job /\ db \in Ledger
  BY DEF JobsInv, TypeOK
<1>2. job[t].run \in DOMAIN db.runs /\ RunOf(t).state = "open"
  BY DEF JobsInv, OwnRuns
<1>3. RunOf(t) \in Run
  <2>1. db.runs \in Seq(Run)
    BY <1>1 DEF Ledger
  <2> QED
    BY <1>2, <2>1, LenProperties, ElementOfSeq DEF RunOf
<1> QED
  BY <1>1, <1>2, <1>3 DEF Job, Run

\* Control leaves the cycle.
LEMMA LeaveTyped ==
  ASSUME JobsInv, NEW t \in Thread, Working(t), NEW stage \in Stages, Leave(t, stage)
  PROVE  /\ job' \in [Thread -> Job] /\ pc' \in [Thread -> Stages]
         /\ pc' = [pc EXCEPT ![t] = stage]
         /\ \A u \in Thread : job'[u].run = job[u].run
<1>1. [NoJob EXCEPT !.run = job[t].run] \in Job
      /\ [NoJob EXCEPT !.run = job[t].run].run = job[t].run
  BY WorkingTypes, JobStarted
<1> QED
  BY <1>1 DEF Leave, Goto, JobsInv, TypeOK

LEMMA DecidedTyped ==
  ASSUME JobsInv, NEW t \in Thread, DecideCandidate(t)
  PROVE  \E d \in Decision :
           LET new == [RunOf(t) EXCEPT !.decisions = Append(@, d)]
           IN  /\ new \in Run /\ new.state = RunOf(t).state
               /\ new.decisions = Append(RunOf(t).decisions, d)
               /\ new.orders = RunOf(t).orders
               /\ db' = [db EXCEPT !.runs[job[t].run] = new]
               /\ job' = [job EXCEPT ![t] = [@ EXCEPT !.key = d.key, !.left = job[t].left - 1]]
               /\ job[t].left > 0
<1>1. PICK k \in Key, outcome \in {"promoted", "rejected"} :
        /\ db' = [db EXCEPT !.runs[job[t].run].decisions =
                     Append(@, [key |-> k, outcome |-> outcome])]
        /\ job' = [job EXCEPT ![t] = [@ EXCEPT !.key = k, !.left = job[t].left - 1]]
  BY DEF DecideCandidate
<1> DEFINE d == [key |-> k, outcome |-> outcome]
           new == [RunOf(t) EXCEPT !.decisions = Append(@, d)]
<1>2. d \in Decision /\ d.key = k
  BY DEF Decision
<1>3. Working(t) /\ job[t].left > 0
  BY DEF DecideCandidate, Working
<1>4. Append(RunOf(t).decisions, d) \in Seq(Decision)
  BY <1>2, <1>3, WorkingTypes, AppendProperties
<1>5. /\ new \in Run /\ new.decisions = Append(RunOf(t).decisions, d)
      /\ new.state = RunOf(t).state /\ new.orders = RunOf(t).orders
  BY <1>3, <1>4, WorkingTypes DEF Run
<1>6. db' = [db EXCEPT !.runs[job[t].run] = new]
  BY <1>1 DEF RunOf
<1>7. job' = [job EXCEPT ![t] = [@ EXCEPT !.key = d.key, !.left = job[t].left - 1]]
  BY <1>1, <1>2
<1> QED
  BY <1>2, <1>3, <1>5, <1>6, <1>7

LEMMA ExecutedTyped ==
  ASSUME JobsInv, NEW t \in Thread, Working(t),
         db' = [db EXCEPT !.runs[job[t].run].orders = Append(@, job[t].key)]
  PROVE  LET new == [RunOf(t) EXCEPT !.orders = Append(@, job[t].key)]
         IN  /\ new \in Run /\ new.state = RunOf(t).state
             /\ new.decisions = RunOf(t).decisions
             /\ new.orders = Append(RunOf(t).orders, job[t].key)
             /\ db' = [db EXCEPT !.runs[job[t].run] = new]
<1> DEFINE new == [RunOf(t) EXCEPT !.orders = Append(@, job[t].key)]
<1>1. Append(RunOf(t).orders, job[t].key) \in Seq(Key)
  BY WorkingTypes, AppendProperties
<1>2. /\ new \in Run /\ new.orders = Append(RunOf(t).orders, job[t].key)
      /\ new.state = RunOf(t).state /\ new.decisions = RunOf(t).decisions
  BY <1>1, WorkingTypes DEF Run
<1>3. db' = [db EXCEPT !.runs[job[t].run] = new]
  BY DEF RunOf
<1> QED
  BY <1>2, <1>3

\* Cycle by cycle step, tick by tick, request by request, the types and the
\* threads' claims on their runs are kept.
LEMMA JobsCycle ==
  ASSUME JobsInv, NEW t \in Thread, CycleStep(t) PROVE JobsInv'
<1> USE DEF Stages
<1>0. TypeOK
  BY DEF JobsInv
<1>1. CASE CallRaises(t)
  <2>1. Working(t) /\ Leave(t, "fail")
    BY <1>1 DEF CallRaises, Raise, Working
  <2>2. UNCHANGED <<trouble, now, db, trade, placed, running, started>>
    BY <1>1 DEF CallRaises
  <2>3. TypeOK'
    BY <1>0, <2>1, <2>2, LeaveTyped DEF TypeOK
  <2>4. OwnRuns'
    BY <2>1, <2>2, LeaveTyped, OwnRunsKept DEF Working
  <2> QED
    BY <2>3, <2>4 DEF JobsInv
<1>2. CASE Generate(t)
  <2>1. Working(t)
    BY <1>2 DEF Generate, Working
  <2>2. PICK new \in SUBSET Key : db' = [db EXCEPT !.status =
          [k \in Key |-> IF k \in new /\ @[k] = "none" THEN "candidate" ELSE @[k]]]
    BY <1>2 DEF Generate
  <2> DEFINE status == [k \in Key |-> IF k \in new /\ db.status[k] = "none"
                                     THEN "candidate" ELSE db.status[k]]
  <2>3. /\ status \in [Key -> {"none", "candidate", "active", "rejected"}]
        /\ db' = [db EXCEPT !.status = status]
    BY <1>0, <2>2 DEF TypeOK, Ledger
  <2>4. db' \in Ledger /\ db'.runs = db.runs
    BY <1>0, <2>3, StatusWritten DEF TypeOK
  <2>5. UNCHANGED <<trouble, now, trade, placed, running, started>>
    BY <1>2 DEF Generate
  <2>6. CASE Raise(t)
    <3>1. TypeOK'
      BY <1>0, <2>1, <2>4, <2>5, <2>6, LeaveTyped DEF TypeOK, Raise
    <3>2. OwnRuns'
      BY <2>1, <2>4, <2>6, LeaveTyped, OwnRunsKept DEF Raise
    <3> QED
      BY <3>1, <3>2 DEF JobsInv
  <2>7. ASSUME NEW n \in 0..CycleN, Goto(t, "decide"),
               job' = [job EXCEPT ![t] = [@ EXCEPT !.n = n, !.left = n]]
        PROVE  JobsInv'
    <3>1. /\ [job[t] EXCEPT !.n = n, !.left = n] \in Job
          /\ [job[t] EXCEPT !.n = n, !.left = n].run = job[t].run
      <4>1. n \in Nat /\ job[t] \in Job /\ job[t].key \in Key
        BY <2>1, LedgerAssumption, WorkingTypes
      <4> QED
        BY <4>1, JobFields, ZenonT(60)
    <3>2. TypeOK'
      BY <1>0, <2>4, <2>5, <2>7, <3>1 DEF TypeOK, Goto
    <3>3. \A u \in Thread : job'[u].run = job[u].run
      BY <1>0, <2>7, <3>1 DEF TypeOK
    <3>4. OwnRuns'
      BY <2>1, <2>4, <2>7, <3>3, OwnRunsKept DEF Goto
    <3> QED
      BY <3>2, <3>4 DEF JobsInv
  <2> QED
    BY <1>2, <2>6, <2>7 DEF Generate
<1>3. CASE DecideCandidate(t)
  <2>1. /\ Working(t) /\ pc' = [pc EXCEPT ![t] = "status"]
        /\ UNCHANGED <<trouble, now, trade, placed, running, started>>
    BY <1>3 DEF DecideCandidate, Goto, Working
  <2>2. PICK d \in Decision :
          LET new == [RunOf(t) EXCEPT !.decisions = Append(@, d)]
          IN  /\ new \in Run /\ new.state = RunOf(t).state
              /\ db' = [db EXCEPT !.runs[job[t].run] = new]
              /\ job' = [job EXCEPT ![t] = [@ EXCEPT !.key = d.key, !.left = job[t].left - 1]]
              /\ job[t].left > 0
    BY <1>3, DecidedTyped
  <2> DEFINE new == [RunOf(t) EXCEPT !.decisions = Append(@, d)]
             mine == [job[t] EXCEPT !.key = d.key, !.left = job[t].left - 1]
  <2>3. mine \in Job /\ mine.run = job[t].run
    <3>1. job[t] \in Job /\ d.key \in Key /\ job[t].left - 1 \in Nat
      BY <2>1, <2>2, WorkingTypes DEF Decision
    <3> QED
      BY <3>1, JobFields
  <2>4. /\ db' \in Ledger /\ DOMAIN db'.runs = DOMAIN db.runs
        /\ \A i \in DOMAIN db.runs : db'.runs[i].state = db.runs[i].state
    <3>1. /\ new \in Run /\ new.state = RunOf(t).state
          /\ db' = [db EXCEPT !.runs[job[t].run] = new]
      BY <2>2
    <3> HIDE DEF new
    <3> QED
      BY <2>1, <3>1, WorkingTypes, RunWritten DEF RunOf
  <2>5. job' = [job EXCEPT ![t] = mine]
    BY <2>2
  <2> HIDE DEF mine
  <2>6. TypeOK'
    BY <1>0, <2>1, <2>3, <2>4, <2>5 DEF TypeOK
  <2>7. \A u \in Thread : job'[u].run = job[u].run
    BY <1>0, <2>3, <2>5 DEF TypeOK
  <2>8. OwnRuns'
    BY <2>1, <2>4, <2>7, OwnRunsKept
  <2> QED
    BY <2>6, <2>8 DEF JobsInv
<1>4. CASE SetStatus(t)
  <2>1. Working(t) /\ UNCHANGED <<trouble, now, trade, placed, running, started>>
    BY <1>4 DEF SetStatus, Working
  <2>2. PICK st \in {"active", "rejected"} : db' = [db EXCEPT !.status[job[t].key] = st]
    BY <1>4 DEF SetStatus
  <2> DEFINE status == [db.status EXCEPT ![job[t].key] = st]
  <2>3. /\ status \in [Key -> {"none", "candidate", "active", "rejected"}]
        /\ db' = [db EXCEPT !.status = status]
    BY <2>1, <2>2, WorkingTypes DEF Ledger
  <2>4. db' \in Ledger /\ db'.runs = db.runs
    BY <1>0, <2>3, StatusWritten DEF TypeOK
  <2>5. \/ UNCHANGED job /\ pc' = [pc EXCEPT ![t] = "decide"]
        \/ /\ job' = [job EXCEPT ![t] = [@ EXCEPT !.promoted = job[t].promoted + 1]]
           /\ pc' = [pc EXCEPT ![t] = "execute"]
    BY <1>4 DEF SetStatus, Goto
  <2>6. /\ [job[t] EXCEPT !.promoted = job[t].promoted + 1] \in Job
        /\ [job[t] EXCEPT !.promoted = job[t].promoted + 1].run = job[t].run
    BY <2>1, WorkingTypes DEF Job
  <2>7. TypeOK'
    BY <1>0, <2>1, <2>4, <2>5, <2>6 DEF TypeOK
  <2>8. \A u \in Thread : job'[u].run = job[u].run
    BY <1>0, <2>5, <2>6 DEF TypeOK
  <2>9. OwnRuns'
    BY <2>1, <2>4, <2>5, <2>8, OwnRunsKept
  <2> QED
    BY <2>7, <2>9 DEF JobsInv
<1>5. CASE Execute(t)
  <2>1. /\ Working(t) /\ UNCHANGED <<trouble, now, running, started>>
        /\ trade' \in Time /\ placed' \in Time
    BY <1>0, <1>5 DEF Execute, PlaceOrder, Working, TypeOK, Time
  <2>2. CASE /\ db' = [db EXCEPT !.runs[job[t].run].orders = Append(@, job[t].key)]
             /\ Goto(t, "decide") /\ UNCHANGED job
    <3> DEFINE new == [RunOf(t) EXCEPT !.orders = Append(@, job[t].key)]
    <3>1. /\ new \in Run /\ new.state = RunOf(t).state
          /\ db' = [db EXCEPT !.runs[job[t].run] = new]
      BY <2>1, <2>2, ExecutedTyped
    <3> HIDE DEF new
    <3>2. /\ db' \in Ledger /\ DOMAIN db'.runs = DOMAIN db.runs
          /\ \A i \in DOMAIN db.runs : db'.runs[i].state = db.runs[i].state
      BY <2>1, <3>1, WorkingTypes, RunWritten DEF RunOf
    <3>3. TypeOK'
      BY <1>0, <2>1, <2>2, <3>2 DEF TypeOK, Goto
    <3>4. OwnRuns'
      BY <2>1, <2>2, <3>2, OwnRunsKept DEF Goto
    <3> QED
      BY <3>3, <3>4 DEF JobsInv
  <2>3. CASE Raise(t) /\ UNCHANGED db
    <3>1. TypeOK'
      BY <1>0, <2>1, <2>3, LeaveTyped DEF TypeOK, Raise
    <3>2. OwnRuns'
      BY <2>1, <2>3, LeaveTyped, OwnRunsKept DEF Raise
    <3> QED
      BY <3>1, <3>2 DEF JobsInv
  <2> QED
    BY <1>5, <2>2, <2>3 DEF Execute
<1>6. CASE FinishRun(t)
  <2>1. /\ Working(t) /\ Leave(t, "report")
        /\ UNCHANGED <<trouble, now, trade, placed, running, started>>
    BY <1>6 DEF FinishRun, Working
  <2> DEFINE new == [RunOf(t) EXCEPT !.state = "done", !.n = job[t].n,
                                     !.promoted = job[t].promoted]
  <2>2. new \in Run
    <3>1. job[t].n \in Nat /\ job[t].promoted \in Nat /\ RunOf(t) \in Run
      BY <2>1, WorkingTypes
    <3>2. new = [RunOf(t) EXCEPT !.state = "done", !.n = job[t].n,
                                 !.promoted = job[t].promoted]
      OBVIOUS
    <3> HIDE DEF new
    <3> QED
      BY <3>1, <3>2, RunDone, ZenonT(60) DEF Closes
  <2>3. db' = [db EXCEPT !.runs[job[t].run] = new]
    BY <1>6 DEF FinishRun, RunOf
  <2> HIDE DEF new
  <2>4. /\ db' \in Ledger /\ DOMAIN db'.runs = DOMAIN db.runs
        /\ \A i \in DOMAIN db.runs \ {job[t].run} : db'.runs[i] = db.runs[i]
    BY <2>1, <2>2, <2>3, WorkingTypes, RunWritten
  <2>5. TypeOK'
    BY <1>0, <2>1, <2>4, LeaveTyped DEF TypeOK
  <2>6. ~Working(t)'
    BY <1>0, <2>1 DEF Leave, Goto, Working, TypeOK
  <2>7. OwnRuns'
    BY <2>1, <2>4, <2>6, LeaveTyped, OwnRunsKept
  <2> QED
    BY <2>5, <2>7 DEF JobsInv
<1>7. CASE FailRun(t)
  <2>1. /\ Working(t) /\ Goto(t, "report")
        /\ UNCHANGED <<trouble, now, trade, placed, running, started, job>>
    BY <1>7 DEF FailRun, Working
  <2> DEFINE new == [RunOf(t) EXCEPT !.state = "failed", !.n = -1]
  <2>2. new \in Run
    BY <2>1, WorkingTypes, RunFailed
  <2>3. db' = [db EXCEPT !.runs[job[t].run] = new] \/ UNCHANGED db
    BY <1>7 DEF FailRun, RunOf
  <2> HIDE DEF new
  <2>4. /\ db' \in Ledger /\ DOMAIN db'.runs = DOMAIN db.runs
        /\ \A i \in DOMAIN db.runs \ {job[t].run} : db'.runs[i] = db.runs[i]
    BY <2>1, <2>2, <2>3, WorkingTypes, RunWritten
  <2>5. TypeOK'
    BY <1>0, <2>1, <2>4 DEF TypeOK, Goto
  <2>6. ~Working(t)'
    BY <1>0, <2>1 DEF Goto, Working, TypeOK
  <2>7. OwnRuns'
    BY <2>1, <2>4, <2>6, OwnRunsKept DEF Goto
  <2> QED
    BY <2>5, <2>7 DEF JobsInv
<1> QED
  BY <1>1, <1>2, <1>3, <1>4, <1>5, <1>6, <1>7 DEF CycleStep

\* A thread that starts a run gets one nobody has.
LEMMA StartKeeps ==
  ASSUME JobsInv, NEW t \in Thread, ~Working(t), start_run(t),
         NEW stage \in {"generate", "connect"}, pc' = [pc EXCEPT ![t] = stage]
  PROVE  db' \in Ledger /\ job' \in [Thread -> Job] /\ OwnRuns'
<1>1. db \in Ledger /\ job \in [Thread -> Job] /\ pc \in [Thread -> Stages]
  BY DEF JobsInv, TypeOK
<1>2. /\ Len(db.runs) \in Nat /\ DOMAIN db.runs = 1..Len(db.runs)
      /\ DOMAIN db'.runs = 1..(Len(db.runs) + 1)
      /\ db'.runs[Len(db.runs) + 1] = NewRun
      /\ \A i \in DOMAIN db.runs : db'.runs[i] = db.runs[i]
      /\ job'[t] = [NoJob EXCEPT !.run = Len(db.runs) + 1]
      /\ \A u \in Thread \ {t} : job'[u] = job[u]
  BY <1>1, RunStarted
<1>3. job'[t].run = Len(db.runs) + 1
  <2>1. Len(db.runs) + 1 \in Nat
    BY <1>2
  <2> QED
    BY <1>2, <2>1, JobStarted
<1>4. \A u \in Thread \ {t} : Working(u)' <=> Working(u)
  BY <1>1 DEF Working
<1>5. \A u \in Thread \ {t} : Working(u)' => job'[u].run \in 1..Len(db.runs)
  BY <1>2, <1>4 DEF JobsInv, OwnRuns
<1>6. \A u \in Thread : Working(u)' =>
         job'[u].run \in DOMAIN db'.runs /\ db'.runs[job'[u].run].state = "open"
  <2>1. job'[t].run \in DOMAIN db'.runs /\ db'.runs[job'[t].run].state = "open"
    BY <1>2, <1>3 DEF NewRun
  <2>2. ASSUME NEW u \in Thread \ {t}, Working(u)'
        PROVE  job'[u].run \in DOMAIN db'.runs /\ db'.runs[job'[u].run].state = "open"
    <3>1. Working(u) /\ job'[u] = job[u]
      BY <1>2, <1>4, <2>2
    <3>2. job[u].run \in DOMAIN db.runs /\ db.runs[job[u].run].state = "open"
      BY <3>1 DEF JobsInv, OwnRuns, RunOf
    <3>3. db'.runs[job[u].run] = db.runs[job[u].run]
      BY <1>2, <3>2
    <3>4. job[u].run \in DOMAIN db'.runs
      BY <1>2, <3>2
    <3> QED
      BY <3>1, <3>2, <3>3, <3>4
  <2> QED
    BY <2>1, <2>2
<1>7. \A u, v \in Thread :
         Working(u)' /\ Working(v)' /\ job'[u].run = job'[v].run => u = v
  <2>1. \A u \in Thread \ {t} : Working(u)' => job'[u].run # job'[t].run
    BY <1>2, <1>3, <1>5
  <2>2. \A u, v \in Thread \ {t} :
           Working(u)' /\ Working(v)' /\ job'[u].run = job'[v].run => u = v
    BY <1>2, <1>4 DEF JobsInv, OwnRuns
  <2> QED
    BY <2>1, <2>2
<1> QED
  BY <1>1, <1>6, <1>7, RunStarted DEF OwnRuns, RunOf

\* A thread that is not in a cycle, and does not enter one, moves.
LEMMA OutsideKeeps ==
  ASSUME JobsInv, NEW t \in Thread, ~Working(t), NEW stage \in Stages,
         pc' = [pc EXCEPT ![t] = stage], ~Working(t)',
         db' \in Ledger, db'.runs = db.runs,
         job' = job \/ job' = [job EXCEPT ![t] = NoJob]
  PROVE  pc' \in [Thread -> Stages] /\ job' \in [Thread -> Job] /\ OwnRuns'
<1>1. pc' \in [Thread -> Stages] /\ job' \in [Thread -> Job]
  BY NoneTyped DEF JobsInv, TypeOK
<1>2. \A u \in Thread : job'[u].run = job[u].run \/ (u = t /\ ~Working(t)')
  BY DEF JobsInv, TypeOK
<1> QED
  BY <1>1, <1>2, OwnRunsKept

\* A new process, on whatever database it finds.
LEMMA RebootKeepsJobs ==
  ASSUME JobsInv, NEW fresh \in Ledger, Reboot(fresh) PROVE JobsInv'
<1>1. TypeOK'
  BY NoneTyped DEF JobsInv, Reboot, TypeOK, Time, Stages
<1>2. OwnRuns'
  BY DEF Reboot, OwnRuns, Working
<1> QED
  BY <1>1, <1>2 DEF JobsInv

LEMMA JobsElsewhere ==
  ASSUME JobsInv, [SchedulerTick \/ PassTime \/ Reboot(db) \/ Reboot(EmptyLedger)
                   \/ \E w \in Worker : trigger_cycle(w) \/ TaskStep(w)]_vars
  PROVE  JobsInv'
<1> USE DEF Stages
<1>0. TypeOK /\ Scheduler \in Thread /\ Worker \subseteq Thread
  BY DEF JobsInv, Thread
<1>1. CASE SweepPositions
  <2>1. /\ ~Working(Scheduler) /\ pc' = [pc EXCEPT ![Scheduler] = "due"]
        /\ UNCHANGED <<trouble, now, db, placed, running, started, job>>
        /\ trade' \in Time
    BY <1>0, <1>1 DEF SweepPositions, Goto, Working, TypeOK, Time
  <2>2. ~Working(Scheduler)'
    BY <1>0, <2>1 DEF Working, TypeOK
  <2> QED
    BY <1>0, <2>1, <2>2, OutsideKeeps DEF TypeOK, JobsInv
<1>2. CASE EntryCheck
  <2>1. ~Working(Scheduler) /\ UNCHANGED <<trouble, now, trade, placed, running, started>>
    BY <1>2 DEF EntryCheck, Working
  <2>2. CASE start_run(Scheduler) /\ Goto(Scheduler, "generate")
    <3>1. db' \in Ledger /\ job' \in [Thread -> Job] /\ OwnRuns'
      BY <1>0, <2>1, <2>2, StartKeeps DEF Goto
    <3> QED
      BY <1>0, <2>1, <2>2, <3>1 DEF TypeOK, JobsInv, Goto
  <2>3. CASE Goto(Scheduler, "idle") /\ UNCHANGED <<db, job>>
    <3>1. ~Working(Scheduler)'
      BY <1>0, <2>3 DEF Working, TypeOK, Goto
    <3> QED
      BY <1>0, <2>1, <2>3, <3>1, OutsideKeeps DEF TypeOK, JobsInv, Goto
  <2> QED
    BY <1>2, <2>2, <2>3 DEF EntryCheck
<1>3. CASE RecordTick
  <2>1. /\ ~Working(Scheduler) /\ pc' = [pc EXCEPT ![Scheduler] = "idle"]
        /\ job' = [job EXCEPT ![Scheduler] = NoJob]
        /\ UNCHANGED <<trouble, now, trade, placed, running, started>>
    BY <1>3 DEF RecordTick, Working, Goto
  <2>2. db' \in Ledger /\ db'.runs = db.runs
    BY <1>0, <1>3 DEF RecordTick, TypeOK, Ledger, Time
  <2>3. ~Working(Scheduler)'
    BY <1>0, <2>1 DEF Working, TypeOK
  <2> QED
    BY <1>0, <2>1, <2>2, <2>3, OutsideKeeps DEF TypeOK, JobsInv
<1>4. ASSUME NEW w \in Worker, trigger_cycle(w) PROVE JobsInv'
  <2>1. /\ ~Working(w) /\ start_run(w) /\ pc' = [pc EXCEPT ![w] = "connect"]
        /\ UNCHANGED <<trouble, now, trade, placed>> /\ running' = TRUE /\ started' = now
    BY <1>4 DEF trigger_cycle, Working, Goto
  <2>2. db' \in Ledger /\ job' \in [Thread -> Job] /\ OwnRuns'
    BY <1>0, <2>1, StartKeeps
  <2> QED
    BY <1>0, <2>1, <2>2 DEF TypeOK, JobsInv, Time
<1>5. ASSUME NEW w \in Worker, _run_cycle_bg(w) PROVE JobsInv'
  <2>1. /\ Working(w)
        /\ UNCHANGED <<trouble, now, db, trade, placed, running, started>>
        /\ \/ pc' = [pc EXCEPT ![w] = "generate"] /\ UNCHANGED job
           \/ pc' = [pc EXCEPT ![w] = "idle"] /\ job' = [job EXCEPT ![w] = NoJob]
    BY <1>5 DEF _run_cycle_bg, Working, Goto
  <2>2. pc' \in [Thread -> Stages] /\ job' \in [Thread -> Job]
    BY <1>0, <2>1, NoneTyped DEF TypeOK
  <2>3. /\ job'[w].run = job[w].run \/ ~Working(w)'
        /\ \A u \in Thread \ {w} : job'[u].run = job[u].run
    BY <1>0, <2>1 DEF TypeOK, Working
  <2>4. OwnRuns'
    BY <1>0, <2>1, <2>3, OwnRunsKept
  <2> QED
    BY <1>0, <2>1, <2>2, <2>4 DEF TypeOK, JobsInv
<1>6. ASSUME NEW w \in Worker, ReleaseCycle(w) PROVE JobsInv'
  <2>1. /\ ~Working(w) /\ pc' = [pc EXCEPT ![w] = "idle"]
        /\ job' = [job EXCEPT ![w] = NoJob]
        /\ UNCHANGED <<trouble, now, db, trade, placed, started>> /\ running' = FALSE
    BY <1>6 DEF ReleaseCycle, Working, Goto
  <2>2. ~Working(w)'
    BY <1>0, <2>1 DEF Working, TypeOK
  <2> QED
    BY <1>0, <2>1, <2>2, OutsideKeeps DEF TypeOK, JobsInv
<1>7. CASE PassTime
  BY <1>7 DEF PassTime, JobsInv, TypeOK, OwnRuns, Working, RunOf
<1>8. ASSUME NEW fresh \in Ledger, Reboot(fresh) PROVE JobsInv'
  BY <1>8, RebootKeepsJobs
<1>9. CASE UNCHANGED vars
  BY <1>9 DEF vars, JobsInv, TypeOK, OwnRuns, Working, RunOf
<1>10. db \in Ledger /\ EmptyLedger \in Ledger
  BY <1>0, NoneTyped DEF TypeOK
<1> QED
  BY <1>1, <1>2, <1>3, <1>4, <1>5, <1>6, <1>7, <1>8, <1>9, <1>10 DEF SchedulerTick, TaskStep

LEMMA JobsNext == JobsInv /\ [Next]_vars => JobsInv'
  BY JobsCycle, JobsElsewhere DEF Next

\* Every variable of the ledger keeps its type.
THEOREM LedgerTypeCorrect == Spec => []TypeOK
<1>1. JobsInv => TypeOK
  BY DEF JobsInv
<1> QED
  BY <1>1, JobsInit, JobsNext, PTL DEF Spec

-----------------------------------------------------------------------------
(* One background task at a time.                                          *)

\* A task at work holds the running flag, alone.
FlagHeld ==
    \A w \in Worker : pc[w] # "idle" =>
        running /\ \A v \in Worker : pc[v] # "idle" => v = w

\* A step of a cycle is a step of a thread that is in one.
LEMMA CycleMoves ==
  ASSUME NEW t \in Thread, CycleStep(t)
  PROVE  /\ pc[t] \in Stages \ {"idle", "due", "report"} /\ UNCHANGED <<trouble, now, running>>
         /\ \E stage \in {"decide", "status", "execute", "fail", "report"} : Goto(t, stage)
  BY DEF CycleStep, Generate, DecideCandidate, SetStatus, Execute, CallRaises, FinishRun, FailRun,
         Raise, Leave, Stages

LEMMA FlagHeldNext == TypeOK /\ FlagHeld /\ [Next]_vars => FlagHeld'
<1> SUFFICES ASSUME TypeOK, FlagHeld, [Next]_vars PROVE FlagHeld'
  OBVIOUS
<1>0. pc \in [Thread -> Stages] /\ Worker \subseteq Thread /\ Scheduler \notin Worker
  BY LedgerAssumption DEF TypeOK, Thread
<1>1. CASE SchedulerTick
  <2>1. UNCHANGED running /\ \E stage : Goto(Scheduler, stage)
    BY <1>1 DEF SchedulerTick, SweepPositions, EntryCheck, RecordTick
  <2> QED
    BY <1>0, <2>1 DEF FlagHeld, Goto
<1>2. ASSUME NEW t \in Thread, CycleStep(t) PROVE FlagHeld'
  <2>1. UNCHANGED running /\ pc[t] # "idle" /\ \E stage : pc' = [pc EXCEPT ![t] = stage]
    BY <1>2, CycleMoves DEF Goto
  <2> QED
    BY <1>0, <2>1 DEF FlagHeld
<1>3. ASSUME NEW w \in Worker, trigger_cycle(w) PROVE FlagHeld'
  BY <1>0, <1>3 DEF FlagHeld, trigger_cycle, Goto
<1>4. ASSUME NEW w \in Worker, TaskStep(w) PROVE FlagHeld'
  BY <1>0, <1>4 DEF FlagHeld, TaskStep, _run_cycle_bg, ReleaseCycle, Goto
<1>5. CASE PassTime \/ UNCHANGED vars
  BY <1>5 DEF FlagHeld, PassTime, vars
<1>6. CASE Reboot(db) \/ Reboot(EmptyLedger)
  BY <1>0, <1>6 DEF FlagHeld, Reboot
<1> QED
  BY <1>1, <1>2, <1>3, <1>4, <1>5, <1>6 DEF Next

\* The running flag admits one task of POST /api/cycle: at no time are two of them
\* at work, whatever raises, fails or crashes.
THEOREM OneTaskAtATime == Spec => []OneApiCycle
<1>1. Init => FlagHeld
  BY DEF Init, FlagHeld, Thread
<1>2. FlagHeld => OneApiCycle
  <2> SUFFICES ASSUME FlagHeld PROVE OneApiCycle
    OBVIOUS
  <2>1. CASE \A w \in Worker : pc[w] = "idle"
    <3>1. {w \in Worker : pc[w] # "idle"} = {}
      BY <2>1
    <3> QED
      BY <3>1, FS_EmptySet DEF OneApiCycle
  <2>2. ASSUME NEW w \in Worker, pc[w] # "idle" PROVE OneApiCycle
    <3>1. {v \in Worker : pc[v] # "idle"} = {w}
      BY <2>2 DEF FlagHeld
    <3> QED
      BY <3>1, FS_Singleton DEF OneApiCycle
  <2> QED
    BY <2>1, <2>2
<1> QED
  BY <1>1, <1>2, FlagHeldNext, LedgerTypeCorrect, PTL DEF Spec

-----------------------------------------------------------------------------
(* The spacing of entry cycles.                                            *)

\* The account's last order is not older than the last one a scheduler cycle
\* placed; where reads may fail, no write does, and between two cycles the tick
\* row stands for that order.
OrdersSeen ==
    /\ placed <= trade /\ trade <= now
    /\ trouble = "read" /\ pc[Scheduler] \in {"idle", "due"} => placed <= db.entry

LEMMA MaxOfTwo ==
  ASSUME NEW a \in Int, NEW b \in Int
  PROVE  /\ Max({a, b}) \in {a, b}
         /\ a <= Max({a, b}) /\ b <= Max({a, b})
<1>1. \E x \in {a, b} : \A y \in {a, b} : x >= y
  <2>1. CASE a >= b
    BY <2>1
  <2>2. CASE b >= a
    BY <2>2
  <2> QED
    BY <2>1, <2>2
<1> QED
  BY <1>1 DEF Max

LEMMA TimesAreInts == \A t \in Time : t \in Int /\ Never <= t
  BY DEF Time, Never

\* A marker that is not before the last order of a scheduler cycle keeps its distance.
LEMMA LaterMarker ==
  ASSUME NEW a \in Time, NEW b \in Time, NEW p \in Time, NEW n \in Nat,
         now = n, Interval \in Nat,
         p <= a \/ p <= b, Elapsed(Max({a, b}), Interval)
  PROVE  Elapsed(p, Interval)
<1>1. /\ a \in Int /\ b \in Int /\ p \in Int
      /\ Max({a, b}) \in Int /\ p <= Max({a, b}) /\ Never <= p
  <2>1. a \in Int /\ b \in Int /\ p \in Int /\ Never <= p
    BY TimesAreInts
  <2>2. Max({a, b}) \in {a, b} /\ a <= Max({a, b}) /\ b <= Max({a, b})
    BY <2>1, MaxOfTwo
  <2> QED
    BY <2>1, <2>2
<1> QED
  BY <1>1 DEF Elapsed, Never

LEMMA OrdersSeenNext == TypeOK /\ OrdersSeen /\ [Next]_vars => OrdersSeen'
<1> SUFFICES ASSUME TypeOK, OrdersSeen, [Next]_vars PROVE OrdersSeen'
  OBVIOUS
<1> USE DEF Never
<1>0. /\ pc \in [Thread -> Stages] /\ Worker \subseteq Thread /\ Scheduler \notin Worker
      /\ Scheduler \in Thread /\ db \in Ledger
      /\ now \in Nat /\ trade \in Int /\ placed \in Int /\ db.entry \in Int
  BY LedgerAssumption, TimesAreInts DEF TypeOK, Thread, Ledger
<1>1. CASE SweepPositions
  BY <1>0, <1>1 DEF OrdersSeen, SweepPositions, Goto
<1>2. CASE EntryCheck
  <2>1. db'.entry = db.entry
    BY <1>0, <1>2 DEF EntryCheck, start_run, Ledger
  <2> QED
    BY <1>0, <1>2, <2>1 DEF OrdersSeen, EntryCheck, Goto
<1>3. CASE RecordTick
  <2>1. trouble = "read" => db'.entry = now
    BY <1>0, <1>3 DEF RecordTick, Ledger
  <2> QED
    BY <1>0, <1>3, <2>1 DEF OrdersSeen, RecordTick, Goto
<1>4. ASSUME NEW t \in Thread, CycleStep(t) PROVE OrdersSeen'
  <2>1. /\ \E stage \in {"decide", "status", "execute", "fail", "report"} :
             pc' = [pc EXCEPT ![t] = stage]
        /\ UNCHANGED <<trouble, now>>
        /\ pc[t] \notin {"idle", "due"}
    BY <1>4, CycleMoves DEF Goto
  <2>2. pc'[Scheduler] \in {"idle", "due"} => t # Scheduler /\ pc[Scheduler] = pc'[Scheduler]
    BY <1>0, <2>1
  <2>3. db'.entry = db.entry
    BY <1>0, <1>4 DEF CycleStep, Generate, DecideCandidate, SetStatus, Execute, CallRaises,
                     FinishRun, FailRun, Raise, Leave, Ledger
  <2>4. \/ trade' = now /\ placed' = IF t = Scheduler THEN now ELSE placed
        \/ UNCHANGED <<trade, placed>>
    BY <1>4 DEF CycleStep, Generate, DecideCandidate, SetStatus, Execute, CallRaises,
               FinishRun, FailRun, PlaceOrder
  <2> QED
    BY <1>0, <2>1, <2>2, <2>3, <2>4 DEF OrdersSeen
<1>5. ASSUME NEW w \in Worker, trigger_cycle(w) PROVE OrdersSeen'
  <2>1. db'.entry = db.entry
    BY <1>0, <1>5 DEF trigger_cycle, start_run, Ledger
  <2> QED
    BY <1>0, <1>5, <2>1 DEF OrdersSeen, trigger_cycle, Goto
<1>6. ASSUME NEW w \in Worker, TaskStep(w) PROVE OrdersSeen'
  BY <1>0, <1>6 DEF OrdersSeen, TaskStep, _run_cycle_bg, ReleaseCycle, Goto
<1>7. CASE PassTime \/ UNCHANGED vars
  BY <1>0, <1>7 DEF OrdersSeen, PassTime, vars
<1>8. CASE Reboot(db) \/ Reboot(EmptyLedger)
  BY <1>0, <1>8 DEF OrdersSeen, Reboot
<1> QED
  BY <1>1, <1>2, <1>3, <1>4, <1>5, <1>6, <1>7, <1>8 DEF Next, SchedulerTick

\* Only the entry check takes the scheduler from "due" into a cycle.
LEMMA EntryOnlyByCheck ==
  ASSUME TypeOK, [Next]_vars, pc[Scheduler] = "due", pc'[Scheduler] = "generate"
  PROVE  EntryCheck
<1>0. /\ pc \in [Thread -> Stages] /\ Worker \subseteq Thread /\ Scheduler \notin Worker
      /\ Scheduler \in Thread
  BY LedgerAssumption DEF TypeOK, Thread
<1>1. ~(SweepPositions \/ RecordTick)
  BY <1>0 DEF SweepPositions, RecordTick
<1>2. ASSUME NEW t \in Thread, CycleStep(t) PROVE FALSE
  <2>1. t # Scheduler /\ \E stage : pc' = [pc EXCEPT ![t] = stage]
    BY <1>2, CycleMoves DEF Goto
  <2> QED
    BY <1>0, <2>1
<1>3. ASSUME NEW w \in Worker, trigger_cycle(w) \/ TaskStep(w) PROVE FALSE
  <2>1. \E stage : pc' = [pc EXCEPT ![w] = stage]
    BY <1>3 DEF trigger_cycle, TaskStep, _run_cycle_bg, ReleaseCycle, Goto
  <2> QED
    BY <1>0, <2>1
<1>4. ~(PassTime \/ UNCHANGED vars)
  BY DEF PassTime, vars
<1>5. ~(Reboot(db) \/ Reboot(EmptyLedger))
  BY <1>0 DEF Reboot
<1> QED
  BY <1>1, <1>2, <1>3, <1>4, <1>5 DEF Next, SchedulerTick

\* The scheduler enters a cycle only at the distance from the last order placed.
LEMMA EntryFollowsOrder ==
  ASSUME TypeOK, OrdersSeen, [Next]_vars, pc[Scheduler] = "due", pc'[Scheduler] = "generate"
  PROVE  Elapsed(placed, Interval)
<1>1. EntryCheck /\ pc \in [Thread -> Stages] /\ Scheduler \in Thread
  BY EntryOnlyByCheck DEF TypeOK, Thread
<1>2. PICK broker \in _broker_last_trade_at : _entry_due(broker)
  BY <1>1 DEF EntryCheck, Goto
<1>3. placed <= db.entry \/ placed <= broker
  BY <1>2 DEF OrdersSeen, _broker_last_trade_at
<1>4. /\ broker \in Time /\ db.entry \in Time /\ placed \in Time
      /\ now \in Nat /\ Interval \in Nat
  BY LedgerAssumption, <1>2 DEF TypeOK, Ledger, _broker_last_trade_at, Time
<1> QED
  BY <1>2, <1>3, <1>4, LaterMarker DEF _entry_due

\* After a scheduler cycle placed an order no scheduler cycle starts for the entry
\* interval, whichever of the database and the broker's history is lost.
THEOREM EntriesSpaced == Spec => EntrySpacing
<1>1. Init => OrdersSeen
  BY DEF Init, OrdersSeen, Never, EmptyLedger
<1>2. TypeOK /\ OrdersSeen /\ [Next]_vars =>
        [pc[Scheduler] = "due" /\ pc'[Scheduler] = "generate" => Elapsed(placed, Interval)]_vars
  BY EntryFollowsOrder
<1> QED
  BY <1>1, <1>2, OrdersSeenNext, LedgerTypeCorrect, PTL DEF Spec, EntrySpacing

-----------------------------------------------------------------------------
(* The audit.                                                              *)

Ordered(run, k) == {o \in DOMAIN run.orders : run.orders[o] = k}
Earned(run, k) == {d \in Promoted(run) : run.decisions[d].key = k}

\* No strategy has more orders in a run than promotions.
Backed(run) == \A k \in Key : Cardinality(Ordered(run, k)) <= Cardinality(Earned(run, k))

\* One more order of the strategy key would still be backed.
Owed(run, key) ==
    \A k \in Key : Cardinality(Ordered(run, k)) + (IF k = key THEN 1 ELSE 0)
                     <= Cardinality(Earned(run, k))

Complete(run) ==
    /\ Len(run.decisions) = run.n
    /\ Len(run.orders) = run.promoted
    /\ Cardinality(Promoted(run)) = run.promoted

Sound(run) == Backed(run) /\ (run.state = "done" => Complete(run))

LastDecision(run) == run.decisions[Len(run.decisions)]

\* How far the rows of its run have come when a thread, with locals j, is at a
\* stage of its cycle.
Progress(stage, j, run) ==
    /\ stage \in {"connect", "generate"} =>
          run.decisions = <<>> /\ run.orders = <<>> /\ j.promoted = 0
    /\ stage \in {"decide", "status", "execute"} => Len(run.decisions) + j.left = j.n
    /\ stage \in {"decide", "status"} => Len(run.orders) = j.promoted
    /\ stage \in {"decide", "execute"} => Cardinality(Promoted(run)) = j.promoted
    /\ stage = "status" =>
          /\ run.decisions # <<>> /\ LastDecision(run).key = j.key
          /\ IF LastDecision(run).outcome = "promoted"
             THEN Cardinality(Promoted(run)) = j.promoted + 1 /\ Owed(run, j.key)
             ELSE Cardinality(Promoted(run)) = j.promoted
    /\ stage = "execute" => Len(run.orders) + 1 = j.promoted /\ Owed(run, j.key)

EarnedSomewhere(k) ==
    \E i \in DOMAIN db.runs : \E d \in Promoted(db.runs[i]) : db.runs[i].decisions[d].key = k

AuditInv ==
    /\ JobsInv
    /\ \A t \in Thread : Working(t) => Progress(pc[t], job[t], RunOf(t))
    /\ \A i \in DOMAIN db.runs : Sound(db.runs[i])
    /\ \A k \in Key : db.status[k] = "active" => EarnedSomewhere(k)

-----------------------------------------------------------------------------
(* Counting rows.                                                          *)

LEMMA Counted ==
  ASSUME NEW n \in Nat, NEW I \in SUBSET (1..n)
  PROVE  /\ Cardinality(I) \in Nat
         /\ Cardinality(I \cup {n + 1}) = Cardinality(I) + 1
<1>1. IsFiniteSet(I)
  <2>1. IsFiniteSet(1..n)
    BY FS_Interval
  <2> QED
    BY <2>1, FS_Subset
<1>2. n + 1 \notin I
  OBVIOUS
<1> QED
  BY <1>1, <1>2, FS_CardinalityType, FS_AddElement

LEMMA EmptyRun ==
  ASSUME NEW run \in Run, run.decisions = <<>>, run.orders = <<>>
  PROVE  /\ Backed(run) /\ Promoted(run) = {} /\ Cardinality(Promoted(run)) = 0
         /\ Len(run.decisions) = 0 /\ Len(run.orders) = 0
<1>1. Promoted(run) = {} /\ \A k \in Key : Ordered(run, k) = {} /\ Earned(run, k) = {}
  <2>1. DOMAIN run.decisions = {} /\ DOMAIN run.orders = {}
    OBVIOUS
  <2> QED
    BY <2>1, Zenon DEF Promoted, Ordered, Earned
<1>2. Cardinality({}) = 0
  BY FS_EmptySet
<1>3. Backed(run)
  <2>1. \A k \in Key : Cardinality(Ordered(run, k)) = 0 /\ Cardinality(Earned(run, k)) = 0
    BY <1>1, <1>2
  <2> QED
    BY <2>1 DEF Backed
<1> QED
  BY <1>1, <1>2, <1>3, EmptySeq

\* A decision is added to a run.
LEMMA DecisionAdded ==
  ASSUME NEW run \in Run, NEW d \in Decision, NEW new \in Run,
         new.decisions = Append(run.decisions, d), new.orders = run.orders
  PROVE  /\ Len(new.decisions) = Len(run.decisions) + 1
         /\ Len(run.decisions) \in Nat
         /\ new.decisions # <<>> /\ LastDecision(new) = d
         /\ Cardinality(Promoted(run)) \in Nat
         /\ Cardinality(Promoted(new)) =
              Cardinality(Promoted(run)) + (IF d.outcome = "promoted" THEN 1 ELSE 0)
         /\ Backed(run) => Backed(new)
         /\ Backed(run) /\ d.outcome = "promoted" => Owed(new, d.key)
         /\ \A i \in Promoted(run) :
               i \in Promoted(new) /\ new.decisions[i] = run.decisions[i]
<1> DEFINE n == Len(run.decisions)
<1>1. run.decisions \in Seq(Decision) /\ run.orders \in Seq(Key)
  BY DEF Run
<1>2. /\ n \in Nat /\ DOMAIN run.decisions = 1..n
      /\ DOMAIN new.decisions = 1..(n + 1) /\ Len(new.decisions) = n + 1
      /\ new.decisions[n + 1] = d
      /\ \A i \in 1..n : new.decisions[i] = run.decisions[i]
  BY <1>1, AppendProperties, LenProperties
<1> HIDE DEF n
<1>3. /\ Promoted(run) \in SUBSET (1..n)
      /\ Promoted(new) = IF d.outcome = "promoted" THEN Promoted(run) \cup {n + 1}
                         ELSE Promoted(run)
  BY <1>2 DEF Promoted
<1>4. \A k \in Key :
        /\ Earned(run, k) \in SUBSET (1..n)
        /\ Earned(new, k) = IF d.outcome = "promoted" /\ d.key = k
                            THEN Earned(run, k) \cup {n + 1} ELSE Earned(run, k)
  BY <1>2, <1>3 DEF Earned
<1>5. \A I \in SUBSET (1..n) :
        Cardinality(I) \in Nat /\ Cardinality(I \cup {n + 1}) = Cardinality(I) + 1
  BY <1>2, Counted
<1>6. \A k \in Key : Ordered(new, k) = Ordered(run, k) /\ Cardinality(Ordered(run, k)) \in Nat
  <2>1. ASSUME NEW k \in Key PROVE Cardinality(Ordered(run, k)) \in Nat
    <3>1. Len(run.orders) \in Nat /\ Ordered(run, k) \in SUBSET (1..Len(run.orders))
      BY <1>1, LenProperties DEF Ordered
    <3> QED
      BY <3>1, Counted
  <2> QED
    BY <2>1 DEF Ordered
<1>7. Cardinality(Promoted(new)) =
        Cardinality(Promoted(run)) + (IF d.outcome = "promoted" THEN 1 ELSE 0)
  <2>1. CASE d.outcome = "promoted"
    <3>1. Promoted(new) = Promoted(run) \cup {n + 1}
      BY <1>3, <2>1
    <3>2. Cardinality(Promoted(run) \cup {n + 1}) = Cardinality(Promoted(run)) + 1
      BY <1>3, <1>5
    <3> QED
      BY <2>1, <3>1, <3>2
  <2>2. CASE d.outcome # "promoted"
    <3>1. Promoted(new) = Promoted(run) /\ Cardinality(Promoted(run)) \in Nat
      BY <1>3, <1>5, <2>2
    <3> QED
      BY <2>2, <3>1
  <2> QED
    BY <2>1, <2>2
<1>8. Backed(run) => Backed(new)
  <2> SUFFICES ASSUME Backed(run), NEW k \in Key
               PROVE  Cardinality(Ordered(new, k)) <= Cardinality(Earned(new, k))
    BY DEF Backed
  <2>1. /\ Cardinality(Earned(run, k)) \in Nat
        /\ \/ Cardinality(Earned(new, k)) = Cardinality(Earned(run, k))
           \/ Cardinality(Earned(new, k)) = Cardinality(Earned(run, k)) + 1
    BY <1>4, <1>5
  <2> QED
    BY <1>6, <2>1 DEF Backed
<1>9. Backed(run) /\ d.outcome = "promoted" => Owed(new, d.key)
  <2> SUFFICES ASSUME Backed(run), d.outcome = "promoted", NEW k \in Key
               PROVE  Cardinality(Ordered(new, k)) + (IF k = d.key THEN 1 ELSE 0)
                        <= Cardinality(Earned(new, k))
    BY DEF Owed
  <2>1. /\ Cardinality(Earned(run, k)) \in Nat
        /\ Cardinality(Earned(new, k)) =
             Cardinality(Earned(run, k)) + (IF k = d.key THEN 1 ELSE 0)
    <3>1. /\ Cardinality(Earned(run, k)) \in Nat
          /\ Cardinality(Earned(run, k) \cup {n + 1}) = Cardinality(Earned(run, k)) + 1
      BY <1>4, <1>5
    <3>2. /\ k = d.key => Earned(new, k) = Earned(run, k) \cup {n + 1}
          /\ k # d.key => Earned(new, k) = Earned(run, k)
      BY <1>4
    <3>3. CASE k = d.key
      BY <3>1, <3>2, <3>3
    <3>4. CASE k # d.key
      BY <3>1, <3>2, <3>4
    <3> QED
      BY <3>3, <3>4
  <2> QED
    BY <1>6, <2>1 DEF Backed
<1>10. \A i \in Promoted(run) : i \in Promoted(new) /\ new.decisions[i] = run.decisions[i]
  BY <1>2, <1>3
<1>11. new.decisions # <<>> /\ LastDecision(new) = d
  <2>1. Len(new.decisions) = n + 1 /\ Len(new.decisions) # 0 /\ Len(<<>>) = 0
    BY <1>2
  <2> QED
    BY <1>2, <2>1 DEF LastDecision
<1>12. Cardinality(Promoted(run)) \in Nat
  BY <1>3, <1>5
<1> QED
  BY <1>2, <1>7, <1>8, <1>9, <1>10, <1>11, <1>12 DEF n

\* An order is added to a run.
LEMMA OrderAdded ==
  ASSUME NEW run \in Run, NEW key \in Key, NEW new \in Run,
         new.decisions = run.decisions, new.orders = Append(run.orders, key)
  PROVE  /\ Len(new.orders) = Len(run.orders) + 1 /\ Len(run.orders) \in Nat
         /\ Promoted(new) = Promoted(run)
         /\ Owed(run, key) => Backed(new)
<1> DEFINE n == Len(run.orders)
<1>1. run.orders \in Seq(Key)
  BY DEF Run
<1>2. /\ n \in Nat /\ DOMAIN run.orders = 1..n
      /\ DOMAIN new.orders = 1..(n + 1) /\ Len(new.orders) = n + 1
      /\ new.orders[n + 1] = key
      /\ \A i \in 1..n : new.orders[i] = run.orders[i]
  BY <1>1, AppendProperties, LenProperties
<1> HIDE DEF n
<1>3. \A k \in Key :
        /\ Ordered(run, k) \in SUBSET (1..n)
        /\ Ordered(new, k) = IF k = key THEN Ordered(run, k) \cup {n + 1} ELSE Ordered(run, k)
  BY <1>2 DEF Ordered
<1>4. \A I \in SUBSET (1..n) :
        Cardinality(I) \in Nat /\ Cardinality(I \cup {n + 1}) = Cardinality(I) + 1
  BY <1>2, Counted
<1>5. Promoted(new) = Promoted(run) /\ \A k \in Key : Earned(new, k) = Earned(run, k)
  BY DEF Promoted, Earned
<1>6. Owed(run, key) => Backed(new)
  <2> SUFFICES ASSUME Owed(run, key), NEW k \in Key
               PROVE  Cardinality(Ordered(new, k)) <= Cardinality(Earned(new, k))
    BY DEF Backed
  <2>1. Cardinality(Ordered(new, k)) = Cardinality(Ordered(run, k)) + (IF k = key THEN 1 ELSE 0)
    <3>1. /\ Cardinality(Ordered(run, k)) \in Nat
          /\ Cardinality(Ordered(run, k) \cup {n + 1}) = Cardinality(Ordered(run, k)) + 1
      BY <1>3, <1>4
    <3>2. /\ k = key => Ordered(new, k) = Ordered(run, k) \cup {n + 1}
          /\ k # key => Ordered(new, k) = Ordered(run, k)
      BY <1>3
    <3>3. CASE k = key
      BY <3>1, <3>2, <3>3
    <3>4. CASE k # key
      BY <3>1, <3>2, <3>4
    <3> QED
      BY <3>3, <3>4
  <2> QED
    BY <1>5, <2>1 DEF Owed
<1> QED
  BY <1>2, <1>5, <1>6 DEF n

-----------------------------------------------------------------------------
(* A step of one thread.                                                   *)

LEMMA JobValues ==
  ASSUME NEW j \in Job, NEW n \in Nat, NEW left \in Nat, NEW k \in Key
  PROVE  LET taken == [j EXCEPT !.n = n, !.left = left]
             decided == [j EXCEPT !.key = k, !.left = left]
         IN  /\ taken.n = n /\ taken.left = left /\ taken.promoted = j.promoted
             /\ decided.key = k /\ decided.left = left
             /\ decided.n = j.n /\ decided.promoted = j.promoted
<1>1. ASSUME NEW i \in Job
      PROVE  /\ [i EXCEPT !.left = left] \in Job /\ [i EXCEPT !.left = left].left = left
             /\ [i EXCEPT !.left = left].n = i.n
             /\ [i EXCEPT !.left = left].promoted = i.promoted
             /\ [i EXCEPT !.left = left].key = i.key
  BY DEF Job
<1>2. /\ [j EXCEPT !.n = n] \in Job /\ [j EXCEPT !.n = n].n = n
      /\ [j EXCEPT !.n = n].promoted = j.promoted
      /\ [j EXCEPT !.key = k] \in Job /\ [j EXCEPT !.key = k].key = k
      /\ [j EXCEPT !.key = k].n = j.n /\ [j EXCEPT !.key = k].promoted = j.promoted
  BY DEF Job
<1> QED
  BY <1>1, <1>2

\* A step that moves thread t and writes to its run only, or adds a run, keeps the
\* audit if its own run is sound, its promotions stay, and t has made progress.
LEMMA AuditKept ==
  ASSUME AuditInv, JobsInv', NEW t \in Thread,
         \A u \in Thread \ {t} : pc'[u] = pc[u] /\ job'[u] = job[u],
         \A i \in DOMAIN db.runs :
            /\ i \in DOMAIN db'.runs
            /\ db'.runs[i] = db.runs[i] \/ (Working(t) /\ i = job[t].run)
            /\ \A d \in Promoted(db.runs[i]) :
                  d \in Promoted(db'.runs[i])
                  /\ db'.runs[i].decisions[d].key = db.runs[i].decisions[d].key,
         \A i \in DOMAIN db'.runs :
            (i \in DOMAIN db.runs /\ db'.runs[i] = db.runs[i]) \/ Sound(db'.runs[i]),
         Working(t)' => Progress(pc'[t], job'[t], RunOf(t)'),
         \A k \in Key : db'.status[k] = "active" => db.status[k] = "active" \/ EarnedSomewhere(k)
  PROVE  AuditInv'
<1>1. ASSUME NEW u \in Thread \ {t}, Working(u)'
      PROVE  Progress(pc'[u], job'[u], RunOf(u)')
  <2>1. Working(u) /\ pc'[u] = pc[u] /\ job'[u] = job[u]
    BY <1>1 DEF Working
  <2>2. job[u].run \in DOMAIN db.runs /\ ~(Working(t) /\ job[u].run = job[t].run)
    BY <2>1 DEF AuditInv, JobsInv, OwnRuns
  <2>3. RunOf(u)' = RunOf(u)
    BY <2>1, <2>2 DEF RunOf
  <2> QED
    BY <2>1, <2>3 DEF AuditInv
<1>2. \A i \in DOMAIN db'.runs : Sound(db'.runs[i])
  BY DEF AuditInv
<1>3. ASSUME NEW k \in Key, db'.status[k] = "active" PROVE EarnedSomewhere(k)'
  <2>1. EarnedSomewhere(k)
    BY <1>3 DEF AuditInv
  <2>2. PICK i \in DOMAIN db.runs :
          \E d \in Promoted(db.runs[i]) : db.runs[i].decisions[d].key = k
    BY <2>1 DEF EarnedSomewhere
  <2>3. /\ i \in DOMAIN db'.runs
        /\ \E d \in Promoted(db'.runs[i]) : db'.runs[i].decisions[d].key = k
    BY <2>2
  <2> QED
    BY <2>3 DEF EarnedSomewhere
<1> QED
  BY <1>1, <1>2, <1>3 DEF AuditInv

\* The same, of a step that leaves the runs alone.
LEMMA AuditKeptRuns ==
  ASSUME AuditInv, JobsInv', NEW t \in Thread,
         \A u \in Thread \ {t} : pc'[u] = pc[u] /\ job'[u] = job[u],
         db'.runs = db.runs,
         Working(t)' => Progress(pc'[t], job'[t], db.runs[job'[t].run]),
         \A k \in Key : db'.status[k] = "active" => db.status[k] = "active" \/ EarnedSomewhere(k)
  PROVE  AuditInv'
<1>1. Working(t)' => Progress(pc'[t], job'[t], RunOf(t)')
  BY DEF RunOf
<1>2. \A i \in DOMAIN db'.runs : i \in DOMAIN db.runs /\ db'.runs[i] = db.runs[i]
  OBVIOUS
<1>3. \A i \in DOMAIN db.runs :
        /\ i \in DOMAIN db'.runs /\ db'.runs[i] = db.runs[i]
        /\ \A d \in Promoted(db.runs[i]) :
              d \in Promoted(db'.runs[i])
              /\ db'.runs[i].decisions[d].key = db.runs[i].decisions[d].key
  OBVIOUS
<1> QED
  BY <1>1, <1>2, <1>3, AuditKept

\* The same, of a step that writes new over the run of thread t.
LEMMA AuditKeptWrite ==
  ASSUME AuditInv, JobsInv', NEW t \in Thread, Working(t),
         \A u \in Thread \ {t} : pc'[u] = pc[u] /\ job'[u] = job[u],
         job'[t].run = job[t].run,
         NEW new \in Run, db' = [db EXCEPT !.runs[job[t].run] = new],
         Sound(new),
         \A d \in Promoted(RunOf(t)) :
            d \in Promoted(new) /\ new.decisions[d].key = RunOf(t).decisions[d].key,
         Working(t)' => Progress(pc'[t], job'[t], new)
  PROVE  AuditInv'
<1>1. /\ DOMAIN db'.runs = DOMAIN db.runs /\ job[t].run \in DOMAIN db.runs
      /\ db'.runs[job[t].run] = new
      /\ \A i \in DOMAIN db.runs \ {job[t].run} : db'.runs[i] = db.runs[i]
      /\ db'.status = db.status
  BY WorkingTypes, RunWritten DEF AuditInv
<1>2. Working(t)' => Progress(pc'[t], job'[t], RunOf(t)')
  BY <1>1 DEF RunOf
<1>3. \A i \in DOMAIN db.runs :
        /\ i \in DOMAIN db'.runs
        /\ db'.runs[i] = db.runs[i] \/ (Working(t) /\ i = job[t].run)
        /\ \A d \in Promoted(db.runs[i]) :
              d \in Promoted(db'.runs[i])
              /\ db'.runs[i].decisions[d].key = db.runs[i].decisions[d].key
  BY <1>1 DEF RunOf
<1>4. \A i \in DOMAIN db'.runs :
        (i \in DOMAIN db.runs /\ db'.runs[i] = db.runs[i]) \/ Sound(db'.runs[i])
  BY <1>1
<1>5. \A k \in Key : db'.status[k] = "active" => db.status[k] = "active"
  BY <1>1
<1> QED
  BY <1>2, <1>3, <1>4, <1>5, AuditKept

-----------------------------------------------------------------------------
(* The cycle keeps the audit.                                              *)

LEMMA AuditCycle ==
  ASSUME AuditInv, NEW t \in Thread, CycleStep(t) PROVE AuditInv'
<1>0. /\ JobsInv /\ JobsInv' /\ pc \in [Thread -> Stages] /\ job \in [Thread -> Job]
      /\ db \in Ledger
  BY JobsCycle DEF AuditInv, JobsInv, TypeOK
<1>1. CASE CallRaises(t)
  <2>1. /\ \A u \in Thread \ {t} : pc'[u] = pc[u] /\ job'[u] = job[u]
        /\ pc'[t] = "fail" /\ UNCHANGED db
    BY <1>0, <1>1 DEF CallRaises, Raise, Leave, Goto
  <2>2. Progress(pc'[t], job'[t], db.runs[job'[t].run])
    BY <2>1 DEF Progress
  <2> QED
    BY <1>0, <2>1, <2>2, AuditKeptRuns
<1>2. CASE Generate(t)
  <2>1. /\ Working(t) /\ pc[t] = "generate"
        /\ db'.runs = db.runs
        /\ \A k \in Key : db'.status[k] = "active" => db.status[k] = "active"
    BY <1>0, <1>2, ZenonT(60) DEF Generate, Working, Ledger
  <2>2. CASE Raise(t)
    <3>1. /\ \A u \in Thread \ {t} : pc'[u] = pc[u] /\ job'[u] = job[u]
          /\ pc'[t] = "fail"
      BY <1>0, <2>2 DEF Raise, Leave, Goto
    <3>2. Progress(pc'[t], job'[t], db.runs[job'[t].run])
      BY <3>1 DEF Progress
    <3> QED
      BY <1>0, <2>1, <3>1, <3>2, AuditKeptRuns
  <2>3. ASSUME NEW n \in 0..CycleN, Goto(t, "decide"),
               job' = [job EXCEPT ![t] = [@ EXCEPT !.n = n, !.left = n]]
        PROVE  AuditInv'
    <3> DEFINE mine == [job[t] EXCEPT !.n = n, !.left = n]
    <3>1. /\ mine.n = n /\ mine.left = n /\ mine.promoted = job[t].promoted
          /\ mine.run = job[t].run /\ n \in Nat
      <4>1. n \in Nat /\ job[t] \in Job /\ job[t].key \in Key
        BY <1>0, <2>1, LedgerAssumption, WorkingTypes
      <4>2. mine.run = job[t].run
        BY <4>1, JobFields
      <4>3. mine.n = n /\ mine.left = n /\ mine.promoted = job[t].promoted
        BY <4>1, JobValues
      <4> QED
        BY <4>1, <4>2, <4>3
    <3>2. job' = [job EXCEPT ![t] = mine]
      BY <2>3
    <3> HIDE DEF mine
    <3>3. /\ \A u \in Thread \ {t} : pc'[u] = pc[u] /\ job'[u] = job[u]
          /\ pc'[t] = "decide" /\ job'[t] = mine
      BY <1>0, <2>3, <3>2 DEF Goto
    <3>4. Progress("generate", job[t], RunOf(t)) /\ RunOf(t) \in Run
      BY <1>0, <2>1, WorkingTypes DEF AuditInv
    <3>5. /\ Cardinality(Promoted(RunOf(t))) = 0 /\ Len(RunOf(t).decisions) = 0
          /\ Len(RunOf(t).orders) = 0 /\ job[t].promoted = 0
      BY <3>4, EmptyRun DEF Progress
    <3>6. Progress("decide", mine, RunOf(t))
      BY <3>1, <3>5 DEF Progress
    <3>7. Progress(pc'[t], job'[t], db.runs[job'[t].run])
      BY <3>1, <3>3, <3>6 DEF RunOf
    <3> QED
      BY <1>0, <2>1, <3>3, <3>7, AuditKeptRuns
  <2> QED
    BY <1>2, <2>2, <2>3 DEF Generate
<1>3. CASE DecideCandidate(t)
  <2>1. /\ Working(t) /\ pc[t] = "decide" /\ pc' = [pc EXCEPT ![t] = "status"]
    BY <1>3 DEF DecideCandidate, Goto, Working
  <2>2. PICK d \in Decision :
          LET new == [RunOf(t) EXCEPT !.decisions = Append(@, d)]
          IN  /\ new \in Run /\ new.state = RunOf(t).state
              /\ new.decisions = Append(RunOf(t).decisions, d)
              /\ new.orders = RunOf(t).orders
              /\ db' = [db EXCEPT !.runs[job[t].run] = new]
              /\ job' = [job EXCEPT ![t] = [@ EXCEPT !.key = d.key, !.left = job[t].left - 1]]
              /\ job[t].left > 0
    BY <1>0, <1>3, DecidedTyped
  <2> DEFINE new == [RunOf(t) EXCEPT !.decisions = Append(@, d)]
             mine == [job[t] EXCEPT !.key = d.key, !.left = job[t].left - 1]
  <2>3. /\ mine.key = d.key /\ mine.left = job[t].left - 1 /\ mine.run = job[t].run
        /\ mine.n = job[t].n /\ mine.promoted = job[t].promoted
    <3>1. job[t] \in Job /\ d.key \in Key /\ job[t].left - 1 \in Nat /\ job[t].n \in Nat
      BY <1>0, <2>1, <2>2, WorkingTypes DEF Decision
    <3>2. mine.run = job[t].run
      BY <3>1, JobFields
    <3>3. /\ mine.key = d.key /\ mine.left = job[t].left - 1
          /\ mine.n = job[t].n /\ mine.promoted = job[t].promoted
      BY <3>1, JobValues
    <3> QED
      BY <3>2, <3>3
  <2>4. /\ new \in Run /\ new.state = RunOf(t).state /\ new.orders = RunOf(t).orders
        /\ new.decisions = Append(RunOf(t).decisions, d)
        /\ db' = [db EXCEPT !.runs[job[t].run] = new] /\ job' = [job EXCEPT ![t] = mine]
    BY <2>2
  <2> HIDE DEF new, mine
  <2>5. /\ \A u \in Thread \ {t} : pc'[u] = pc[u] /\ job'[u] = job[u]
        /\ pc'[t] = "status" /\ job'[t] = mine
    BY <1>0, <2>1, <2>4
  <2>6. /\ RunOf(t) \in Run /\ RunOf(t).state = "open" /\ job[t].run \in DOMAIN db.runs
        /\ job[t].left \in Nat /\ job[t].promoted \in Nat
    BY <1>0, <2>1, WorkingTypes
  <2>7. Progress("decide", job[t], RunOf(t)) /\ Backed(RunOf(t))
    BY <2>1, <2>6 DEF AuditInv, Sound, RunOf
  <2>8. /\ Len(new.decisions) = Len(RunOf(t).decisions) + 1 /\ Len(RunOf(t).decisions) \in Nat
        /\ new.decisions # <<>> /\ LastDecision(new) = d
        /\ Cardinality(Promoted(RunOf(t))) \in Nat
        /\ Cardinality(Promoted(new)) =
             Cardinality(Promoted(RunOf(t))) + (IF d.outcome = "promoted" THEN 1 ELSE 0)
        /\ Backed(new) /\ (d.outcome = "promoted" => Owed(new, d.key))
        /\ \A i \in Promoted(RunOf(t)) :
              i \in Promoted(new) /\ new.decisions[i] = RunOf(t).decisions[i]
    BY <2>4, <2>6, <2>7, DecisionAdded
  <2>9. Progress("status", mine, new)
    <3>1. /\ Len(new.decisions) + mine.left = mine.n
          /\ Len(new.orders) = mine.promoted
      <4>1. /\ Len(RunOf(t).decisions) + job[t].left = job[t].n
            /\ Len(RunOf(t).orders) = job[t].promoted
        BY <2>7 DEF Progress
      <4>2. Len(new.orders) = mine.promoted
        BY <2>3, <2>4, <4>1
      <4>3. Len(new.decisions) + mine.left = mine.n
        <5>1. /\ Len(new.decisions) = Len(RunOf(t).decisions) + 1
              /\ Len(RunOf(t).decisions) \in Nat
          BY <2>8
        <5>2. mine.left = job[t].left - 1 /\ mine.n = job[t].n /\ job[t].left \in Nat
          BY <2>3, <2>6
        <5> QED
          BY ONLY <4>1, <5>1, <5>2
      <4> QED
        BY <4>2, <4>3
    <3>2. IF LastDecision(new).outcome = "promoted"
          THEN Cardinality(Promoted(new)) = mine.promoted + 1 /\ Owed(new, mine.key)
          ELSE Cardinality(Promoted(new)) = mine.promoted
      <4>1. Cardinality(Promoted(RunOf(t))) = mine.promoted /\ mine.promoted \in Nat
        BY <2>3, <2>6, <2>7 DEF Progress
      <4> QED
        BY <4>1, <2>3, <2>8
    <3> QED
      BY <2>3, <2>8, <3>1, <3>2 DEF Progress
  <2>10. Sound(new) /\ job'[t].run = job[t].run /\ Progress(pc'[t], job'[t], new)
    BY <2>3, <2>4, <2>5, <2>6, <2>8, <2>9 DEF Sound
  <2> QED
    BY <1>0, <2>1, <2>4, <2>5, <2>8, <2>10, AuditKeptWrite
<1>4. CASE SetStatus(t)
  <2>1. Working(t) /\ pc[t] = "status" /\ db'.runs = db.runs
    BY <1>0, <1>4 DEF SetStatus, Working, Ledger
  <2>2. /\ RunOf(t) \in Run /\ job[t] \in Job /\ job[t].run \in DOMAIN db.runs
        /\ job[t].key \in Key /\ job[t].promoted \in Nat
    BY <1>0, <2>1, WorkingTypes
  <2>3. Progress("status", job[t], RunOf(t))
    BY <2>1 DEF AuditInv
  <2>4. LastOutcome(t) = LastDecision(RunOf(t)).outcome
    BY DEF LastOutcome, LastDecision, RunOf
  <2>5. CASE /\ LastOutcome(t) = "promoted"
             /\ db' = [db EXCEPT !.status[job[t].key] = "active"]
             /\ job' = [job EXCEPT ![t].promoted = @ + 1]
             /\ Goto(t, "execute")
    <3> DEFINE mine == [job[t] EXCEPT !.promoted = job[t].promoted + 1]
    <3>1. /\ mine.promoted = job[t].promoted + 1 /\ mine.run = job[t].run
          /\ mine.left = job[t].left /\ mine.n = job[t].n /\ mine.key = job[t].key
      BY <2>2 DEF Job
    <3>2. job' = [job EXCEPT ![t] = mine]
      BY <2>5
    <3> HIDE DEF mine
    <3>3. /\ \A u \in Thread \ {t} : pc'[u] = pc[u] /\ job'[u] = job[u]
          /\ pc'[t] = "execute" /\ job'[t] = mine
      BY <1>0, <2>5, <3>2 DEF Goto
    <3>4. /\ Cardinality(Promoted(RunOf(t))) = job[t].promoted + 1
          /\ Owed(RunOf(t), job[t].key) /\ Len(RunOf(t).orders) = job[t].promoted
      BY <2>3, <2>4, <2>5 DEF Progress
    <3>5. Progress("execute", mine, RunOf(t))
      BY <2>3, <3>1, <3>4 DEF Progress
    <3>6. Progress(pc'[t], job'[t], db.runs[job'[t].run])
      BY <3>1, <3>3, <3>5 DEF RunOf
    <3>7. EarnedSomewhere(job[t].key)
      <4>1. /\ RunOf(t).decisions \in Seq(Decision) /\ RunOf(t).decisions # <<>>
        BY <2>2, <2>3 DEF Progress, Run
      <4>2. Len(RunOf(t).decisions) \in DOMAIN RunOf(t).decisions
        BY <4>1, EmptySeq, LenProperties
      <4>3. /\ Len(RunOf(t).decisions) \in Promoted(RunOf(t))
            /\ RunOf(t).decisions[Len(RunOf(t).decisions)].key = job[t].key
        BY <2>3, <2>4, <2>5, <4>2 DEF Promoted, LastDecision, Progress
      <4> QED
        BY <2>2, <4>3 DEF EarnedSomewhere, RunOf
    <3>8. \A k \in Key : db'.status[k] = "active" => db.status[k] = "active" \/ k = job[t].key
      BY <1>0, <2>2, <2>5 DEF Ledger
    <3> QED
      BY <1>0, <2>1, <3>3, <3>6, <3>7, <3>8, AuditKeptRuns
  <2>6. CASE /\ LastOutcome(t) = "rejected"
             /\ db' = [db EXCEPT !.status[job[t].key] = "rejected"]
             /\ Goto(t, "decide") /\ UNCHANGED job
    <3>1. /\ \A u \in Thread \ {t} : pc'[u] = pc[u] /\ job'[u] = job[u]
          /\ pc'[t] = "decide" /\ job'[t] = job[t]
      BY <1>0, <2>6 DEF Goto
    <3>2. Progress("decide", job[t], RunOf(t))
      BY <2>3, <2>4, <2>6 DEF Progress
    <3>3. Progress(pc'[t], job'[t], db.runs[job'[t].run])
      BY <3>1, <3>2 DEF RunOf
    <3>4. \A k \in Key : db'.status[k] = "active" => db.status[k] = "active"
      BY <1>0, <2>2, <2>6 DEF Ledger
    <3> QED
      BY <1>0, <2>1, <3>1, <3>3, <3>4, AuditKeptRuns
  <2> QED
    BY <1>4, <2>5, <2>6 DEF SetStatus
<1>5. CASE Execute(t)
  <2>1. /\ Working(t) /\ pc[t] = "execute"
    BY <1>5 DEF Execute, Working
  <2>2. /\ RunOf(t) \in Run /\ RunOf(t).state = "open" /\ job[t].key \in Key
        /\ job[t].run \in DOMAIN db.runs
    BY <1>0, <2>1, WorkingTypes
  <2>3. Progress("execute", job[t], RunOf(t))
    BY <2>1 DEF AuditInv
  <2>4. CASE /\ db' = [db EXCEPT !.runs[job[t].run].orders = Append(@, job[t].key)]
             /\ Goto(t, "decide") /\ UNCHANGED job
    <3> DEFINE new == [RunOf(t) EXCEPT !.orders = Append(@, job[t].key)]
    <3>1. /\ new \in Run /\ new.state = RunOf(t).state
          /\ new.decisions = RunOf(t).decisions
          /\ new.orders = Append(RunOf(t).orders, job[t].key)
          /\ db' = [db EXCEPT !.runs[job[t].run] = new]
      BY <1>0, <2>1, <2>4, ExecutedTyped
    <3> HIDE DEF new
    <3>2. /\ Len(new.orders) = Len(RunOf(t).orders) + 1 /\ Len(RunOf(t).orders) \in Nat
          /\ Promoted(new) = Promoted(RunOf(t))
          /\ Owed(RunOf(t), job[t].key) => Backed(new)
      BY <2>2, <3>1, OrderAdded
    <3>3. Sound(new)
      BY <2>2, <2>3, <3>1, <3>2 DEF Sound, Progress
    <3>4. /\ \A u \in Thread \ {t} : pc'[u] = pc[u] /\ job'[u] = job[u]
          /\ pc'[t] = "decide" /\ job'[t] = job[t]
      BY <1>0, <2>4 DEF Goto
    <3>5. Progress(pc'[t], job'[t], new)
      BY <2>3, <3>1, <3>2, <3>4 DEF Progress
    <3>6. \A d \in Promoted(RunOf(t)) :
            d \in Promoted(new) /\ new.decisions[d].key = RunOf(t).decisions[d].key
      BY <3>1, <3>2
    <3> QED
      BY <1>0, <2>1, <3>1, <3>3, <3>4, <3>5, <3>6, AuditKeptWrite
  <2>5. CASE Raise(t) /\ UNCHANGED db
    <3>1. /\ \A u \in Thread \ {t} : pc'[u] = pc[u] /\ job'[u] = job[u]
          /\ pc'[t] = "fail"
      BY <1>0, <2>5 DEF Raise, Leave, Goto
    <3>2. Progress(pc'[t], job'[t], db.runs[job'[t].run])
      BY <3>1 DEF Progress
    <3> QED
      BY <1>0, <2>5, <3>1, <3>2, AuditKeptRuns
  <2> QED
    BY <1>5, <2>4, <2>5 DEF Execute
<1>6. CASE FinishRun(t)
  <2>1. /\ Working(t) /\ pc[t] = "decide" /\ job[t].left = 0
    BY <1>6 DEF FinishRun, Working
  <2>2. /\ RunOf(t) \in Run /\ job[t].n \in Nat /\ job[t].promoted \in Nat
        /\ job[t].run \in DOMAIN db.runs /\ job[t].run \in Nat
    BY <1>0, <2>1, WorkingTypes
  <2>3. Progress("decide", job[t], RunOf(t)) /\ Backed(RunOf(t))
    BY <2>1, <2>2 DEF AuditInv, Sound, RunOf
  <2> DEFINE new == [RunOf(t) EXCEPT !.state = "done", !.n = job[t].n,
                                     !.promoted = job[t].promoted]
  <2>4. /\ new \in Run /\ new.n = job[t].n /\ new.promoted = job[t].promoted
        /\ new.decisions = RunOf(t).decisions /\ new.orders = RunOf(t).orders
    <3>1. RunOf(t) \in Run /\ job[t].n \in Nat /\ job[t].promoted \in Nat
      BY <2>2
    <3>2. new = [RunOf(t) EXCEPT !.state = "done", !.n = job[t].n,
                                 !.promoted = job[t].promoted]
      OBVIOUS
    <3> HIDE DEF new
    <3> QED
      <4>1. Closes(new, RunOf(t), job[t].n, job[t].promoted)
        BY <3>1, <3>2, RunDone
      <4> QED
        BY <4>1 DEF Closes
  <2>5. db' = [db EXCEPT !.runs[job[t].run] = new]
    BY <1>6 DEF FinishRun, RunOf
  <2> HIDE DEF new
  <2>6. Promoted(new) = Promoted(RunOf(t)) /\ Backed(new)
    BY <2>3, <2>4 DEF Promoted, Backed, Ordered, Earned
  <2>7. Complete(new)
    <3>1. /\ Len(RunOf(t).decisions) + 0 = job[t].n /\ Len(RunOf(t).orders) = job[t].promoted
          /\ Cardinality(Promoted(RunOf(t))) = job[t].promoted
      BY <2>1, <2>3 DEF Progress
    <3>2. Len(RunOf(t).decisions) \in Nat
      BY <2>2, LenProperties DEF Run
    <3> QED
      BY <2>4, <2>6, <3>1, <3>2 DEF Complete
  <2>8. job'[t].run = job[t].run
    BY <1>0, <1>6, <2>1, LeaveTyped DEF FinishRun, Stages
  <2>9. /\ \A u \in Thread \ {t} : pc'[u] = pc[u] /\ job'[u] = job[u]
        /\ pc'[t] = "report"
    BY <1>0, <1>6 DEF FinishRun, Leave, Goto
  <2>10. Sound(new) /\ ~Working(t)'
    BY <2>6, <2>7, <2>9 DEF Sound, Working
  <2>11. \A d \in Promoted(RunOf(t)) :
           d \in Promoted(new) /\ new.decisions[d].key = RunOf(t).decisions[d].key
    BY <2>4, <2>6
  <2> QED
    BY <1>0, <2>1, <2>4, <2>5, <2>8, <2>9, <2>10, <2>11, AuditKeptWrite
<1>7. CASE FailRun(t)
  <2>1. /\ Working(t) /\ Goto(t, "report") /\ UNCHANGED job
    BY <1>7 DEF FailRun, Working
  <2>2. /\ \A u \in Thread \ {t} : pc'[u] = pc[u] /\ job'[u] = job[u]
        /\ pc'[t] = "report" /\ job'[t] = job[t] /\ ~Working(t)'
    BY <1>0, <2>1 DEF Goto, Working
  <2>3. CASE UNCHANGED db
    <3>1. db'.runs = db.runs /\ db'.status = db.status
      BY <2>3
    <3> QED
      BY <1>0, <2>2, <3>1, AuditKeptRuns
  <2>4. CASE db' = [db EXCEPT !.runs[job[t].run] = [@ EXCEPT !.state = "failed", !.n = -1]]
    <3> DEFINE new == [RunOf(t) EXCEPT !.state = "failed", !.n = -1]
    <3>1. RunOf(t) \in Run /\ job[t].run \in DOMAIN db.runs
      BY <1>0, <2>1, WorkingTypes
    <3>2. /\ new \in Run /\ new.state = "failed"
          /\ new.decisions = RunOf(t).decisions /\ new.orders = RunOf(t).orders
      BY <3>1, RunFailed
    <3>3. db' = [db EXCEPT !.runs[job[t].run] = new]
      BY <2>4 DEF RunOf
    <3> HIDE DEF new
    <3>4. Backed(RunOf(t))
      BY <3>1 DEF AuditInv, Sound, RunOf
    <3>5. Promoted(new) = Promoted(RunOf(t)) /\ Backed(new)
      BY <3>2, <3>4 DEF Promoted, Backed, Ordered, Earned
    <3>6. Sound(new)
      BY <3>2, <3>5 DEF Sound
    <3>7. \A d \in Promoted(RunOf(t)) :
            d \in Promoted(new) /\ new.decisions[d].key = RunOf(t).decisions[d].key
      BY <3>2, <3>5
    <3> QED
      BY <1>0, <2>1, <2>2, <3>2, <3>3, <3>6, <3>7, AuditKeptWrite
  <2> QED
    BY <1>7, <2>3, <2>4 DEF FailRun
<1> QED
  BY <1>1, <1>2, <1>3, <1>4, <1>5, <1>6, <1>7 DEF CycleStep

-----------------------------------------------------------------------------
(* So does everything else.                                                *)

LEMMA AuditStart ==
  ASSUME AuditInv, JobsInv', NEW t \in Thread, ~Working(t), start_run(t),
         NEW stage \in {"generate", "connect"}, pc' = [pc EXCEPT ![t] = stage]
  PROVE  AuditInv'
<1>1. pc \in [Thread -> Stages] /\ job \in [Thread -> Job] /\ db \in Ledger
  BY DEF AuditInv, JobsInv, TypeOK
<1>2. /\ Len(db.runs) \in Nat /\ DOMAIN db.runs = 1..Len(db.runs)
      /\ DOMAIN db'.runs = 1..(Len(db.runs) + 1)
      /\ db'.runs[Len(db.runs) + 1] = NewRun
      /\ \A i \in DOMAIN db.runs : db'.runs[i] = db.runs[i]
      /\ db'.status = db.status
      /\ job'[t] = [NoJob EXCEPT !.run = Len(db.runs) + 1]
      /\ \A u \in Thread \ {t} : job'[u] = job[u]
  BY <1>1, RunStarted
<1>3. job'[t].run = Len(db.runs) + 1 /\ job'[t].promoted = 0
  <2>1. Len(db.runs) + 1 \in Nat
    BY <1>2
  <2> QED
    BY <1>2, <2>1, JobStarted
<1>4. /\ NewRun \in Run /\ NewRun.state = "open"
      /\ NewRun.decisions = <<>> /\ NewRun.orders = <<>>
  BY NoneTyped DEF NewRun
<1>5. Sound(NewRun)
  BY <1>4, EmptyRun DEF Sound
<1>6. \A u \in Thread \ {t} : pc'[u] = pc[u] /\ job'[u] = job[u]
  BY <1>1, <1>2
<1>7. RunOf(t)' = NewRun /\ pc'[t] = stage
  BY <1>1, <1>2, <1>3 DEF RunOf
<1>8. Progress(pc'[t], job'[t], RunOf(t)')
  <2>1. Progress(stage, job'[t], NewRun)
    BY <1>3, <1>4 DEF Progress
  <2> QED
    BY <1>7, <2>1
<1>9. \A i \in DOMAIN db.runs :
        /\ i \in DOMAIN db'.runs /\ db'.runs[i] = db.runs[i]
        /\ \A d \in Promoted(db.runs[i]) :
              d \in Promoted(db'.runs[i])
              /\ db'.runs[i].decisions[d].key = db.runs[i].decisions[d].key
  BY <1>2
<1>10. \A i \in DOMAIN db'.runs :
         (i \in DOMAIN db.runs /\ db'.runs[i] = db.runs[i]) \/ Sound(db'.runs[i])
  BY <1>2, <1>5
<1>11. \A k \in Key : db'.status[k] = "active" => db.status[k] = "active"
  BY <1>2
<1> QED
  BY <1>6, <1>8, <1>9, <1>10, <1>11, AuditKept

LEMMA AuditElsewhere ==
  ASSUME AuditInv, [SchedulerTick \/ PassTime \/ Reboot(db) \/ Reboot(EmptyLedger)
                    \/ \E w \in Worker : trigger_cycle(w) \/ TaskStep(w)]_vars
  PROVE  AuditInv'
<1>0. /\ JobsInv /\ JobsInv' /\ pc \in [Thread -> Stages] /\ job \in [Thread -> Job]
      /\ db \in Ledger /\ Scheduler \in Thread /\ Worker \subseteq Thread
  BY JobsElsewhere DEF AuditInv, JobsInv, TypeOK, Thread
<1>1. CASE SweepPositions \/ RecordTick
  <2>1. /\ \A u \in Thread \ {Scheduler} : pc'[u] = pc[u] /\ job'[u] = job[u]
        /\ ~Working(Scheduler)'
    BY <1>0, <1>1 DEF SweepPositions, RecordTick, Goto, Working
  <2>2. db'.runs = db.runs /\ db'.status = db.status
    BY <1>0, <1>1 DEF SweepPositions, RecordTick, Ledger
  <2> QED
    BY <1>0, <2>1, <2>2, AuditKeptRuns
<1>2. CASE EntryCheck
  <2>1. ~Working(Scheduler)
    BY <1>2 DEF EntryCheck, Working
  <2>2. CASE start_run(Scheduler) /\ Goto(Scheduler, "generate")
    BY <1>0, <2>1, <2>2, AuditStart DEF Goto
  <2>3. CASE Goto(Scheduler, "idle") /\ UNCHANGED <<db, job>>
    <3>1. /\ \A u \in Thread \ {Scheduler} : pc'[u] = pc[u] /\ job'[u] = job[u]
          /\ ~Working(Scheduler)' /\ db'.runs = db.runs /\ db'.status = db.status
      BY <1>0, <2>3 DEF Goto, Working
    <3> QED
      BY <1>0, <3>1, AuditKeptRuns
  <2> QED
    BY <1>2, <2>2, <2>3 DEF EntryCheck
<1>3. ASSUME NEW w \in Worker, trigger_cycle(w) PROVE AuditInv'
  <2>1. ~Working(w) /\ start_run(w) /\ pc' = [pc EXCEPT ![w] = "connect"] /\ w \in Thread
    BY <1>0, <1>3 DEF trigger_cycle, Working, Goto
  <2> QED
    BY <1>0, <2>1, AuditStart
<1>4. ASSUME NEW w \in Worker, TaskStep(w) PROVE AuditInv'
  <2>1. /\ \A u \in Thread \ {w} : pc'[u] = pc[u] /\ job'[u] = job[u]
        /\ db'.runs = db.runs /\ db'.status = db.status /\ w \in Thread
    BY <1>0, <1>4 DEF TaskStep, _run_cycle_bg, ReleaseCycle, Goto
  <2>2. Working(w)' => /\ pc[w] = "connect" /\ pc'[w] = "generate" /\ job'[w] = job[w]
    BY <1>0, <1>4 DEF TaskStep, _run_cycle_bg, ReleaseCycle, Goto, Working
  <2>3. Working(w)' => Progress(pc'[w], job'[w], db.runs[job'[w].run])
    <3> SUFFICES ASSUME Working(w)' PROVE Progress(pc'[w], job'[w], db.runs[job'[w].run])
      OBVIOUS
    <3>1. Progress("connect", job[w], RunOf(w))
      BY <2>1, <2>2 DEF AuditInv, Working
    <3>2. Progress("generate", job[w], RunOf(w))
      BY <3>1 DEF Progress
    <3> QED
      BY <2>2, <3>2 DEF RunOf
  <2> QED
    BY <1>0, <2>1, <2>3, AuditKeptRuns
<1>5. CASE PassTime \/ UNCHANGED vars
  <2>1. UNCHANGED <<db, pc, job>>
    BY <1>5 DEF PassTime, vars
  <2> QED
    BY <1>0, <2>1 DEF AuditInv, Working, RunOf, EarnedSomewhere
<1>6. ASSUME NEW fresh \in {db, EmptyLedger}, Reboot(fresh) PROVE AuditInv'
  <2>1. db' = fresh /\ \A t \in Thread : ~Working(t)'
    BY <1>6 DEF Reboot, Working
  <2>2. CASE fresh = db
    BY <1>0, <2>1, <2>2 DEF AuditInv, EarnedSomewhere
  <2>3. CASE fresh = EmptyLedger
    <3>1. DOMAIN db'.runs = {} /\ \A k \in Key : db'.status[k] = "none"
      BY <2>1, <2>3 DEF EmptyLedger
    <3> QED
      BY <1>0, <2>1, <3>1 DEF AuditInv
  <2> QED
    BY <1>6, <2>2, <2>3
<1> QED
  BY <1>1, <1>2, <1>3, <1>4, <1>5, <1>6 DEF SchedulerTick

LEMMA AuditInit == Init => AuditInv
<1> SUFFICES ASSUME Init PROVE AuditInv
  OBVIOUS
<1>1. /\ JobsInv /\ \A t \in Thread : ~Working(t)
      /\ DOMAIN db.runs = {} /\ \A k \in Key : db.status[k] = "none"
  BY JobsInit DEF Init, Working, EmptyLedger
<1> QED
  BY <1>1 DEF AuditInv

LEMMA AuditNext == AuditInv /\ [Next]_vars => AuditInv'
  BY AuditCycle, AuditElsewhere DEF Next

\* Every run closed as done is complete: a decision for each candidate it counts
\* and an order row for each promotion, whatever raised, failed or crashed on the
\* way and however the threads were interleaved.
THEOREM DoneRunsComplete == Spec => []FinishedRunsComplete
<1>1. AuditInv => FinishedRunsComplete
  BY DEF AuditInv, Sound, Complete, FinishedRunsComplete
<1> QED
  BY <1>1, AuditInit, AuditNext, PTL DEF Spec

\* In a run of whatever state no strategy has more orders than promotions, and no
\* strategy is active that no run promoted.
THEOREM OrdersEarned == Spec => []OrdersBackedByDecisions
<1>1. AuditInv => OrdersBackedByDecisions
  BY DEF AuditInv, Sound, Backed, Ordered, Earned, EarnedSomewhere, OrdersBackedByDecisions
<1> QED
  BY <1>1, AuditInit, AuditNext, PTL DEF Spec
-----------------------------------------------------------------------------
(* The ledger with its off-site copy: whatever copy a process comes up on, *)
(* it is a database the ledger was in.                                     *)

SoundCopy(copy) ==
    /\ copy \in Ledger
    /\ \A i \in DOMAIN copy.runs : Sound(copy.runs[i])
    /\ \A k \in Key : copy.status[k] = "active" =>
          \E i \in DOMAIN copy.runs : \E d \in Promoted(copy.runs[i]) :
             copy.runs[i].decisions[d].key = k

SnapshotsInv ==
    /\ AuditInv /\ OrdersSeen
    /\ SnapshotsTypeOK
    /\ \A copy \in published \cup pulled : SoundCopy(copy)

LEMMA RebootOnCopy ==
  ASSUME AuditInv, OrdersSeen, NEW copy, SoundCopy(copy), Reboot(copy)
  PROVE  AuditInv' /\ OrdersSeen'
<1>1. JobsInv'
  BY RebootKeepsJobs DEF AuditInv, SoundCopy
<1>2. db' = copy /\ \A t \in Thread : ~Working(t)'
  BY DEF Reboot, Working
<1>3. AuditInv'
  BY <1>1, <1>2 DEF AuditInv, SoundCopy, EarnedSomewhere
<1>4. OrdersSeen'
  BY DEF OrdersSeen, Reboot
<1> QED
  BY <1>3, <1>4

LEMMA SnapshotsInvInit == SnapshotsInit => SnapshotsInv
<1> SUFFICES ASSUME SnapshotsInit PROVE SnapshotsInv
  OBVIOUS
<1>1. AuditInv /\ TypeOK
  BY AuditInit DEF SnapshotsInit, AuditInv, JobsInv
<1>2. OrdersSeen
  BY DEF SnapshotsInit, Init, OrdersSeen, Never, EmptyLedger
<1>3. SnapshotsTypeOK
  BY <1>1, SnapshotsAssumption, FS_EmptySet DEF SnapshotsInit, SnapshotsTypeOK
<1> QED
  BY <1>1, <1>2, <1>3 DEF SnapshotsInit, SnapshotsInv

LEMMA SnapshotsInvNext == SnapshotsInv /\ [SnapshotsNext]_allvars => SnapshotsInv'
<1> SUFFICES ASSUME SnapshotsInv, [SnapshotsNext]_allvars PROVE SnapshotsInv'
  OBVIOUS
<1>0. /\ AuditInv /\ OrdersSeen /\ TypeOK /\ SnapshotsTypeOK
      /\ \A copy \in published \cup pulled : SoundCopy(copy)
  BY DEF SnapshotsInv, SnapshotsTypeOK
<1>1. SoundCopy(db)
  BY <1>0 DEF AuditInv, TypeOK, SoundCopy, EarnedSomewhere
<1>2. SoundCopy(EmptyLedger)
  <2>1. EmptyLedger \in Ledger
    BY NoneTyped
  <2>2. DOMAIN EmptyLedger.runs = {} /\ \A k \in Key : EmptyLedger.status[k] = "none"
    BY DEF EmptyLedger
  <2> QED
    BY <2>1, <2>2 DEF SoundCopy
<1>3. CASE LedgerStep \/ UNCHANGED allvars
  <2>1. [Next]_vars /\ UNCHANGED <<published, pulled, copies>>
    BY <1>3 DEF LedgerStep, Next, snapshots, allvars
  <2>2. AuditInv' /\ OrdersSeen'
    BY <1>0, <2>1, AuditNext, OrdersSeenNext
  <2> QED
    BY <1>0, <2>1, <2>2 DEF SnapshotsInv, SnapshotsTypeOK, AuditInv, JobsInv
<1>4. CASE db_snapshot
  <2>1. UNCHANGED vars /\ published' = published /\ pulled' = {db} /\ copies' = copies + 1
        /\ copies < MaxCopies
    BY <1>4 DEF db_snapshot
  <2>2. AuditInv' /\ OrdersSeen'
    BY <1>0, <2>1, AuditNext, OrdersSeenNext
  <2>3. pulled' \subseteq Ledger /\ Cardinality(pulled') = 1
    BY <1>1, <2>1, FS_Singleton DEF SoundCopy
  <2>4. copies' \in 0..MaxCopies
    BY <1>0, <2>1, SnapshotsAssumption DEF SnapshotsTypeOK
  <2>5. TypeOK' /\ published' \subseteq Ledger /\ Cardinality(published') <= 1
    BY <1>0, <2>1, <2>2 DEF SnapshotsTypeOK, AuditInv, JobsInv
  <2>6. SnapshotsTypeOK'
    BY <2>3, <2>4, <2>5 DEF SnapshotsTypeOK
  <2> QED
    BY <1>0, <1>1, <2>1, <2>2, <2>6 DEF SnapshotsInv
<1>5. CASE Publish
  <2>1. UNCHANGED vars /\ published' = pulled /\ pulled' = {} /\ copies' = copies
    BY <1>5 DEF Publish
  <2>2. AuditInv' /\ OrdersSeen'
    BY <1>0, <2>1, AuditNext, OrdersSeenNext
  <2>3. SnapshotsTypeOK'
    BY <1>0, <2>1, <2>2, FS_EmptySet DEF SnapshotsTypeOK, AuditInv, JobsInv
  <2> QED
    BY <1>0, <2>1, <2>2, <2>3 DEF SnapshotsInv
<1>6. CASE _bootstrap_db
  <2>1. PICK copy : SoundCopy(copy) /\ Reboot(copy) /\ UNCHANGED <<published, pulled, copies>>
    BY <1>0, <1>1, <1>2, <1>6 DEF _bootstrap_db, snapshots
  <2>2. AuditInv' /\ OrdersSeen'
    BY <1>0, <2>1, RebootOnCopy
  <2> QED
    BY <1>0, <2>1, <2>2 DEF SnapshotsInv, SnapshotsTypeOK, AuditInv, JobsInv
<1> QED
  BY <1>3, <1>4, <1>5, <1>6 DEF SnapshotsNext

\* The ledger and its copies keep their types: at most one copy is published, at
\* most one under way, and each is a database.
THEOREM SnapshotsTypeCorrect == SnapshotsSpec => []SnapshotsTypeOK
<1>1. SnapshotsInv => SnapshotsTypeOK
  BY DEF SnapshotsInv
<1> QED
  BY <1>1, SnapshotsInvInit, SnapshotsInvNext, PTL DEF SnapshotsSpec

\* A process that comes up on its own file, on any copy ever published or on none
\* still reads complete runs, and no order or active strategy without its decision.
THEOREM RestoredRunsComplete ==
  SnapshotsSpec => [](FinishedRunsComplete /\ OrdersBackedByDecisions)
<1>1. SnapshotsInv => FinishedRunsComplete /\ OrdersBackedByDecisions
  BY DEF SnapshotsInv, AuditInv, Sound, Complete, Backed, Ordered, Earned, EarnedSomewhere,
         FinishedRunsComplete, OrdersBackedByDecisions
<1> QED
  BY <1>1, SnapshotsInvInit, SnapshotsInvNext, PTL DEF SnapshotsSpec

\* A restart on an older copy, whose last entry tick is older too, brings no cycle
\* forward: the account's own last order keeps the distance.
THEOREM RestoredEntriesSpaced == SnapshotsSpec => EntrySpacing
<1>1. SnapshotsInv /\ [SnapshotsNext]_allvars =>
        [pc[Scheduler] = "due" /\ pc'[Scheduler] = "generate" => Elapsed(placed, Interval)]_vars
  <2> SUFFICES ASSUME SnapshotsInv, [SnapshotsNext]_allvars,
                      pc[Scheduler] = "due", pc'[Scheduler] = "generate"
               PROVE  Elapsed(placed, Interval)
    OBVIOUS
  <2>1. TypeOK /\ OrdersSeen /\ pc \in [Thread -> Stages] /\ Scheduler \in Thread
    BY DEF SnapshotsInv, SnapshotsTypeOK, TypeOK, Thread
  <2>2. ~_bootstrap_db
    BY <2>1 DEF _bootstrap_db, Reboot
  <2>3. [Next]_vars
    BY <2>2 DEF SnapshotsNext, LedgerStep, db_snapshot, Publish, Next, allvars
  <2> QED
    BY <2>1, <2>3, EntryFollowsOrder
<1> QED
  BY <1>1, SnapshotsInvInit, SnapshotsInvNext, PTL DEF SnapshotsSpec, EntrySpacing
=============================================================================
