-------------------------- MODULE LedgerSnapshots --------------------------
(***************************************************************************)
(* The ledger with its off-site copy (D59): a scheduled workflow pulls     *)
(* GET /api/db-snapshot and force-pushes it to the snapshots branch, and a *)
(* process that comes up without a database file restores the copy.        *)
(***************************************************************************)
EXTENDS LedgerProperties

CONSTANTS
    RestoreFails,   \* whether a restore may fail to fetch the copy
    MaxCopies       \* bound: the workflow runs this many times

ASSUME SnapshotsAssumption == RestoreFails \in BOOLEAN /\ MaxCopies \in Nat

VARIABLES
    published,  \* the snapshots branch: the copies it holds, at most one
    pulled,     \* the copy the running workflow has validated, at most one
    copies      \* how often the workflow has run

snapshots == <<published, pulled, copies>>
allvars == <<vars, snapshots>>

SnapshotsTypeOK ==
    /\ TypeOK
    /\ published \subseteq Ledger /\ Cardinality(published) <= 1
    /\ pulled \subseteq Ledger /\ Cardinality(pulled) <= 1
    /\ copies \in 0..MaxCopies

SnapshotsInit == Init /\ published = {} /\ pulled = {} /\ copies = 0

\* Faulty variant: the tables are copied one after the other, orders too early.
db_snapshot_Torn ==
    /\ pulled = {} /\ copies < MaxCopies
    /\ pulled' = {[db EXCEPT !.runs =
                     [i \in DOMAIN @ |-> [@[i] EXCEPT !.orders = <<>>]]]}
    /\ copies' = copies + 1
    /\ UNCHANGED <<vars, published>>

\* Connection.backup takes a consistent copy, whatever the threads are doing.
db_snapshot ==
    /\ pulled = {} /\ copies < MaxCopies
    /\ pulled' = {db} /\ copies' = copies + 1
    /\ UNCHANGED <<vars, published>>

Publish ==
    /\ pulled # {}
    /\ published' = pulled /\ pulled' = {}
    /\ UNCHANGED <<vars, copies>>

\* Restart on the file as it was, or without it: then the published copy is
\* written in its place, and the ledger starts empty when there is none.
_bootstrap_db ==
    /\ \/ Reboot(db)
       \/ \E copy \in published : Reboot(copy)
       \/ (published = {} \/ RestoreFails) /\ Reboot(EmptyLedger)
    /\ UNCHANGED snapshots

LedgerStep ==
    /\ \/ SchedulerTick
       \/ \E t \in Thread : CycleStep(t)
       \/ \E w \in Worker : trigger_cycle(w) \/ TaskStep(w)
       \/ PassTime
    /\ UNCHANGED snapshots

SnapshotsNext == LedgerStep \/ db_snapshot \/ Publish \/ _bootstrap_db

SnapshotsSpec == SnapshotsInit /\ [][SnapshotsNext]_allvars
=============================================================================
