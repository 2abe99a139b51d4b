--------------------------- MODULE DisplayCaches ---------------------------
(***************************************************************************)
(* The cached panels of the dashboard: GET /api/account (account.snapshot) *)
(* and GET /api/summary (summary.get_or_generate).  The two have the same  *)
(* control over a system_state row and a process lock of their own, so one *)
(* is modelled here and stands for either.                                 *)
(*                                                                         *)
(* What a panel shows is the moment it was read: account and tables change *)
(* all the time, so an older reading is an older truth.  A refresh reads   *)
(* twice, the balance and then the positions, or the tables and then the   *)
(* model's prose.  Only the first can fail it: positions that cannot be    *)
(* read count as none, and prose is replaced by a rendering of the tables. *)
(***************************************************************************)
EXTENDS Integers

CONSTANTS
    Reader,     \* threads that serve the panel
    TTL,        \* ACCOUNT_CACHE_TTL_S or SUMMARY_MAX_AGE_S, in time units
    EndOfTime   \* bound: the clock stops here

ASSUME DisplayAssumption ==
    "nobody" \notin Reader /\ TTL \in Nat \ {0} /\ EndOfTime \in Nat

VARIABLES
    clock,      \* the clock
    row,        \* the panel's system_state row
    copy,       \* its row in the published copy of the database
    holder,     \* the thread that holds _lock
    request,    \* where each thread stands
    shown       \* auxiliary: the newest moment any answer has shown

displayVars == <<clock, row, copy, holder, request, shown>>

Nobody == "nobody"
BeforeAll == -1
Moment == Nat \cup {BeforeAll}

\* A row: the moment it shows and the time stamped on it, both BeforeAll when
\* there is none.
Entry == [shows : Moment, at : Moment]
NoEntry == [shows |-> BeforeAll, at |-> BeforeAll]

\* cached: the row as last read; read: when a refresh read first; stale: the
\* flag of the answer; floor: auxiliary, what was shown when the request came.
Request == [at : {"idle", "wait", "refresh", "rest", "store", "answer"},
            cached : Entry, read : Moment, stale : BOOLEAN, floor : Moment]
NoRequest == [at |-> "idle", cached |-> NoEntry, read |-> BeforeAll,
              stale |-> FALSE, floor |-> BeforeAll]

DisplayTypeOK ==
    /\ clock \in 0..EndOfTime
    /\ row \in Entry
    /\ copy \in Entry
    /\ holder \in Reader \cup {Nobody}
    /\ request \in [Reader -> Request]
    /\ shown \in Moment

DisplayInit ==
    /\ clock = 0
    /\ row = NoEntry
    /\ copy = NoEntry
    /\ holder = Nobody
    /\ request = [r \in Reader |-> NoRequest]
    /\ shown = BeforeAll

-----------------------------------------------------------------------------
(* account.snapshot, summary.get_or_generate                               *)

_fresh(entry) == entry # NoEntry /\ clock - entry.at < TTL

\* The request arrives and looks at the row before it takes the lock.
snapshot(r) ==
    /\ request[r].at = "idle"
    /\ request' = [request EXCEPT ![r] =
                     [NoRequest EXCEPT !.at = IF _fresh(row) THEN "answer" ELSE "wait",
                                       !.cached = row, !.floor = shown]]
    /\ UNCHANGED <<clock, row, copy, holder, shown>>

\* Faulty variants: the lock is not waited for; the row is not read again; it is
\* looked at again but the earlier reading is kept.
EnterLock_NoWait(r) ==
    /\ request[r].at = "wait"
    /\ IF _fresh(row)
       THEN /\ request' = [request EXCEPT ![r] = [@ EXCEPT !.at = "answer", !.cached = row]]
            /\ UNCHANGED holder
       ELSE /\ request' = [request EXCEPT ![r] = [@ EXCEPT !.at = "refresh", !.cached = row]]
            /\ holder' = r
    /\ UNCHANGED <<clock, row, copy, shown>>

EnterLock_NoSecondLook(r) ==
    /\ request[r].at = "wait" /\ holder = Nobody
    /\ request' = [request EXCEPT ![r].at = "refresh"]
    /\ holder' = r
    /\ UNCHANGED <<clock, row, copy, shown>>

\* The lock is taken, and the row read again: another thread may have refreshed
\* it meanwhile.
EnterLock(r) ==
    /\ request[r].at = "wait" /\ holder = Nobody
    /\ IF _fresh(row)
       THEN /\ request' = [request EXCEPT ![r] = [@ EXCEPT !.at = "answer", !.cached = row]]
            /\ UNCHANGED holder
       ELSE /\ request' = [request EXCEPT ![r] = [@ EXCEPT !.at = "refresh", !.cached = row]]
            /\ holder' = r
    /\ UNCHANGED <<clock, row, copy, shown>>

ReadFirst(r) ==
    /\ request[r].at = "refresh"
    /\ request' = [request EXCEPT ![r] = [@ EXCEPT !.at = "rest", !.read = clock]]
    /\ UNCHANGED <<clock, row, copy, holder, shown>>

\* The first read raises: the row is served as stale.  Without a row the answer
\* shows nothing: "available" is false, or the request fails.
FallBack(r) ==
    /\ request[r].at = "refresh"
    /\ holder' = Nobody
    /\ request' = [request EXCEPT ![r] =
                     IF @.cached # NoEntry
                     THEN [@ EXCEPT !.at = "answer", !.stale = TRUE] ELSE NoRequest]
    /\ UNCHANGED <<clock, row, copy, shown>>

ReadRest(r) ==
    /\ request[r].at = "rest"
    /\ request' = [request EXCEPT ![r].at = "store"]
    /\ UNCHANGED <<clock, row, copy, holder, shown>>

\* What was read is stamped and stored, or the write raises and the request fails.
Store(r) ==
    /\ request[r].at = "store"
    /\ holder' = Nobody
    /\ \/ /\ row' = [shows |-> request[r].read, at |-> clock]
          /\ request' = [request EXCEPT ![r] = [@ EXCEPT !.at = "answer", !.cached = row']]
       \/ /\ request' = [request EXCEPT ![r] = NoRequest]
          /\ UNCHANGED row
    /\ UNCHANGED <<clock, copy, shown>>

\* The answer arrives.
Respond(r) ==
    /\ request[r].at = "answer"
    /\ shown' = IF request[r].cached.shows > shown THEN request[r].cached.shows ELSE shown
    /\ request' = [request EXCEPT ![r] = NoRequest]
    /\ UNCHANGED <<clock, row, copy, holder>>

-----------------------------------------------------------------------------
(* api.py: the published copy, and restarts                                *)

\* Faulty variant: the copy keeps the cached rows.
Scrubbed_KeepsCaches(entry) == entry

\* DELETE FROM system_state WHERE key LIKE 'cache:%'
Scrubbed(entry) == NoEntry

\* GET /api/db-snapshot, and its publication.
PublishCopy ==
    /\ copy' = Scrubbed(row)
    /\ UNCHANGED <<clock, row, holder, request, shown>>

\* A new process on the database as it was, on the published copy, or on none.
NewProcess ==
    /\ row' \in {row, copy, NoEntry}
    /\ holder' = Nobody
    /\ request' = [r \in Reader |-> NoRequest]
    /\ UNCHANGED <<clock, copy, shown>>

ClockTicks ==
    /\ clock < EndOfTime
    /\ clock' = clock + 1
    /\ UNCHANGED <<row, copy, holder, request, shown>>

RequestStep(r) ==
    \/ snapshot(r) \/ EnterLock(r) \/ ReadFirst(r) \/ FallBack(r)
    \/ ReadRest(r) \/ Store(r) \/ Respond(r)

DisplayNext ==
    \/ \E r \in Reader : RequestStep(r)
    \/ PublishCopy \/ NewProcess \/ ClockTicks

DisplaySpec == DisplayInit /\ [][DisplayNext]_displayVars

-----------------------------------------------------------------------------
(* What the panels promise                                                 *)

\* While a row exists it is replaced once in a TTL at most, however many threads
\* find it expired at the same moment (summary.py: "regenerated at most once an
\* hour"; account.py: page loads do not spawn the MCP subprocess every time).
RefreshesSpaced ==
    [][row # NoEntry /\ row' \notin {row, NoEntry} => row'.at - row.at >= TTL]_displayVars

\* No answer is older than what an earlier answer had shown when its request
\* came, stale answers and restarts on whatever database included.
NeverOlder ==
    \A r \in Reader :
        request[r].at = "answer" => request[r].cached.shows >= request[r].floor

\* A stale answer is given only while the row it shows is the newest there is and
\* has expired: a failed read hides no refresh another thread has stored
\* (account.py: "the last good snapshot is served with stale=True").
StaleIsNewest ==
    [][\A r \in Reader :
         request'[r].at = "answer" /\ request'[r].stale /\ request[r].at # "answer"
           => request'[r].cached = row /\ ~_fresh(row)]_displayVars
=============================================================================
