------------------------------ MODULE BarCache ------------------------------
(***************************************************************************)
(* The daily-bar cache (data.py) for one symbol: the bars it stores, the   *)
(* date ranges it has recorded as covered, and get_bars running in several *)
(* threads on one SQLite file while the market's day goes on.  A day is a  *)
(* number; a bar is what the feed knew of the day when it was fetched.     *)
(***************************************************************************)
EXTENDS Sorting, SequencesExt

CONSTANTS
    LastDay,    \* bound: the calendar is 1..LastDay
    Holidays,   \* the days without a bar: weekends and market holidays
    Caller      \* the threads that call get_bars: the scheduler and an API task

ASSUME CacheAssumption == LastDay \in Nat \ {0} /\ Holidays \subseteq 1..LastDay

VARIABLES
    day,        \* date.today()
    phase,      \* of today's session: "pre", "open" or "closed"
    bars,       \* table bars: what is stored of each day
    coverage,   \* table bar_coverage, the rows <<start_date, end_date>>
    call,       \* where each thread stands in get_bars
    early       \* auxiliary: days whose last stored answer came without a final bar

vars == <<day, phase, bars, coverage, call, early>>

Day == 1..LastDay
Interval == {i \in Day \X Day : i[1] <= i[2]}
Bar == {"none", "partial", "final"}
Days(i) == i[1]..i[2]
Trading(d) == d \notin Holidays
Settled(d) == d < day \/ (d = day /\ phase = "closed")

Idle == [at |-> "idle"]

CacheTypeOK ==
    /\ day \in Day /\ phase \in {"pre", "open", "closed"}
    /\ bars \in [Day -> Bar]
    /\ coverage \subseteq Interval
    /\ early \subseteq Day
    /\ \A c \in Caller :
          call[c] = Idle \/
          /\ call[c].at \in {"fetch", "store", "record", "read"}
          /\ call[c].range \in Interval
          /\ ToSet(call[c].gaps) \subseteq Interval
          /\ \A d \in DOMAIN call[c].got : d \in Day /\ call[c].got[d] \in Bar

Init ==
    /\ day = 1 /\ phase \in {"pre", "open", "closed"}
    /\ bars = [d \in Day |-> "none"] /\ coverage = {}
    /\ call = [c \in Caller |-> Idle]
    /\ early = {}

-----------------------------------------------------------------------------
(* The date arithmetic                                                     *)

Earlier(i, j) == i[1] < j[1] \/ (i[1] = j[1] /\ i[2] < j[2])
LaterOf(d, e) == IF d < e THEN e ELSE d

\* Faulty variant: a range within its predecessor cuts the merged one short.
_covered_intervals_LastEnd(rows) ==
    LET merge(merged, i) ==
            IF merged # <<>> /\ i[1] <= Last(merged)[2] + 1
            THEN Append(Front(merged), <<Last(merged)[1], i[2]>>)
            ELSE Append(merged, i)
    IN  FoldLeft(merge, <<>>, Sorted(rows, Earlier))

\* A range that overlaps the last merged one, or follows on it, extends it.
Merge(merged, i) ==
    IF merged # <<>> /\ i[1] <= Last(merged)[2] + 1
    THEN Append(Front(merged), <<Last(merged)[1], LaterOf(Last(merged)[2], i[2])>>)
    ELSE Append(merged, i)

\* The recorded ranges, sorted and merged.
_covered_intervals(rows) == FoldLeft(Merge, <<>>, Sorted(rows, Earlier))

\* A covered range leaves a gap before it, back to the cursor, and moves the cursor
\* past it.  (The break once the cursor is past the end only saves time: later
\* ranges start past it too.)
PassRange(plan, i, end) ==
    IF i[2] < plan.cursor \/ i[1] > end THEN plan
    ELSE [gaps |-> IF i[1] > plan.cursor
                   THEN Append(plan.gaps, <<plan.cursor, i[1] - 1>>) ELSE plan.gaps,
          cursor |-> LaterOf(plan.cursor, i[2] + 1)]

Planned(covered, start, end) ==
    FoldLeft(LAMBDA plan, i : PassRange(plan, i, end),
             [gaps |-> <<>>, cursor |-> start], covered)

\* Faulty variant: the rest after the last covered range, empty or not.
_missing_ranges_EmptyTail(covered, start, end) ==
    LET plan == Planned(covered, start, end)
    IN  Append(plan.gaps, <<plan.cursor, end>>)

\* The sub-ranges of start..end in no covered range, in order.
_missing_ranges(covered, start, end) ==
    LET plan == Planned(covered, start, end)
    IN  IF plan.cursor <= end THEN Append(plan.gaps, <<plan.cursor, end>>) ELSE plan.gaps

-----------------------------------------------------------------------------
(* get_bars                                                                *)

\* What the feed answers about a day: today's bar grows while the market is open.
Feed(d) ==
    IF d > day \/ ~Trading(d) THEN "none"
    ELSE IF Settled(d) THEN "final"
    ELSE IF phase = "open" THEN "partial" ELSE "none"

\* A call looks up what is covered and plans its fetches.  The cycle and the
\* regret ledger ask for a range that ended today when they started.
get_bars(c) ==
    /\ call[c] = Idle
    /\ \E range \in Interval :
        /\ range[2] <= day
        /\ LET gaps == _missing_ranges(_covered_intervals(coverage), range[1], range[2])
           IN  call' = [call EXCEPT ![c] =
                           [at |-> IF gaps = <<>> THEN "read" ELSE "fetch",
                            range |-> range, gaps |-> gaps, got |-> <<>>]]
    /\ UNCHANGED <<day, phase, bars, coverage, early>>

\* One network request, for the first gap left.
_fetch_from_alpaca(c) ==
    /\ call[c].at = "fetch"
    /\ call' = [call EXCEPT ![c] =
                   [@ EXCEPT !.at = "store",
                             !.got = [d \in Days(Head(call[c].gaps)) |-> Feed(d)]]]
    /\ UNCHANGED <<day, phase, bars, coverage, early>>

\* INSERT OR REPLACE of the bars received.
_store_bars(c) ==
    /\ call[c].at = "store"
    /\ LET got == call[c].got IN
        /\ bars' = [d \in Day |-> IF d \in DOMAIN got /\ got[d] # "none"
                                  THEN got[d] ELSE bars[d]]
        /\ early' = (early \ DOMAIN got) \cup {d \in DOMAIN got : got[d] # "final"}
    /\ call' = [call EXCEPT ![c] = [@ EXCEPT !.at = "record", !.got = <<>>]]
    /\ UNCHANGED <<day, phase, coverage>>

\* Faulty variant: with its first gap the whole range counts as covered.
_record_coverage_Whole(c) ==
    /\ call[c].at = "record"
    /\ coverage' = coverage \cup {call[c].range}
    /\ call' = [call EXCEPT ![c] =
                   [@ EXCEPT !.at = IF Len(call[c].gaps) = 1 THEN "read" ELSE "fetch",
                             !.gaps = Tail(call[c].gaps)]]
    /\ UNCHANGED <<day, phase, bars, early>>

\* The gap is covered, whether or not the feed had a bar for every day of it.
_record_coverage(c) ==
    /\ call[c].at = "record"
    /\ coverage' = coverage \cup {Head(call[c].gaps)}
    /\ call' = [call EXCEPT ![c] =
                   [@ EXCEPT !.at = IF Len(call[c].gaps) = 1 THEN "read" ELSE "fetch",
                             !.gaps = Tail(call[c].gaps)]]
    /\ UNCHANGED <<day, phase, bars, early>>

\* The answer: the stored bars of the range.
_read_bars(c) ==
    /\ call[c].at = "read"
    /\ call' = [call EXCEPT ![c] = Idle]
    /\ UNCHANGED <<day, phase, bars, coverage, early>>

\* The feed or SQLite raises, or the process dies: what is committed stays.
Fail(c) ==
    /\ call[c].at \in {"fetch", "store", "record"}
    /\ call' = [call EXCEPT ![c] = Idle]
    /\ UNCHANGED <<day, phase, bars, coverage, early>>

Advance ==
    /\ \/ phase = "pre" /\ phase' = "open" /\ day' = day
       \/ phase = "open" /\ phase' = "closed" /\ day' = day
       \/ phase = "closed" /\ phase' = "pre" /\ day < LastDay /\ day' = day + 1
    /\ UNCHANGED <<bars, coverage, call, early>>

CallStep(c) ==
    \/ get_bars(c) \/ _fetch_from_alpaca(c) \/ _store_bars(c)
    \/ _record_coverage(c) \/ _read_bars(c) \/ Fail(c)

Next == Advance \/ \E c \in Caller : CallStep(c)

Spec == Init /\ [][Next]_vars

-----------------------------------------------------------------------------
(* What the cache promises                                                 *)

Covered == UNION {Days(i) : i \in coverage}

\* The reference definition of the gaps: the maximal runs of days asked for and
\* not covered.
Gaps(range) ==
    LET missing == Days(range) \ Covered IN
    {i \in Interval : Days(i) \subseteq missing
                      /\ i[1] - 1 \notin missing /\ i[2] + 1 \notin missing}

\* A call plans one request per maximal run of uncovered days, oldest first, and
\* none for a covered range (tests/test_data.py), however the recorded ranges
\* overlap after several threads filled the same gap.
FetchesOnlyMissing ==
    [][\A c \in Caller :
         call[c] = Idle /\ call'[c] # Idle =>
            LET gaps == call'[c].gaps IN
            /\ ToSet(gaps) = Gaps(call'[c].range)
            /\ \A i, j \in DOMAIN gaps : i < j => gaps[i][2] < gaps[j][1]]_vars

\* The answer to a call has the final bar of every trading day that is over, but for
\* days whose last stored answer was fetched too early, by this call or another that
\* stored it over a final bar: no failure between a store and its record, and no
\* other thread, makes the cache take a day for covered that it never got.
AnswersComplete ==
    \A c \in Caller : call[c].at = "read" =>
        \A d \in Days(call[c].range) :
            Trading(d) /\ Settled(d) /\ d \notin early => bars[d] = "final"

\* A call of a later day holds or fetches the final bar of every earlier trading
\* day it asks for (scheduler.py: "a couple of entry cycles per trading day covers
\* the fresh bar").
FreshBarCovered ==
    [][\A c \in Caller :
         call[c] = Idle /\ call'[c] # Idle =>
            \A d \in Days(call'[c].range) :
               Trading(d) /\ d < day =>
                  bars[d] = "final" \/ \E i \in ToSet(call'[c].gaps) : d \in Days(i)]_vars
=============================================================================
