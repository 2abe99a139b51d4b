---------------------------- MODULE RegretLedger ----------------------------
(***************************************************************************)
(* The regret ledger (regret.py) and its retirement rule (retire.py): a    *)
(* pass judges every strategy as of a past date, retires the actives that  *)
(* a rejected shadow beat forward, and writes each verdict and closes the  *)
(* position it ends in separate steps, and the process may die between any *)
(* two of them and be started again, on the same date.                     *)
(***************************************************************************)
EXTENDS Sorting, SequencesExt

CONSTANTS
    N,              \* the strategies are 1..N, in the order of their ids
    Symbol,         \* the underlyings
    Returns,        \* the forward returns, in percentage points
    MinOutperformance, ActiveMax,   \* RETIREMENT_POLICY
    MaxPasses,      \* bound: the ledger is run this often
    Holders         \* bound: the strategies that may have a buy row

ASSUME RegretAssumption ==
    /\ N \in Nat /\ MaxPasses \in Nat /\ Holders \subseteq 1..N
    /\ Returns \subseteq Int /\ MinOutperformance \in Nat /\ ActiveMax \in Int

VARIABLES
    evidence,   \* what bars, engine and gate say of each strategy
    status,     \* strategies.status
    row,        \* the status of each strategy's buy row
    position,   \* what the account holds for each of them, or has an order for
    escaped,    \* auxiliary: the strategies whose buy was unfilled when their symbol
                \* was last closed, or whose closing order has expired since
    passes,     \* the runs of the ledger, with the rows each has written
    pc,         \* where the running pass stands
    seen,       \* how many strategies it has judged
    todo,       \* the retirements it has still to carry out
    reply       \* the answer to the close in hand

vars == <<evidence, status, row, position, escaped, passes, pc, seen, todo, reply>>
account == <<position, escaped>>
facts == <<evidence, row>>      \* what no step changes

Strategy == 1..N
\* A strategy with too few bars on either side of the date is skipped.
Record == [decision : {"promoted", "rejected", "skipped"}, ret : Returns,
           proven : BOOLEAN, symbol : Symbol]
Replies == {"none", "accepted", "no_position", "error"}
\* "accepted" stands for every status outside the terminal set, the exit sweep's
\* "closed" and "reconciled-closed" among them; "error" may be a lost reply.
Rows == {"none", "accepted", "filled", "error"}
Positions == {"none", "working", "shares", "selling", "option"}
EmptyPass == [done |-> FALSE, decisions |-> [s \in Strategy |-> "none"], retired |-> {},
              sold |-> [s \in Strategy |-> "none"], postmortems |-> {}]
Pass == passes[Len(passes)]

RegretTypeOK ==
    /\ evidence \in [Strategy -> Record]
    /\ status \in [Strategy -> {"active", "rejected", "retired"}]
    /\ row \in [Strategy -> Rows] /\ position \in [Strategy -> Positions]
    /\ escaped \subseteq Strategy
    /\ Len(passes) <= MaxPasses
    /\ \A i \in DOMAIN passes :
          /\ passes[i].done \in BOOLEAN
          /\ passes[i].decisions \in [Strategy -> {"none", "promoted", "rejected"}]
          /\ passes[i].retired \subseteq Strategy
          /\ passes[i].sold \in [Strategy -> Replies]
          /\ passes[i].postmortems \subseteq Strategy \X Strategy
    /\ pc \in {"idle", "judge", "retire", "promote", "decide", "close", "sell", "explain",
               "finish"}
    /\ pc \in {"retire", "promote", "decide", "close", "sell", "explain"} => todo # <<>>
    /\ seen \in 0..N /\ reply \in Replies

\* One record stands for the skipped ones, one for the actives that did not lose, and
\* one for the shadows that never traded or whose forward window is short: their
\* return does not matter.
Telling(r) ==
    \/ r.decision = "rejected" /\ r.proven
    \/ r.decision = "promoted" /\ r.proven /\ r.ret <= ActiveMax
    \/ (r.decision = "promoted" <=> r.proven) /\ \A x \in Returns : x <= r.ret

Init ==
    /\ evidence \in [Strategy -> {r \in Record : Telling(r)}]
    /\ status = [s \in Strategy |->
                    IF evidence[s].decision = "promoted" THEN "active" ELSE "rejected"]
    /\ row \in {r \in [Strategy -> Rows] : \A s \in Strategy \ Holders : r[s] = "none"}
    /\ position \in {p \in [Strategy -> Positions \ {"selling"}] : \A s \in Strategy :
                        /\ row[s] = "none" => p[s] = "none"
                        /\ row[s] = "filled" => p[s] # "working"}
    /\ escaped = {}
    /\ passes = <<>> /\ pc = "idle" /\ seen = 0 /\ todo = <<>> /\ reply = "none"

-----------------------------------------------------------------------------
(* The retirement rule, of the records that a pass collects                *)

Judged(records) == {s \in Strategy : records[s].decision # "skipped"}
Actives(records) == {s \in Judged(records) : records[s].decision = "promoted"}
\* Rejected as of the date, with enough forward bars and a forward trade.
Shadows(records) ==
    {s \in Judged(records) : records[s].decision = "rejected" /\ records[s].proven}

\* An active that lost money forward and a shadow of its symbol that did better by
\* more than the margin.
Beats(records, shadow, active) ==
    /\ records[shadow].symbol = records[active].symbol
    /\ records[active].ret <= ActiveMax
    /\ records[shadow].ret - records[active].ret > MinOutperformance

\* by_symbol keeps the order in which symbols first occur.
FirstOf(records, s) == CHOOSE t \in Judged(records) :
    /\ records[t].symbol = records[s].symbol
    /\ \A u \in Judged(records) : records[u].symbol = records[s].symbol => t <= u

\* Symbol by symbol, the worst forward return first; sorted is stable.
WorstFirst(records, s, t) ==
    \/ FirstOf(records, s) < FirstOf(records, t)
    \/ /\ FirstOf(records, s) = FirstOf(records, t)
       /\ \/ records[s].ret < records[t].ret
          \/ records[s].ret = records[t].ret /\ s < t

\* The best of a set of shadows, the first among equals.
Best(records, shadows) == CHOOSE s \in shadows : \A t \in shadows :
    records[t].ret < records[s].ret \/ (records[t].ret = records[s].ret /\ s <= t)

\* Faulty variant: a shadow may retire several actives.
Retire_Unclaimed(records, pairs, a) ==
    LET beaten_by == {s \in Shadows(records) : Beats(records, s, a)}
    IN  IF beaten_by = {} THEN pairs ELSE Append(pairs, <<a, Best(records, beaten_by)>>)

\* The next active, a, is retired by the best shadow that beats it and that none of
\* the pairs so far has claimed.
Retire(records, pairs, a) ==
    LET beaten_by == {s \in Shadows(records) :
                         Beats(records, s, a) /\ \A p \in ToSet(pairs) : p[2] # s}
    IN  IF beaten_by = {} THEN pairs ELSE Append(pairs, <<a, Best(records, beaten_by)>>)

\* Faulty variant: the actives in the order of their ids.
find_retirements_Unsorted(records) ==
    FoldLeft(LAMBDA pairs, a : Retire(records, pairs, a), <<>>,
             Sorted(Actives(records), <))

\* Pairs of an active and the unclaimed shadow that replaces it.
find_retirements(records) ==
    FoldLeft(LAMBDA pairs, a : Retire(records, pairs, a), <<>>,
             Sorted(Actives(records), LAMBDA s, t : WorstFirst(records, s, t)))

-----------------------------------------------------------------------------
(* The pass                                                                *)

\* The row of the run, and its date, which nothing reads before the first verdict.
start_run ==
    /\ pc = "idle" /\ Len(passes) < MaxPasses
    /\ passes' = Append(passes, EmptyPass)
    /\ pc' = "judge"
    /\ UNCHANGED <<status, account, seen, todo, reply, facts>>

\* Both backtests and the as-of decision of the next strategy.
Judge ==
    /\ pc = "judge" /\ seen < N
    /\ seen' = seen + 1
    /\ passes' = IF evidence[seen'].decision = "skipped" THEN passes
                 ELSE [passes EXCEPT ![Len(passes)].decisions[seen'] = evidence[seen'].decision]
    /\ UNCHANGED <<status, account, pc, todo, reply, facts>>

\* Faulty variant: the loop runs once more than there are retirements.
Continue_OnceMore(rest) ==
    /\ todo' = rest
    /\ pc' = "retire"

\* The next retirement, or the end of the loop.
Continue(rest) ==
    /\ todo' = rest
    /\ pc' = IF rest = <<>> THEN "finish" ELSE "retire"

FindRetirements ==
    /\ pc = "judge" /\ seen = N
    /\ Continue(find_retirements(evidence))
    /\ seen' = 0
    /\ UNCHANGED <<status, account, passes, reply, facts>>

Retired == Head(todo)[1]
Winner == Head(todo)[2]

RetireActive ==
    /\ pc = "retire"
    /\ status' = [status EXCEPT ![Retired] = "retired"]
    /\ pc' = "promote"
    /\ UNCHANGED <<account, passes, seen, todo, reply, facts>>

PromoteShadow ==
    /\ pc = "promote"
    /\ status' = [status EXCEPT ![Winner] = "active"]
    /\ pc' = "decide"
    /\ UNCHANGED <<account, passes, seen, todo, reply, facts>>

\* Faulty variant: a sell row of an earlier pass counts as the position's end.
_open_position_symbol_SoldOnce(s) ==
    row[s] = "accepted" /\ \A i \in DOMAIN passes : passes[i].sold[s] = "none"

_TERMINAL_ORDER_STATUSES == {"filled", "error"}

\* The strategy has a buy row whose status is not in the set. Closing the position
\* does not change the row.
_open_position_symbol(s) == row[s] \notin _TERMINAL_ORDER_STATUSES \cup {"none"}

InsertDecision ==
    /\ pc = "decide"
    /\ passes' = [passes EXCEPT ![Len(passes)].retired = @ \cup {Retired}]
    /\ pc' = IF _open_position_symbol(Retired) THEN "close" ELSE "explain"
    /\ UNCHANGED <<status, account, seen, todo, reply, facts>>

OfSymbol(y) == {s \in Strategy : evidence[s].symbol = y}
In(kind, y) == {s \in OfSymbol(y) : position[s] = kind}

\* close_position of the strategy's symbol: the shares held in it, whichever
\* strategy bought them; option contracts are positions of other names. What is
\* accepted is an order; the broker refuses one while another has the shares.
close_position(y) ==
    LET closed == [s \in Strategy |-> IF s \in In("shares", y) THEN "selling" ELSE position[s]]
    IN  \/ /\ In("selling", y) = {}
           /\ reply' \in (IF In("shares", y) = {} THEN {"no_position"} ELSE {"accepted", "error"})
           /\ position' = closed
           /\ escaped' = (escaped \ OfSymbol(y)) \cup In("working", y)
        \/ reply' = "error" /\ UNCHANGED account

ClosePosition ==
    /\ pc = "close" /\ close_position(evidence[Retired].symbol)
    /\ pc' = "sell"
    /\ UNCHANGED <<status, passes, seen, todo, facts>>

InsertSell ==
    /\ pc = "sell"
    /\ passes' = [passes EXCEPT ![Len(passes)].sold[Retired] = reply]
    /\ reply' = "none" /\ pc' = "explain"
    /\ UNCHANGED <<status, account, seen, todo, facts>>

InsertPostmortem ==
    /\ pc = "explain"
    /\ Continue(Tail(todo))
    /\ passes' = [passes EXCEPT ![Len(passes)].postmortems = @ \cup {Head(todo)}]
    /\ UNCHANGED <<status, account, seen, reply, facts>>

FinishRun ==
    /\ pc = "finish"
    /\ passes' = [passes EXCEPT ![Len(passes)].done = TRUE]
    /\ pc' = "idle"
    /\ UNCHANGED <<status, account, seen, todo, reply, facts>>

\* A call raises or the process dies: the pass ends where it stands.
Abort ==
    /\ pc # "idle"
    /\ pc' = "idle" /\ seen' = 0 /\ todo' = <<>> /\ reply' = "none"
    /\ UNCHANGED <<status, account, passes, facts>>

-----------------------------------------------------------------------------
(* The broker: a buy or a close that it has accepted fills later, a close  *)
(* of a symbol as a whole, or expires.                                     *)

FillBuy(s) ==
    /\ position[s] = "working"
    /\ position' = [position EXCEPT ![s] = "shares"]
    /\ UNCHANGED <<status, escaped, passes, pc, seen, todo, reply, facts>>

FillClose(y) ==
    /\ In("selling", y) # {}
    /\ position' = [s \in Strategy |-> IF s \in In("selling", y) THEN "none" ELSE position[s]]
    /\ UNCHANGED <<status, escaped, passes, pc, seen, todo, reply, facts>>

ExpireClose(y) ==
    /\ In("selling", y) # {}
    /\ position' = [s \in Strategy |-> IF s \in In("selling", y) THEN "shares" ELSE position[s]]
    /\ escaped' = escaped \cup In("selling", y)
    /\ UNCHANGED <<status, passes, pc, seen, todo, reply, facts>>

Next ==
    \/ start_run \/ Judge \/ FindRetirements \/ RetireActive \/ PromoteShadow
    \/ InsertDecision \/ ClosePosition \/ InsertSell \/ InsertPostmortem \/ FinishRun \/ Abort
    \/ \E s \in Strategy : FillBuy(s)
    \/ \E y \in Symbol : FillClose(y) \/ ExpireClose(y)

Spec == Init /\ [][Next]_vars

-----------------------------------------------------------------------------
(* What the ledger promises                                                *)

\* The pairs are a stable matching of losing actives with the shadows that beat
\* them: where a shadow and an active it beats are not paired, the active has a
\* shadow as good, or the shadow has gone to an active that did no better.
Stable(pairs) ==
    \A a \in Actives(evidence) :
        \A s \in {x \in Shadows(evidence) : Beats(evidence, x, a)} :
            \/ \E p \in pairs : p[1] = a /\ evidence[p[2]].ret >= evidence[s].ret
            \/ \E p \in pairs : p[2] = s /\ evidence[p[1]].ret <= evidence[a].ret

\* A finished pass has judged every strategy with enough bars, and its verdicts are
\* all that the rule demands and no others: the biggest regret takes the best
\* shadow (retire.py: "Actives are considered worst-forward first"). The statuses say
\* so as long as no cycle decides one of the pair again (cycle.py:286).
RevisionsJustified ==
    \A i \in DOMAIN passes : passes[i].done =>
        /\ \A s \in Judged(evidence) : passes[i].decisions[s] = evidence[s].decision
        /\ passes[i].retired = {p[1] : p \in passes[i].postmortems}
        /\ \A p \in passes[i].postmortems :
              p[1] \in Actives(evidence) /\ p[2] \in Shadows(evidence)
              /\ Beats(evidence, p[2], p[1])
        /\ Stable(passes[i].postmortems)
        /\ \A p \in passes[i].postmortems :
              status[p[1]] = "retired" /\ status[p[2]] = "active"

\* In no pass, finished or not, is a strategy retired twice, a shadow used twice,
\* or a strategy both retired and promoted; a post-mortem has its decision row,
\* and at most one decision waits for its post-mortem (retire.py: "One active is
\* retired at most once", "one shadow retires at most one active").
OneVerdictPerPass ==
    \A i \in DOMAIN passes :
        LET pms == passes[i].postmortems
            explained == {p[1] : p \in pms}
        IN  /\ \A p, q \in pms : p # q => p[1] # q[1] /\ p[2] # q[2]
            /\ \A p \in pms : p[2] \notin passes[i].retired
            /\ explained \subseteq passes[i].retired
            /\ Cardinality(passes[i].retired \ explained) <= 1

\* What is left to the strategies with a live row that a finished pass has retired,
\* but for a close that failed, and is recorded so, and for what came after one that
\* was accepted: it expired, or the buy filled only then.
HeldAfter(kinds) ==
    {s \in Strategy \ escaped : position[s] \in kinds /\ row[s] = "accepted" /\
        \E i \in DOMAIN passes :
            passes[i].done /\ s \in passes[i].retired /\ passes[i].sold[s] # "error"}

\* A finished pass leaves no shares to a strategy it has retired whose row is live,
\* with the exceptions that HeldAfter names, also when an earlier pass died before or
\* after that close. A row that is "filled", or "error" for a lost reply, is taken for
\* no position, and its shares stay.
RetiredSharesClosed == HeldAfter({"shares"}) = {}

\* Nor any other position (regret.py: "any open paper position of the retired
\* strategy is closed through the MCP path").
RetiredPositionsClosed == HeldAfter({"shares", "option"}) = {}
=============================================================================
