--------------------------- MODULE AsOfEvaluation ----------------------------
(***************************************************************************)
(* The evidence of the regret ledger: every strategy is replayed up to a   *)
(* past date and judged by the gate, then replayed from that date on, and  *)
(* both results and the decision are stored one after the other; the       *)
(* calibration reads whatever is stored when it is run.                    *)
(***************************************************************************)
EXTENDS ReplayEngine, Calibration

CONSTANTS
    Universes,          \* sequences of subjects, in the order of their ids
    MIN_INSAMPLE_BARS,
    Futures             \* bars that might have come instead

ASSUME AsOfAssumption ==
    /\ MIN_INSAMPLE_BARS \in Nat \ {0, 1} /\ MIN_PROMOTED \in Nat \ {0}
    /\ HOLDOUT_EVERY \in Nat \ {0} /\ MIN_IMPROVEMENT_PP \in Nat \ {0}
    /\ Grid \in [min_total_return_pct : Seq(Int), max_drawdown_pct : Seq(Int),
                 min_trades : Seq(Int)]

\* Prices are positive.
Bar == [open : Nat \ {0}, high : Nat \ {0}, low : Nat \ {0}, close : Nat \ {0}, volume : Nat]
SubjectRecord == [strategy : Strategy, bars : Seq(Bar), split : Nat]

ASSUME UniversesAssumption ==
    /\ Futures \subseteq Bar
    /\ \A u \in Universes :
          u \in Seq(SubjectRecord) /\ \A i \in DOMAIN u : u[i].split <= Len(u[i].bars)

VARIABLES
    universe,       \* the subjects, each [strategy, bars, split]: split bars are up to the date
    at,             \* the subject in hand
    pc,             \* where the pass stands
    play,           \* the loop of run_backtest
    insample_m, forward_m,      \* the results of its two replays
    rows,           \* subject -> what is stored of it
    calibration     \* the last calibration, with the sample it was made from

vars == <<universe, at, pc, play, insample_m, forward_m, rows, calibration>>

Subject == universe[at]
NoMetrics == [total_return_pct |-> 0, max_drawdown_pct |-> 0, num_trades |-> -1,
              open_position |-> FALSE]
NoRow == [insample |-> NoMetrics, forward |-> NoMetrics, decision |-> "none"]
NoCalibration == [sample |-> <<>>]

\* Faulty variant: the replay the gate judges sees the forward bars.
InsampleBars_All(subject) == subject.bars

InsampleBars(subject) == SubSeq(subject.bars, 1, subject.split)
Bars == IF pc = "insample" THEN InsampleBars(Subject) ELSE Subject.bars

Init ==
    /\ universe \in Universes
    /\ at = 0 /\ pc = "next" /\ play = Start(1)
    /\ insample_m = NoMetrics /\ forward_m = NoMetrics
    /\ rows = [i \in DOMAIN universe |-> NoRow]
    /\ calibration = NoCalibration

\* Faulty variant: the loop does not end with the last subject.
NextSubject_PastLast ==
    /\ pc = "next" /\ at <= Len(universe)
    /\ at' = at + 1
    /\ pc' = IF at = Len(universe) THEN "next" ELSE "insample"
    /\ play' = Start(1)
    /\ UNCHANGED <<universe, insample_m, forward_m, rows, calibration>>

\* A subject with too few bars on either side of the date is skipped.
NextSubject ==
    /\ pc = "next" /\ at < Len(universe)
    /\ at' = at + 1
    /\ LET s == universe[at + 1]
       IN  pc' = IF s.split < MIN_INSAMPLE_BARS \/ Len(s.bars) - s.split < 2
                 THEN "next" ELSE "insample"
    /\ play' = Start(1)
    /\ UNCHANGED <<universe, insample_m, forward_m, rows, calibration>>

ReplayBar ==
    /\ pc \in {"insample", "forward"} /\ play.n < Len(Bars)
    /\ play' = PlayBar(Subject.strategy, Bars, play)
    /\ UNCHANGED <<universe, at, pc, insample_m, forward_m, rows, calibration>>

\* The forward replay starts flat on the first bar after the date.
EndInsample ==
    /\ pc = "insample" /\ play.n = Len(Bars)
    /\ insample_m' = Metrics(Bars, play)
    /\ play' = Start(Subject.split + 1)
    /\ pc' = "forward"
    /\ UNCHANGED <<universe, at, forward_m, rows, calibration>>

EndForward ==
    /\ pc = "forward" /\ play.n = Len(Bars)
    /\ forward_m' = Metrics(Bars, play)
    /\ play' = Start(1)
    /\ pc' = "storeInsample"
    /\ UNCHANGED <<universe, at, insample_m, rows, calibration>>

InsertInsample ==
    /\ pc = "storeInsample"
    /\ rows' = [rows EXCEPT ![at].insample = insample_m]
    /\ pc' = "storeForward"
    /\ UNCHANGED <<universe, at, play, insample_m, forward_m, calibration>>

InsertForward ==
    /\ pc = "storeForward"
    /\ rows' = [rows EXCEPT ![at].forward = forward_m]
    /\ pc' = "decide"
    /\ UNCHANGED <<universe, at, play, insample_m, forward_m, calibration>>

\* The gate in force decides, not the strict one that the calibration starts from.
InsertDecision ==
    /\ pc = "decide"
    /\ rows' = [rows EXCEPT ![at].decision =
                   IF evaluate(insample_m, active_thresholds) THEN "promoted" ELSE "rejected"]
    /\ pc' = "next" /\ insample_m' = NoMetrics /\ forward_m' = NoMetrics
    /\ UNCHANGED <<universe, at, play, calibration>>

\* The join of decisions with both backtests, whether or not the pass has ended.
load_candidates ==
    LET decided == Sorted({i \in DOMAIN rows : rows[i].decision # "none"}, <)
    IN  [k \in DOMAIN decided |->
            [strategy_id |-> decided[k], insample |-> rows[decided[k]].insample,
             forward_return_pct |-> rows[decided[k]].forward.total_return_pct]]

\* Too few candidates are refused; otherwise the record is stored, and nothing else.
Calibrate ==
    /\ Len(load_candidates) >= 2 * MIN_PROMOTED
    /\ calibration' = [sample |-> load_candidates, record |-> calibrate(load_candidates)]
    /\ UNCHANGED <<universe, at, pc, play, insample_m, forward_m, rows>>

Next ==
    \/ NextSubject \/ ReplayBar \/ EndInsample \/ EndForward
    \/ InsertInsample \/ InsertForward \/ InsertDecision \/ Calibrate

Spec == Init /\ [][Next]_vars

-----------------------------------------------------------------------------
(* Properties                                                              *)

\* Every variable keeps its type, and no step of the pass is without a subject.
AsOfTypeOK ==
    /\ universe \in Universes
    /\ at \in 0..Len(universe)
    /\ pc \in {"next", "insample", "forward", "storeInsample", "storeForward", "decide"}
    /\ pc \in {"insample", "forward"} => play.n \in 1..Len(Bars)
    /\ DOMAIN rows = DOMAIN universe
    /\ \A i \in DOMAIN rows : rows[i].decision \in {"none", "promoted", "rejected"}

\* The bars of a replay as they would be had the future been made of bar b: what is known is
\* every bar before play.n, and the open of that one.
Doctored(b) ==
    [i \in DOMAIN Bars |-> IF i < play.n THEN Bars[i]
                           ELSE IF i = play.n THEN [b EXCEPT !.open = Bars[i].open] ELSE b]

\* No lookahead (DECISIONS.md D1): whatever comes after the open at which the last signal was
\* filled, a replay has the same cash, shares, trades and curve up to here.
ReplayIgnoresFuture ==
    pc \in {"insample", "forward"} =>
        \A b \in Futures :
            Replay(Subject.strategy, Doctored(b),
                   IF pc = "insample" THEN 1 ELSE Subject.split + 1, play.n) = play

\* What a trade makes of an amount.
Gain(x, t) == Times(x, Over(t.exit, t.entry))

\* The money of a replay is the product of its realised trades and of nothing else: an open
\* entry has it all in shares, at the price paid (engine.py's long only, one position, all-in).
MoneyCompoundsTrades ==
    LET product == FoldLeft(LAMBDA x, t : Gain(x, t), Whole(1), play.trades)
    IN  IF Flat(play) THEN play.cash = product
        ELSE play.cash = Whole(0) /\ Times(play.shares, play.entry) = product

\* The running-peak loop finds the worst decline between any two points of the curve.
DrawdownIsWorstDecline ==
    LET c == play.curve
        decline(p) == Over(Minus(c[p[1]], c[p[2]]), c[p[1]])
        pairs == {p \in (DOMAIN c) \X (DOMAIN c) : p[1] <= p[2]}
    IN  c # <<>> => /\ \A p \in pairs : AtMost(decline(p), MaxDrawdown(c))
                    /\ \E p \in pairs : decline(p) = MaxDrawdown(c)

\* Row holds the two replays of subject s, and the gate's answer to the first.
Evidence(s, row) ==
    /\ row.insample = run_backtest(s.strategy, [k \in 1..s.split |-> s.bars[k]], 1)
    /\ row.forward = run_backtest(s.strategy, s.bars, s.split + 1)
    /\ (row.decision = "promoted") = evaluate(row.insample, active_thresholds)

\* What is stored of a subject is the gate's answer to its bars up to the date alone, and a
\* forward result that starts flat after it (DECISIONS.md D34), when the pass has ended.
RowsRestOnTheirBars ==
    \A i \in DOMAIN rows :
        rows[i].decision # "none" /\ pc = "next" /\ at = Len(rows) => Evidence(universe[i], rows[i])

\* The first grid point whose mean is defined and that no other point beats.
BestPoints(sample) ==
    LET score == [k \in DOMAIN GridPoints |-> mean_forward(sample, GridPoints[k], MIN_PROMOTED)]
    IN  {k \in DOMAIN score :
            /\ Known(score[k])
            /\ \A j \in DOMAIN score : Known(score[j]) =>
                  AtMost(score[j], score[k]) /\ (j < k => Less(score[j], score[k]))}

\* The nested loops of grid_search keep the first best combination on the training
\* candidates, or the strict thresholds when no combination promotes enough of them.
SearchFindsFirstBest ==
    calibration # NoCalibration =>
        LET best == BestPoints(Train(calibration.sample))
        IN  IF best = {} THEN calibration.record.fitted = GATE_THRESHOLDS
            ELSE \A k \in best : calibration.record.fitted = GridPoints[k]

\* The holdout is not fitted (calibrate.py's one number that is not fitted): whatever the
\* held-out candidates had returned, the thresholds they are scored with are the same.
HoldoutUnfitted ==
    calibration # NoCalibration =>
        LET s == calibration.sample
            held(i) == (i - 1) % HOLDOUT_EVERY = 0
            other(r) == [i \in DOMAIN s |->
                            IF held(i) THEN [s[i] EXCEPT !.forward_return_pct = r] ELSE s[i]]
        IN  \A r \in {-10000, 20000} : calibrate(other(r)).fitted = calibration.record.fitted

\* A proposal is never worse on the sample than the strict thresholds, although these may
\* promote fewer candidates than a combination of the grid must.
ProposalNeverWorse ==
    calibration # NoCalibration =>
        LET mean(t) == OrZero(mean_forward(calibration.sample, t, 1))
        IN  AtMost(mean(GATE_THRESHOLDS), mean(calibration.record.proposed))

\* The curve has, for each bar, what was held at its close (engine.py:209, mark-to-market at
\* each close).
CurveMarksTheClose ==
    LET first == IF pc = "insample" THEN 1 ELSE Subject.split + 1
    IN  pc \in {"insample", "forward"} =>
            \A k \in DOMAIN play.curve :
                play.curve[k] = Equity(Replay(Subject.strategy, Bars, first, first + k - 1),
                                       Bars[first + k - 1].close)
=============================================================================
