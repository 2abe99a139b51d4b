----------------------------- MODULE Calibration -----------------------------
(***************************************************************************)
(* The calibration of the gate (calibrate.py): a grid search over the      *)
(* thresholds for the best mean forward return, and the same search on     *)
(* two thirds of the candidates, scored on the rest.                       *)
(***************************************************************************)
EXTENDS PromotionGate, Fractions, Sorting, SequencesExt

CONSTANTS
    Grid,               \* threshold -> the values that are tried, in their order
    MIN_PROMOTED, HOLDOUT_EVERY,
    MIN_IMPROVEMENT_PP  \* in hundredths of a percentage point

\* A candidate is [strategy_id, insample, forward_return_pct].
_promotes(c, t) == evaluate(c.insample, t)

mean_forward(candidates, t, min_promoted) ==
    LET promoted == {i \in DOMAIN candidates : _promotes(candidates[i], t)}
        total == FoldLeft(LAMBDA sum, c : sum + (IF _promotes(c, t) THEN c.forward_return_pct
                                                 ELSE 0), 0, candidates)
    IN  IF Cardinality(promoted) < min_promoted THEN None
        ELSE Frac(total, Cardinality(promoted))

\* The grid in the order of its three nested loops.
GridPoints ==
    LET tr == Grid.min_total_return_pct
        dd == Grid.max_drawdown_pct
        tt == Grid.min_trades
        point(i) == [min_total_return_pct |-> tr[(i \div (Len(dd) * Len(tt))) + 1],
                     max_drawdown_pct |-> dd[((i \div Len(tt)) % Len(dd)) + 1],
                     min_trades |-> tt[(i % Len(tt)) + 1]]
    IN  [k \in 1..(Len(tr) * Len(dd) * Len(tt)) |-> point(k - 1)]

Unfit == [thresholds |-> GATE_THRESHOLDS, score |-> None]

\* Faulty variant: of equal combinations the later is kept.
Try_Last(candidates, min_promoted, best, t) ==
    LET score == mean_forward(candidates, t, min_promoted)
    IN  IF Known(score) /\ (Known(best.score) => AtMost(best.score, score))
        THEN [thresholds |-> t, score |-> score] ELSE best

\* The next combination takes the lead when it beats the best so far.
Try(candidates, min_promoted, best, t) ==
    LET score == mean_forward(candidates, t, min_promoted)
    IN  IF Known(score) /\ (Known(best.score) => Less(best.score, score))
        THEN [thresholds |-> t, score |-> score] ELSE best

\* The first combination that no other beats; without any, the thresholds stay.
grid_search(candidates, min_promoted) ==
    FoldLeft(LAMBDA best, t : Try(candidates, min_promoted, best, t), Unfit, GridPoints)

\* Every HOLDOUT_EVERY-th candidate, the first included, is held out. The candidates come
\* in the order of their ids.
HeldOut(candidates) == {i \in DOMAIN candidates : (i - 1) % HOLDOUT_EVERY = 0}
Chosen(candidates, indices) ==
    LET order == Sorted(indices, <) IN [k \in DOMAIN order |-> candidates[order[k]]]
Holdout(candidates) == Chosen(candidates, HeldOut(candidates))

\* Faulty variant: the fit sees every candidate.
Train_Everything(candidates) == candidates

Train(candidates) == Chosen(candidates, DOMAIN candidates \ HeldOut(candidates))

\* Means are recorded to four places.
Recorded(x) == IF Known(x) THEN Frac(Nearest(Times(x, Whole(100))), 100) ELSE None
OrZero(x) == IF Known(x) THEN x ELSE Whole(0)
Improvement(new, old) == IF Known(new) /\ Known(old) THEN Recorded(Minus(new, old)) ELSE None

\* Faulty variant: the best combination is proposed, however little it gains.
Proposal_Always(candidates) ==
    LET fit == grid_search(candidates, MIN_PROMOTED)
        current == Recorded(mean_forward(candidates, GATE_THRESHOLDS, 1))
        score == IF Known(fit.score) THEN fit.score ELSE current
    IN  [thresholds |-> fit.thresholds,
         gain |-> Recorded(Minus(OrZero(score), OrZero(current)))]

\* The fit to the full sample, given up when it gains too little.
Proposal(candidates) ==
    LET fit == grid_search(candidates, MIN_PROMOTED)
        current == Recorded(mean_forward(candidates, GATE_THRESHOLDS, 1))
        score == IF Known(fit.score) THEN fit.score ELSE current
        gain == Recorded(Minus(OrZero(score), OrZero(current)))
    IN  IF Less(gain, Whole(MIN_IMPROVEMENT_PP))
        THEN [thresholds |-> GATE_THRESHOLDS, gain |-> Whole(0)]
        ELSE [thresholds |-> fit.thresholds, gain |-> gain]

\* The record of a calibration. The verdict on the fit to the full sample is that of the
\* fit to the training candidates.
calibrate(candidates) ==
    LET proposal == Proposal(candidates)
        fitted == grid_search(Train(candidates), MIN_PROMOTED).thresholds
        gain_on(sample) == Improvement(mean_forward(sample, fitted, 1),
                                       mean_forward(sample, GATE_THRESHOLDS, 1))
        held == gain_on(Holdout(candidates))
        survives == Known(held) /\ Less(Whole(0), held)
    IN  [proposed |-> proposal.thresholds, gain |-> proposal.gain,
         fitted |-> fitted, train |-> gain_on(Train(candidates)), holdout |-> held,
         verdict |-> IF Less(proposal.gain, Whole(MIN_IMPROVEMENT_PP)) THEN "no-improvement"
                     ELSE IF survives THEN "survives-holdout" ELSE "does-not-survive-holdout"]
=============================================================================
