---------------------------- MODULE PromotionGate ----------------------------
(***************************************************************************)
(* The promotion gate (gate.py). Percentages are in hundredths.            *)
(***************************************************************************)
EXTENDS Integers, TLC

CONSTANTS
    GATE_THRESHOLDS,    \* the strict thresholds
    GateEnv             \* the thresholds that the GATE_* variables set

active_thresholds == GateEnv @@ GATE_THRESHOLDS

\* The thresholds that a backtest fails.
failed(metrics, t) ==
    {k \in DOMAIN t :
        \/ k = "min_total_return_pct" /\ metrics.total_return_pct < t[k]
        \/ k = "max_drawdown_pct" /\ metrics.max_drawdown_pct > t[k]
        \/ k = "min_trades" /\ metrics.num_trades < t[k]}

evaluate(metrics, t) == failed(metrics, t) = {}
=============================================================================
