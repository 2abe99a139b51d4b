SPECIFICATION Spec
CONSTANTS
    GATE_THRESHOLDS <- Strict
    GateEnv <- Relaxed
    Grid <- SmallGrid
    MIN_PROMOTED = 2
    HOLDOUT_EVERY = 3
    MIN_IMPROVEMENT_PP = 1
    Universes <- AllUniverses
    MIN_INSAMPLE_BARS = 3
    Futures <- OtherFutures
    SeriesLength = 7
    SeriesSplit = 5
INVARIANTS CurveMarksTheClose
CHECK_DEADLOCK FALSE
