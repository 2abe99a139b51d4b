SPECIFICATION Spec
CONSTANTS
    N = 3
    Symbol = {a, b}
    Returns <- SmallReturns
    MinOutperformance = 1
    ActiveMax = 0
    MaxPasses = 1
    Holders = {2}
INVARIANTS RetiredPositionsClosed
SYMMETRY SymbolSymmetry
CHECK_DEADLOCK FALSE
