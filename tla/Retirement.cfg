SPECIFICATION Spec
CONSTANTS
    N = 3
    Symbol = {a, b}
    Returns <- SmallReturns
    MinOutperformance = 1
    ActiveMax = 0
    MaxPasses = 2
    Holders = {2}
INVARIANTS RegretTypeOK RevisionsJustified OneVerdictPerPass RetiredSharesClosed
SYMMETRY SymbolSymmetry
CHECK_DEADLOCK FALSE
