--------------------------- MODULE MCRegretLedger ---------------------------
(* TLC instances of RegretLedger: returns at and beside both limits.       *)
EXTENDS RegretLedger

SmallReturns == -1..2
SymbolSymmetry == Permutations(Symbol)
=============================================================================
