--------------------------- MODULE MCTradingAgent ---------------------------
(* TLC instances of TradingAgent: two or three contracts, costs 1 and 2.   *)
EXTENDS TradingAgentProperties, TLC

CONSTANTS c1, c2, c3

UnitCost == [c \in Contract |-> 1]
RisingCost == [c \in Contract |-> CASE c = c1 -> 1 [] c = c2 -> 2 [] OTHER -> 3]
Symmetry == Permutations(Contract)
=============================================================================
