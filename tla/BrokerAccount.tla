--------------------------- MODULE BrokerAccount ---------------------------
(***************************************************************************)
(* The Alpaca paper account behind the MCP server, as the agent's code     *)
(* uses it (mcp_client.py): orders and positions keyed by option contract. *)
(* It is external: nothing under src/ implements it.  A buy order is one   *)
(* contract (cycle.FIXED_OPTION_CONTRACTS); prices are constant, so the    *)
(* cost of a lot is Cost[c], the ask times 100 it was submitted at.        *)
(***************************************************************************)
EXTENDS Integers, FiniteSets

CONSTANTS
    Contract,   \* OCC contract symbols the agent can buy
    Cost,       \* dollars paid for one lot of a contract
    Preheld     \* contracts the account already holds when the agent starts

ASSUME ContractAssumption == IsFiniteSet(Contract)
ASSUME CostAssumption == Cost \in [Contract -> Nat \ {0}]
ASSUME PreheldAssumption == Preheld \subseteq Contract

VARIABLES
    held,       \* filled lots per contract: the open positions
    working,    \* accepted, unfilled buy orders per contract
    closing,    \* lots an accepted, unfilled closing sell has reserved
    history     \* age of the earliest filled buy: "none", "recent" or "old"

broker == <<held, working, closing, history>>

Age == {"none", "recent", "old"}

BrokerTypeOK ==
    /\ held \in [Contract -> Nat]
    /\ working \in [Contract -> Nat]
    /\ closing \in [Contract -> Nat]
    /\ history \in [Contract -> Age]

BrokerInit ==
    /\ held = [c \in Contract |-> IF c \in Preheld THEN 1 ELSE 0]
    /\ working = [c \in Contract |-> 0]
    /\ closing = [c \in Contract |-> 0]
    /\ history = [c \in Contract |-> IF c \in Preheld THEN "recent" ELSE "none"]

Positions == {c \in Contract : held[c] > 0}
OpenBuyOrders == {c \in Contract : working[c] > 0}
OpenOrders == OpenBuyOrders \cup {c \in Contract : closing[c] > 0}

\* The contracts the account is exposed to: it owns them or may own them as
\* soon as a working order fills.
Exposed == Positions \cup OpenBuyOrders

\* Every working buy of the contracts F fills.
FillAll(F) ==
    /\ held' = [c \in Contract |-> IF c \in F THEN held[c] + working[c] ELSE held[c]]
    /\ working' = [c \in Contract |-> IF c \in F THEN 0 ELSE working[c]]
    /\ history' = [c \in Contract |->
                     IF c \in F /\ history[c] = "none" THEN "recent" ELSE history[c]]
    /\ UNCHANGED closing

\* One working buy of c fills.
Fill(c) ==
    /\ working[c] > 0
    /\ held' = [held EXCEPT ![c] = @ + 1]
    /\ working' = [working EXCEPT ![c] = @ - 1]
    /\ history' = [history EXCEPT ![c] = IF @ = "none" THEN "recent" ELSE @]
    /\ UNCHANGED closing

\* A working buy of c expires at the end of the day or is cancelled.
ExpireBuy(c) ==
    /\ working[c] > 0
    /\ working' = [working EXCEPT ![c] = @ - 1]
    /\ UNCHANGED <<held, closing, history>>

\* The closing sell of c fills.
FillClose(c) ==
    /\ closing[c] > 0
    /\ held' = [held EXCEPT ![c] = @ - closing[c]]
    /\ closing' = [closing EXCEPT ![c] = 0]
    /\ UNCHANGED <<working, history>>

\* The closing sell of c expires or is cancelled, its lots stay held.
ExpireClose(c) ==
    /\ closing[c] > 0
    /\ closing' = [closing EXCEPT ![c] = 0]
    /\ UNCHANGED <<held, working, history>>

\* The holding limit of the time stop (two days) passes.
DaysPass ==
    /\ \E c \in Contract : history[c] = "recent"
    /\ history' = [c \in Contract |-> IF history[c] = "none" THEN "none" ELSE "old"]
    /\ UNCHANGED <<held, working, closing>>

\* The broker accepts a buy order for one lot of c.
AcceptBuy(c) ==
    /\ working' = [working EXCEPT ![c] = @ + 1]
    /\ UNCHANGED <<held, closing, history>>

\* The broker accepts a close of the whole position in c; it refuses one while
\* another sell has the lots reserved.
AcceptClose(c) ==
    /\ held[c] > 0
    /\ closing[c] = 0
    /\ closing' = [closing EXCEPT ![c] = held[c]]
    /\ UNCHANGED <<held, working, history>>
=============================================================================
