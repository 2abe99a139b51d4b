---------------------------- MODULE RiskControls ----------------------------
(***************************************************************************)
(* The pre-trade controls of risk.py as operators over the local orders    *)
(* table, the broker's view and the kill switch.  The table is a sequence  *)
(* of the option BUY rows in insertion order; of the SELL rows those with  *)
(* a non-terminal status matter, as a set: sells.                          *)
(* Statuses that every control treats alike are one status: "accepted"     *)
(* stands for new, pending_new, partially_filled, held and filled.         *)
(***************************************************************************)
EXTENDS BrokerAccount, Sequences, Functions

CONSTANTS
    Strategy,       \* strategies that can be promoted
    ReconStrategy,  \* the shared placeholder strategy of reconstructed rows
    MaxPositions,   \* limit("MAX_CONCURRENT_POSITIONS")
    MaxPremium,     \* limit("MAX_TOTAL_OPTION_PREMIUM_AT_RISK")
    BrokerTruth     \* BROKER_TRUTH

ASSUME LimitAssumption == MaxPositions \in Nat /\ MaxPremium \in Nat
ASSUME ModeAssumption == BrokerTruth \in BOOLEAN

FIXED_OPTION_CONTRACTS == 1
MAX_OPTION_CONTRACTS_PER_POSITION == 5

_OPTION_CLOSED_STATUSES ==
    {"blocked", "error", "reconciled-closed", "closed"}

\* Statuses that free a strategy's slot where the local rows alone are counted:
\* "closed" is not among them.
_TERMINAL_ORDER_STATUSES == {"blocked", "error", "reconciled-closed"}

Status == _OPTION_CLOSED_STATUSES \cup {"accepted", "unknown", "broker-reconstructed"}

Row == [sid: Strategy \cup {ReconStrategy}, sym: Contract, status: Status, premium: Nat]

\* A closing sell the broker accepted, or answered with "no open position": both
\* statuses are non-terminal.
SellRow == [sid: Strategy \cup {ReconStrategy}, sym: Contract,
            status: {"accepted", "no_position"}]

\* Rows that still represent an open long position.
_open_option_buys(rows) ==
    {i \in DOMAIN rows : rows[i].status \notin _OPTION_CLOSED_STATUSES}

OpenSymbols(rows) == {rows[i].sym : i \in _open_option_buys(rows)}

\* The earliest open row of each contract: the one whose premium is counted.
FirstOpen(rows) ==
    {i \in _open_option_buys(rows) :
        \A j \in _open_option_buys(rows) : rows[j].sym = rows[i].sym => i <= j}

PremiumOf(rows, I) == SumFunctionOnSet([i \in DOMAIN rows |-> rows[i].premium], I)

(***************************************************************************)
(* What the broker reports: premium at risk per contract, 0 for a contract *)
(* it does not report.  A position hides the working orders of its own     *)
(* contract, and of several working orders only the first is counted.      *)
(***************************************************************************)
View == [Contract -> Nat]
EmptyView == [c \in Contract |-> 0]

_broker_option_view(positions, orders) ==
    [c \in Contract |-> IF c \in positions THEN held[c] * Cost[c]
                        ELSE IF c \in orders THEN Cost[c] * FIXED_OPTION_CONTRACTS
                        ELSE 0]

Reported(view) == {c \in Contract : view[c] > 0}

\* Faulty variants: the broker's view alone, without the local rows.
OpenIds_BrokerOnly(rows, view) == Reported(view)
OpenPremium_BrokerOnly(rows, view) == SumFunction(view)

\* Identifiers and premium of _open_positions (BROKER_TRUTH on); an unconfirmed
\* view is empty.
OpenIds(rows, view) == Reported(view) \cup OpenSymbols(rows)

OpenPremium(rows, view) ==
    SumFunction(view)
      + PremiumOf(rows, {i \in FirstOpen(rows) : rows[i].sym \notin Reported(view)})

_live_position_strategy_count(rows, sells, view) ==
    IF BrokerTruth
    THEN Cardinality(OpenIds(rows, view))
    ELSE Cardinality({s.sid : s \in sells} \cup
                     {rows[i].sid : i \in {j \in DOMAIN rows :
                          \/ rows[j].status \notin _TERMINAL_ORDER_STATUSES
                          \/ j \in _open_option_buys(rows)}})

_live_option_premium_at_risk(rows, view) ==
    IF BrokerTruth THEN OpenPremium(rows, view)
                   ELSE PremiumOf(rows, _open_option_buys(rows))

_unconfirmed_and_blind(rows, view, confirmed) ==
    BrokerTruth /\ ~confirmed /\ OpenIds(rows, view) = {}

(***************************************************************************)
(* One check_option asks for the view up to three times: before the blind  *)
(* check, the count and the premium.  A failed read is not memoised, so n  *)
(* is the reading that gets through, the later ones being answered from    *)
(* the memo; n = 4 when none does.                                         *)
(***************************************************************************)
ViewAt(k, n, view) == IF n <= k THEN view ELSE EmptyView

\* The readings that are reached when the ones before them failed: none under
\* the kill switch, only the first when there are no local rows to fall back on.
Reads(killed, rows) ==
    {n \in 1..3 : /\ ~killed
                  /\ n > 1 => OpenSymbols(rows) # {}
                  /\ n = 3 => Cardinality(OpenSymbols(rows)) < MaxPositions}

\* Faulty variant: one position beyond the ceiling passes.
check_option_OneTooMany(c, killed, rows, sells, view, n) ==
    /\ ~killed
    /\ _live_position_strategy_count(rows, sells, ViewAt(2, n, view)) <= MaxPositions

\* check_option: the order of the checks only decides which reason is logged and
\* how many readings are made.
check_option(c, killed, rows, sells, view, n) ==
    /\ ~killed
    /\ ~_unconfirmed_and_blind(rows, ViewAt(1, n, view), n = 1)
    /\ _live_position_strategy_count(rows, sells, ViewAt(2, n, view)) < MaxPositions
    /\ FIXED_OPTION_CONTRACTS <= MAX_OPTION_CONTRACTS_PER_POSITION
    /\ _live_option_premium_at_risk(rows, ViewAt(3, n, view))
         + FIXED_OPTION_CONTRACTS * Cost[c] <= MaxPremium
=============================================================================
