# Verification of the Alpaca self-auditing trading agent

TLA+ modules that model the agent's core, the TLC runs that check them, and
TLAPS proofs of what matters most. `PROJECT.json` lists components, runs,
mutants, the map from definitions to source lines, findings, hazards and
theorems; this file explains them.

## 1. The system

The agent (Python, one process) generates rule-based strategies with a language
model, backtests and gates them, buys one option contract for each promotion
through an MCP server in front of an Alpaca paper account, sweeps open positions
for exits, and keeps an audit ledger in SQLite. It is deployed on a host that
wipes its disk on every restart.

| Component | State | Operations | Hard parts |
|---|---|---|---|
| Broker account (external; `mcp_client.py`) | orders, positions | accept a buy or a close, fill, expire | moves between any two calls; a reply may be lost |
| Risk controls (`risk.py`) | memoised broker view (20 s), kill switch | `check_option` | stale view, failed reads, lots counted once |
| Reconciliation (`reconcile.py`) | `orders` rows | `backfill_positions`, `reconcile_orders` at startup | repeated after every restart; two reads that are not one |
| Exit sweep (`mgmt.py`) | `orders` rows | `run_management_sweep` | close retried for ever; which row is closed |
| Cycle (`cycle.py`) | all tables | `run_cycle`, per candidate: bars, backtest, decision, status, risk, order, row | any call may raise; crash between broker and row |
| Scheduler (`scheduler.py`) | `scheduler_ticks` | `tick`: clock, sweep, `_entry_due`, cycle | runs beside the endpoint; restart must not repeat a cycle |
| Cycle endpoint (`api.py`) | `_cycle_state` | `trigger_cycle`, `_run_cycle_bg` | background task, rate limit, failure paths |
| Snapshots (`api.py`, `db-snapshot.yml`) | published copy | `db_snapshot`, workflow, `_bootstrap_db` | pulled in the middle of a cycle; restored old; restore fails |
| Store (`db.py`) | the SQLite file | inserts, updates | every write is a commit of its own |
| Contract selection (`options.py`) | none | `select_contract` | ranking |
| Bar cache (`data.py`) | bars, covered ranges | `get_bars` | today's bar covered for ever |
| Engine, gate (`engine.py`, `gate.py`) | none | `run_backtest`, `evaluate` | decide on a close, fill at the next open |
| Regret ledger (`regret.py`, `retire.py`) | statuses, decisions | `run_regret_ledger` | several writes, a close, a post-mortem |
| Calibration (`calibrate.py`) | proposals | `calibrate` | holdout, ties, a pass that is not finished |
| Generation (`generator.py`, `seeds.py`) | `strategies` rows | `generate`, `generate_with_seeds`, `insert_strategy` | retries, duplicates within and across responses, two cycles inserting one key |
| Panels (`account.py`, `summary.py`) | two `system_state` rows, two locks | `snapshot`, `get_or_generate` | double-checked lock, stale fallback, restored copies |

The components meet in three places: the `orders` table (written by cycle,
sweep and reconciliation, read by the risk controls), the broker account
(written by cycle and sweep, read by everybody), and the ledger tables (written
by the scheduler's thread and by request threads at the same time).

What makes them correct:

* risk controls: the account never holds or may come to hold more contracts
  than the ceiling, nor more premium; a memoised view hides nothing;
* reconciliation: it rebuilds each lost position once and closes no row of a
  position that is open;
* sweep: a position past its time stop leaves the account, and frees its slot;
* cycle: each candidate has its decision and each promotion its order row, and
  no order row lacks a decision;
* scheduler: no entry cycle is repeated by a restart; each run is closed;
* endpoint: one cycle at a time, and never locked for good;
* snapshots: a copy is consistent and published history is not lost;
* bar cache: a call fetches what is not covered, no more and no less, and answers
  with final bars;
* engine: a replay knows nothing of the future, and its cash, shares, trades and
  curve agree;
* calibration: the first of the best thresholds, fitted without the holdout, and no
  proposal that is worse than what is there;
* regret ledger: the retirements are those its rule demands, each carried out
  once, and none leaves a position behind;
* generation: nothing valid is lost to a retry, no strategy is taken twice, and
  each strategy has one row that keeps the response it came from;
* panels: refreshed once in a TTL however many ask, and no answer goes back in time.

## 2. The modules

| Module | What it is |
|---|---|
| `BrokerAccount` | the account: `held`, `working`, `closing`, `history` per contract |
| `RiskControls` | `risk.py` as operators over rows, broker view and kill switch |
| `TradingAgent` | the composition: scheduler thread, endpoint thread, account, restarts |
| `AccountBook` | abstract specification: a book that gains a contract only into a free slot |
| `TradingAgentProperties` | invariants, action properties, refinement, fairness, liveness |
| `MCTradingAgent` | costs for TLC |
| `TradingAgentProofs` | theorems about the agent: types, the position and the premium ceiling, account book, startup |
| `CycleLedger` | the ledger tables, cycles in several threads, the tick and the endpoint |
| `LedgerProperties` | what the ledger promises |
| `LedgerProofs` | theorems about the ledger |
| `LedgerSnapshots` | `CycleLedger` with the published copy and restores |
| `BarCache`, `BarCacheProofs` | `data.py`: date arithmetic, `get_bars` in several threads, the market's day; theorems about it |
| `DisplayCaches` | the cached panels of `account.py` and `summary.py` |
| `Generation`, `GenerationProofs` | `generator.py`, `seeds.py` and the strategies table, and theorems about it |
| `MCStoreUsers` | the TLC instance of the three above |
| `StoreProofs` | theorems about the panels, and about the three users side by side |
| `RegretLedger`, `MCRegretLedger`, `RegretProofs` | the retirement rule and the pass that carries it out; theorems about both |
| `Sorting` | Python's `sorted`, of a finite set |
| `SequenceFolds` | lemmas: induction, what a fold computes, sorting |
| `Fractions` | exact fractions, for the code's floats |
| `ReplayEngine` | `engine.py`: indicators, rules, the backtest loop |
| `PromotionGate` | `gate.py` |
| `Calibration` | `calibrate.py` as operators over candidates |
| `AsOfEvaluation`, `MCAsOfEvaluation` | the first half of a pass of the ledger: replays bar by bar, rows, decisions, and the calibration that reads them |
| `AsOfProofs` | theorems about the replays, the rows and the calibration |

### TradingAgent

`orders` is the sequence of option BUY rows, `sells` the set of SELL rows with a
non-terminal status, `memo` is `_broker_cache`. `pc[t]` says where thread `t` stands; a
candidate passes `next` (selection), `check` (`check_option`, which reads the broker or
the memo), `submit` (`submit_option_order`) and `insert` (`insert_order`); an insert
that raises, after the broker has accepted the order too, ends the cycle (`raised`,
`EndCycle`) while the process and its memo live on. Every other thread, the account, the
operator and a crash can come in between. The sweep passes `sweep` (`close_position` of
one contract) and `record` (its rows; an insert that raises ends the sweep,
`SweepRaises`). The startup sync passes `boot` (backfill) and `sync` (reconcile). `Env`
names the troubles a configuration allows; they are listed in the module's header.

A read of the account is two calls, `list_positions` and `list_open_orders`, and orders
may fill between them (`BetweenReads`): `"racyRead"` allows it in `check_option`,
`"racySync"` in the reconciliation. A failed read is not memoised, so one `check_option`
may read three times; `Reads` says which of the three readings are reached and `ViewAt`
what each of them answers. With BROKER_TRUTH off the count takes rows and sells of
every status outside `_TERMINAL_ORDER_STATUSES`, the sweep's "closed" rows and the
"no_position" sells included: these keep a slot for ever.

Abstractions: statuses every control treats alike are one; prices are constant,
so a lot costs `Cost[c]`; exit rules other than the time stop may fire for any
position; `_entry_due` may answer either way (CycleLedger has its rule); a buy
order is one contract, as `FIXED_OPTION_CONTRACTS` says, and fills whole. DRY_RUN
and the equity path (`EXPRESSION` not "options") are not modelled. Rows with a
terminal status from the start (skipped, failed closes) are not represented,
except blocked and error buys, which `_matching_buy` can pick.

Between two ticks the scheduler waits `TICK_INTERVAL_S` (600 s), longer than
`_BROKER_TTL_S` (20 s). The flag `memo.prior` carries this: a view read before
the wait is stale after it. Without it the ceiling does not hold.

### CycleLedger and LedgerSnapshots

`db` is the SQLite file as far as the ledger goes: runs with their decisions and
order rows grouped under them, strategy statuses, and the time of the last
entry-cycle tick. Each thread (the scheduler, and the workers that serve POST
/api/cycle) walks through a cycle write by write, and any call may raise.
`_entry_due` is modelled with both markers, the local tick and the account's
latest order, which closing sells of the sweep advance too. `trouble` is the one
kind of trouble of a behaviour: a crash, failing broker reads, or failing
database writes outside a cycle. `placed` is an auxiliary variable no action
reads. A cycle may decide any strategy that is stored, not only the ones it
generated: the seeds repeat in every cycle.

`LedgerSnapshots` adds the workflow (pull, then force-push) and restarts that
find the old file, no file and the published copy, or no file and no copy.

### BarCache and RegretLedger

`BarCache` has one symbol and timeframe, as every query of `data.py` does. A day
is a number, a bar `none`, `partial` or `final`: what the feed had of the day when
it was asked. A call looks up the coverage, then for each gap fetches, stores and
records in three steps, then reads; other threads, the clock and failures come in
between. `early` is an auxiliary variable. `_covered_intervals` and
`_missing_ranges` are folds of one row at a time (`Merge`, `PassRange`), as the loops are, and
are compared with a definition of the gaps over sets (`Gaps`).

`RegretLedger` takes what bars, engine and gate say of each strategy as `evidence`
chosen at the start, and carries a pass out write by write; only the insertion of the
run and of its date are one step (regret.py:233-234), since nothing reads the date
before the first verdict. Passes on the same
date may follow a pass that died; the ledger is run by hand, so it stops after
`MaxPasses` and deadlock is not checked there. `row` and `position` keep what
the ledger reads, the status of a strategy's buy row, apart from what the account has
for it: a buy that is not filled (`working`), shares of the symbol, shares a
closing order has reserved (`selling`), an option contract of another name, or nothing.
A row of any status may come with shares: `_open_position_symbol` takes "filled" and
"error" for no position, and the shares behind such a row stay. An accepted close
is an order, which the account fills or lets expire in steps of its own; the auxiliary
`escaped` marks the strategies whose shares came back, or came only after the
close, so that `RetiredSharesClosed` can leave them out. No step of a pass looks at an
order again. Cycles that decide the same strategies meanwhile are left out: a
promotion of `cycle.py:286` would change the status of a retired strategy, and the
last conjunct of `RevisionsJustified` holds as long as none comes.

### DisplayCaches and Generation

`account.snapshot` and `summary.get_or_generate` have the same control over a row
of `system_state` and a lock of their own, so `DisplayCaches` has one panel that
stands for either. `row` is the cached row, reduced to the moment it shows (`shows`)
and the time stamped on it (`at`); a request looks at it (`snapshot`), waits for
the lock and looks again (`EnterLock`), reads twice (`ReadFirst`, `ReadRest`),
and stores. Only the first read can fail a refresh (`FallBack`): positions that
cannot be read count as none, and prose is replaced by a rendering of the tables.
The published copy is scrubbed of both rows (`api.py`), and a new process may find
the old file, the copy, or none. `shown` and `floor` are auxiliary.

In `Generation` a strategy is its `dedup_key` and a wording, and a response of the model
is a sequence of items, each valid or not. `_call_llm` is one call with the collapse of
its items, one by one (`Keep`), into those seen before; `Collect` takes the first
`Asked` and appends the seeds; `select_id` and `insert_strategy` are the two statements
of `db.insert_strategy`, with the other thread in between and the unique index that
makes the second INSERT raise. `CycleLedger` keeps of this only that a cycle's
strategies are stored before the first is decided, or that generating them fails.

The bar cache, a panel and generation share no row and no lock, so a step of one
commutes with any step of another, and no property relates two of them.
`MCStoreUsers` therefore gives a behaviour the threads of one of them, chosen at the
start, instead of the product of all.

### ReplayEngine to AsOfEvaluation

Bars are counted from 1: bar n is `bars[n - 1]`. A `play` is what the loop of
`run_backtest` keeps between two rounds, and `ReplayBar` is one round: the signal on the
close of bar n, the fill at the open of bar n + 1, the point of the curve. Money is in
units of the starting cash and exact, percentages are in hundredths and rounded as the
code rounds them. The indicators take the whole series and a bar number, as the code
does, so that a window can reach too far and `ReplayIgnoresFuture` can fail. `Strategy`
is the grammar of schema.py: one condition or two that are joined, of an indicator with
a period of 2 to 250 bars against another or a constant; `UniversesAssumption` asks it
of every subject, with positive prices. A pass replays a subject twice, on the bars up
to the date and from there on with the earlier bars as history, then writes two
backtests and a decision in three steps. `Calibrate` may come at any moment: it joins
what is stored.

`GATE_THRESHOLDS` and `GateEnv` are two constants: the ledger's decisions use
`active_thresholds` (regret.py:275 passes none), the calibration starts from the
strict ones. gate.py:20-22 says the ledger reads the strict values; it does so
only while no `GATE_*` variable is set.

## 3. The runs

Passing runs:

| Run | Properties | What it shows |
|---|---|---|
| `AgentCeiling` | `TypeOK PositionCeiling ViewCoversAccount ReconstructedOnce RefinesAccountBook SyncKeepsOpenRows SyncFreesSlots` | the scheduler alone, BROKER_TRUTH on, keeps the ceiling and implements the account book through crashes, wipes, orders that expire, replies without a status, rows that cannot be inserted and orders that fill between the two reads of the startup sync |
| `AgentPremium` | `OneLotPremiumCeiling` | contracts of cost 1, 2 and 3, one held from before: one lot of each exposed contract fits the premium ceiling |
| `AgentExits` | `TimeStopCloses` | local-rows mode: an aged position is closed in the end, through failed reads, refused, expired and lost closes and a moving kill switch |
| `LedgerAudit` | `TypeOK FinishedRunsComplete OrdersBackedByDecisions OneApiCycle EntrySpacing RunsClose ApiReopens` | scheduler and two workers, each trouble; every run closes, the endpoint reopens for a task that has connected |
| `LedgerRestarts` | `SnapshotsTypeOK FinishedRunsComplete EntrySpacing` | restarts on old, restored and empty databases |
| `StoreUsers` | `StoreTypeOK AnswersComplete FetchesOnlyMissing NeverOlder RefreshesSpaced StaleIsNewest IdsNameOneRow RowsKeepTheirSource BatchIsFirstDistinct` | bar cache: two threads, three days, one of them a holiday; a panel: three threads; generation: two threads with two retries; calls and writes that fail anywhere, restarts |
| `AsOf` | `AsOfTypeOK ReplayIgnoresFuture MoneyCompoundsTrades DrawdownIsWorstDecline RowsRestOnTheirBars SearchFindsFirstBest HoldoutUnfitted ProposalNeverWorse` | every series of seven bars of three shapes under three strategies, which use each indicator and operator; every choice of four subjects from a menu of five |
| `Retirement` | `RegretTypeOK RevisionsJustified OneVerdictPerPass RetiredSharesClosed` | every evidence on three strategies of two symbols, two passes, a row and a position of every kind, buys and closes that fill or expire |

Runs that find a disagreement between the code and what is written about it:

| Run | Property | What happens |
|---|---|---|
| `AgentTwoCycles` | `PositionCeiling` | the scheduler's cycle is not under `_cycle_lock`; two cycles pass the check before either submits |
| `BarFresh` | `FreshBarCovered` | today's bar is fetched before the close and its day covered for ever |
| `AsOfCurve` | `CurveMarksTheClose` | the curve values at a bar's close the position that is entered or left at the next open; the drawdown the gate reads is taken from it |
| `RetiredOption` | `RetiredPositionsClosed` | the close names the underlying; the option contract stays |

More such behaviours have no run of their own. In `TradingAgent` a blocked second
candidate for a held contract becomes the "matching" row of its close
(mgmt.py:219), and the real row keeps its slot until the next restart. In
`CycleLedger` a background task that cannot connect, which it does before its `try`
(api.py:651), leaves its run open and the endpoint locked: `RunsClose` is stated for
the other troubles, `ApiReopens` for tasks that have connected. An order that fills
between the two reads of the reconciliation is in neither answer, and its row is
closed (reconcile.py:82): `SyncKeepsOpenRows` says that this is the only way in which
the row of an exposed contract goes, and `PositionCeiling`, checked with that race, that
the broker's view makes up for it. The same race in `check_option` is not made up for:
with `"racyRead"`, an order whose row a crash or a failed insert has kept out of the
table, and which fills between the two calls, is in no reading and no row, and the
ceiling fails. Several lots of
one contract bought in one cycle are counted once, so the total premium can exceed
its ceiling; only `OneLotPremiumCeiling` holds. And in `LedgerSnapshots` a failed
restore, followed by the next publication, replaces the published history.

Four more concern generation and the panels. `insert_strategy` says a batch can be
persisted "without worrying about collisions" (db.py:247), but of two cycles that
insert one key between their SELECT and INSERT, the second gets an IntegrityError
and its whole cycle fails. A call to the model that raises on a retry throws away
the valid strategies of the calls before it, and with them the cycle's.
`get_or_generate` says "a generation failure with a cache present returns the stale
cache" (summary.py:255); a model that fails never gets that far, since `generate`
answers with the fallback rendering, which replaces the last note for an hour. And
seeds are "stored with `source='manual'`" (seeds.py:13) unless the model wrote the same
key before; a seed that the model also wrote in this cycle is decided twice,
and may buy two lots of one contract.

Each property of a passing run is also checked against a faulty variant of the
code, defined beside the operator it varies (`..._OneTooMany`, `..._LocalOnly`
and so on): TLC must find it violated.

### Bounds

`CycleN` candidates per cycle, `MaxRows` rows, `MaxLots` lots per contract,
`MaxRuns` runs, `MaxTime` clock units, `MaxCopies` snapshots. Two contracts and a
ceiling of one position are the least for which the ceiling can be exceeded; two
candidates the least for which the second is checked on the view of the first;
three rows the least for which a contract has a rebuilt, a live and a blocked
row. `MaxRows` bounds selection only, so every reachable state within it goes on
to be swept, reconciled and restarted; it bounds the buys that `TimeStopCloses` has to
outlast, too. `"rowFails"` is therefore not among the troubles of `AgentExits`: buys
without rows would have no bound. In the ledger, two runs and three threads
are the least in which two workers and the scheduler can overlap; two candidates
the least in which one fails after another succeeded (`LedgerRestarts`; `LedgerAudit`, where
liveness is checked as well, has one). `LedgerRestarts` has one
run per life of the database and as many lives as it likes.

Three days are the least with two gaps around a covered day, and two threads the
least that fill one gap twice. Three strategies are the least in which two actives
compete for a shadow or two shadows for an active; the returns lie on, below and
above both limits of the policy. One of the three may have a buy row (`Holders`); which
one makes no difference to the retirements, as evidence and symbols are any. The
two symbols are symmetric: no definition tells one from another.

Seven bars, five before the date, let every indicator of period two be defined and
a position be entered and left; the menu has a subject for each answer of the gate
under the strict and the loosened thresholds, and both verdicts on a holdout come
up. Four candidates with two to promote are the least with two to train on and two
held out.

Three threads are the least of which one refreshes, one waits behind it and one
answers from the row meanwhile; a TTL of two in four units of time (`EndOfTime`) lets
a row expire twice. Three rules and two wordings give responses that repeat a strategy
within a response and across two, with another wording, that hold more than `Asked`,
invalid items alone and beside valid ones, and the seed itself; two threads generate again and
again, into a table that the other has filled or a restart has emptied. Days and threads of
the bar cache are as above; its phases do not change while another user runs.

Sizes, in distinct states: 1,783,536 in `AgentCeiling`, 2,438,324 in `AgentPremium`,
2,429,750 in `Retirement`, 809,568 in `StoreUsers`.

Deadlock is checked in every run but those of the regret ledger and of its evidence: in
each state the account, the operator, the clock or a thread can move.

### Fairness

`AgentExits`: the scheduler's thread keeps running (`_loop` never lets an
exception end it), and what the sweep retries at every tick for ever, the read of
the positions, the close of a contract, eventually gets through, and the broker
eventually fills an accepted close (strong fairness: each may fail arbitrarily
often). Crashes are not among its troubles: a process that dies for ever at the
same point gets nothing done. `LedgerAudit`: weak fairness of each thread's steps
only, which a running process gives them.

## 4. What is proved

TLAPS proves, for all values of the constants that meet the named assumptions of
the modules, 40 theorems. Each states a property that a run checks on a small instance,
except three type theorems (`DisplayTypeCorrect`, `CacheTypeCorrect`,
`GenerationTypeCorrect`), whose invariants the run checks as the conjuncts of
`StoreTypeOK`. No theorem has a hypothesis of its own but `Deployed`, `ReconStrategy \notin
Strategy` and, for the premium, that what the account held at the
start fits; each is explained where it is used.

Several of the properties are about what a loop over a list computes: the merge of
date ranges, the plan of the gaps, the collapse of responses, the retirement rule. A
predicate cannot be handed to the library's induction theorems with these provers; a
set can. `SequenceFolds` therefore proves induction over naturals for a set
(`Smallest`, `Induction`), and from it what `FoldLeft` computes: there is a sequence of
intermediate results that starts at the base and makes one step of the loop per
element (`FoldRun`). A module instantiates it with its own step. The same induction
gives what sorting returns: the sequence in which an element's place is the number of
those before it (`RankedSequence`). A proof about a loop is then about one round:
the set of indices at which the loop's invariant holds has 0 and is closed under
successor.

### The agent

All are in `TradingAgentProofs`.

* `TypeCorrect`: `Spec => []TypeOK`, with no further assumption. Its invariant `TypeInv`
  adds to `TypeOK` that lots reserved by a closing sell are held.
* `CeilingHolds`, `ViewHolds`, `BookImplemented`: `PositionCeiling`,
  `ViewCoversAccount` and `RefinesAccountBook`, under
  `Deployed`: BROKER_TRUTH on, the scheduler the only trader, the reads of `check_option`
  succeed and see one account (no `"readFail"`, no `"racyRead"`), no reply of a buy is
  lost, and the account starts within the ceiling. The race in the reconciliation and
  rows that cannot be inserted are not excluded.
* `PremiumHolds`: `OneLotPremiumCeiling`, under `Deployed` and if one lot of each contract
  held at the start fits the premium ceiling.
* `RebuiltOnce`: `ReconstructedOnce`, if no strategy is the placeholder a rebuilt
  row names.
* `OpenRowsKept`: `SyncKeepsOpenRows`, with no further assumption: the race between
  the two reads is one of the two cases the property allows, and the theorem says that
  there is no third.
* `SlotsFreed`: `SyncFreesSlots`, with no further assumption and with one trader or two.
  The property is about BROKER_TRUTH; with it off the count also takes closed rows and
  sells, and no reconciliation frees those slots.

Why an inductive invariant is needed: the ceiling is checked in one step and used
in a later one, on a view read in an earlier one. `CeilingInv` therefore says
that a memoised view is in use inside one entry cycle only, or marked as read
before the wait; that view, open rows and the candidate in hand cover what the
account is exposed to; and that a candidate which passed the check still fits
when it is submitted. The proof shows that whatever the account does on its own
only shrinks its exposure (`BrokerShrinks`), that a fresh view reports every
exposed contract (`ViewReports`), that a row inserted after an accepted
submission keeps the cover (`InsertShows`), and that a passed check leaves a slot
(`Slots`). The refinement follows: a step enters at most one contract, and only
while there is a slot.

The premium ceiling is measured on something else than what it bounds: the check adds up
the broker's view and the premium of the first open row of each contract the view lacks
(`OpenPremium`), and the property sums one lot of each exposed contract. `PremiumInv`
says that neither source undercounts: a row's premium is at least a lot of its contract
(an inserted row is one lot, a reconstructed one all the lots of its position), a memoised
view has at least one lot of what it reports, and a candidate which passed the check is
still paid for when it is submitted. With the cover of `CeilingInv`, `PremiumCovers` then
bounds one lot of everything exposed by what the check counted. The sums are the
community modules' folds over a set, whose elements CHOOSE takes in an order nobody knows;
that the order does not matter (`SumOut`), that a sum is monotone (`SumAtMost`), and that
indices bound what they stand for (`SumImage`) are proved by induction over finite sets
(`FiniteInduction`).

`ReconstructedOnce` is inductive beside `TypeInv`: a backfill adds rows only for
contracts no row names, one each (`RowsOfOrphans`), and no other step changes the strategy
or the contract of a row. Under BROKER_TRUTH no run has failed reads, and none has
`"racyRead"`: what is known there is what `TypeCorrect`, `RebuiltOnce`, `OpenRowsKept` and
`SlotsFreed` say. The other two startup theorems are about one step, and rest
on what it does to each row (`Settled`).

### The ledger

All are in `LedgerProofs`.

* `LedgerTypeCorrect`: `TypeOK`. Its invariant `JobsInv` adds that each
  thread that works has an open run of its own (`OwnRuns`): otherwise two
  threads could write into one run and nothing below would hold.
* `OneTaskAtATime`: `OneApiCycle`. Its invariant `FlagHeld` says that a request thread with
  a task holds the running flag and is the only one.
* `EntriesSpaced`: `EntrySpacing`. Its invariant `OrdersSeen` says that the account's last
  order is not older than the last one a cycle placed; and that where reads of it may fail, so
  that no write does, the tick row stands for that order between two cycles. A trouble
  takes away one of the two markers `_entry_due` reads, never both.
* `DoneRunsComplete`, `OrdersEarned`: `FinishedRunsComplete` and `OrdersBackedByDecisions`.

The last two count rows that a thread writes one at a time, next to what it keeps in
local variables. `AuditInv` says, for each stage of a cycle, how far the rows have come
(`Progress`): decisions written and candidates left add up to the candidates;
promotions and orders equal the thread's count of promotions, or differ by
one between the decision and the order; and in that gap one more order of the
strategy in hand is still backed (`Owed`). Each closed run is `Sound`, and a write
into one run leaves the others as they are (`AuditKeptWrite`). Rows
are counted with cardinalities, so the proofs need no induction over data
(`DecisionAdded`, `OrderAdded`).

Through restores, three more theorems about `SnapshotsSpec`: `SnapshotsTypeCorrect`,
`RestoredRunsComplete` (both audit properties) and `RestoredEntriesSpaced`. A copy is a
ledger pulled in the middle of anything, so what the theorems need of it is what
`AuditInv` says of the rows without the threads that write them (`SoundCopy`), and that
holds at every step. The entry interval needs nothing of a copy at all: after a
restart that lost the tick, `OrdersSeen` still has the account's last order.

### Bar cache

`CacheTypeCorrect`, `AnswersAreComplete` (`AnswersComplete`) and `FetchesAreMissing`
(`FetchesOnlyMissing`), in `BarCacheProofs`, for any number of days and threads, any
calendar and any set of recorded ranges.

* The arithmetic first: `CoveredIntervals` says that the merged ranges are sorted, cover
  exactly the recorded days and lie at least a day apart, `MissingRanges` that what
  is left of a request is its uncovered days, in maximal runs. Both are inductions
  over the rounds of the code's loops; `GapsExact` and `PlanExact` compare the result
  with the definition over sets. `FetchesAreMissing` is about one step and rests
  on them alone.
* `CacheInv` says that each covered day has been answered: its final bar is stored, or
  the last answer stored for it had none (`Answered`): a call that fetched before the
  close and stores after another has stored the final bar takes that day from every
  later answer (data.py:229), and the theorem leaves such days out. Each day a call has
  asked for is covered or still in one of its gaps, and of a gap about to be recorded
  every day has been answered (`Standing`). So a day that another thread covered
  meanwhile needs no second look, and a failure between a store and its record leaves
  more answered than covered, never less.

### Regret ledger

`RegretTypeCorrect`, `OneVerdictEach`, `RetiredSharesGone` and `RevisionsStable`
(`RegretProofs`), for any strategies, symbols, returns, policy and number of passes.

* The rule first: `PairsMatched` says that the pairs `find_retirements` returns are a
  matching of actives with shadows that beat them, and a stable one. Its induction goes
  over the actives in the order of the sort: after k of them, each active of the first k
  that a free shadow beats has been paired, with a shadow as good as any still
  free, and a shadow that is gone went to an active that did no better. This needs the
  order by forward return inside a symbol, which is where `find_retirements_Unsorted` fails,
  and that pairs of different symbols never meet.
* The passes next: `RegretInv` says of each pass, ended or not, that it has
  written the first m of the pairs, and the decision of one more at most (`PassInv`,
  `Reached`); of the running one, that its `todo` is the rest of the list, and how far the
  first of them has come (`AtWork`). It relates the passes to what they share: a pair
  once written has left its statuses, and its retired strategy, if its row is live, without
  shares that are not on sale, or with a recorded failed close, or among those `escaped`
  (`Settled`, `Ended`). An expired close adds to the last, so no step of the account
  undoes it; a later close of the same symbol does not either, since it sells what it
  takes out of `escaped`. No step of a pass undoes these (`Kept`), the next pass included: it
  computes the same pairs, from evidence that does not change.

### Panels and generation

* `DisplayTypeCorrect`, `AnswersNeverOlder`, `RowsReplacedOncePerTTL`, `StaleAnswersNewest`
  (`StoreProofs`), with no further assumption. The invariant has four parts: the thread
  that refreshes holds the lock and is alone (`LockInv`); the row it has read under the lock is
  still the row, and expired (`CachedInv`); row, readings and answers never fall
  behind what has been shown, and a reading under way is younger than the row
  (`AgeInv`); only answers are stale (`StaleInv`). Age needs the lock, for a reading that
  began early and was stored late would bring back an older truth; and it needs the scrubbed
  copy, for a restore would.
* `GenerationTypeCorrect`, `IdsFindTheirRows` (`IdsNameOneRow`), `RowsSourced`
  (`RowsKeepTheirSource`) and `BatchesFirstDistinct` (`BatchIsFirstDistinct`), in
  `GenerationProofs`, for responses of any length, any number of retries, threads and
  seeds. The invariant `TableInv` says that no key has two rows, that each row and each
  candidate has its source (`SourcedRows`), that the ids a thread has found name rows of its
  candidates' keys, and of each generation under way that the candidates seen are, in
  order, the places of its responses where a strategy first comes up (`Draft`, `Lists`). One
  item of a response adds one place or none; a response is an induction over its
  items. The table only grows, and a restart that empties it ends every generation.
* `StoreTypeCorrect`: `StoreTypeOK`, the types of all three users in one behaviour. A step of
  one is a step or a stutter of each specification, so the three type theorems
  give the fourth.

### Evidence and calibration

Eight theorems in `AsOfProofs`, for any subjects and bars, any thresholds, any grid and any
split: `EvidenceTypeCorrect` (`AsOfTypeOK`), `NoLookahead` (`ReplayIgnoresFuture`),
`MoneyIsItsTrades` (`MoneyCompoundsTrades`), `DrawdownFindsWorst`
(`DrawdownIsWorstDecline`), `RowsRest` (`RowsRestOnTheirBars`), `FirstBestFound`
(`SearchFindsFirstBest`), `HoldoutApart` (`HoldoutUnfitted`) and `ProposalsNoWorse`
(`ProposalNeverWorse`). They rest on `AsOfAssumption` (the numbers of calibrate.py are
positive, the grid is three lists of integers) and `UniversesAssumption`.

* Fractions first. That money which is bought and sold at one price is the same money is
  an equation between records, so fractions of one value must be one record. Euclid's
  algorithm takes the same steps on multiples (`GcdScaled`), so what `Frac` returns is
  in lowest terms and depends on the value alone (`FracSame`). Induction is on the
  smallest counterexample, and a recursive function is known by its equation once it is
  shown to exist and to be the only one (`GcdUnique`, `GcdExists`). Order, sums and
  products then are lemmas about integers.
* What a signal sees. Each indicator gives the same on two series that agree up to its
  bar (`SmaSame` to `MomentumSame`), so a rule does (`RuleSame`), and a round of the
  loop does if they also agree on the next open (`RoundSame`). `ReplaySame` is the
  induction over the rounds.
* What a replay keeps. `IsPlay` says that a replay is all in cash or all in shares, and that
  its curve is positive, without which no decline is defined; `Compounds` is
  `MoneyCompoundsTrades`, kept by each fill. The drawdown is an induction over the curve:
  after k points the loop has their peak, and the worst decline between two of them
  (`FirstFall`, `NextFall`).
* The pass. `AsOfInv` has five parts: types (`Shape`); the loop in hand is a replay of the
  bars of its subject (`Replaying`); the two results in hand are what a whole replay
  gives, in the order in which they are stored (`InHand`); a row that is decided is
  complete, and none is that the pass has not come to (`Stored`); a record is that of the
  sample kept with it (`Calibrated`). `RowsRestOnTheirBars` alone is not inductive: a row is
  written in three steps, from results of two loops that have ended before.
* The calibration. After k points of the grid the search has the first that no other of
  the k beats (`Found`), and there is only one (`OneLead`). A proposal is an argument
  about rounding: the mean of the strict thresholds is rounded to four places, and so is
  the gain; each is off by half a place at most (`NearestBounds`), and a gain that
  passes MIN_IMPROVEMENT_PP leaves more room than that (`GainCovers`). A known mean does
  not depend on how many it asks for (`MeanTyped`), so the two quorums do not matter.

### What stays with TLC

Liveness (`TimeStopCloses`, `RunsClose`, `ApiReopens`): fairness and ENABLED are out of
the prover's reach. And the runs that find a violation prove nothing but that one behaviour.

## 5. Not modelled, and why

* The equity path (`EXPRESSION` other than "options", `risk.check`) and DRY_RUN: not what
  is deployed, and their controls are those of the option path on rows of stock.
* Prices, P&L, spreads and the ranking of contracts: data. The exit rules that read them may
  fire for any position; a selection may return any contract or none.
* Partial fills of one order: every buy is one contract.
* Writes of the startup sync that fail: the sync stays half done and the loop goes on
  (scheduler.py:237), until the next start syncs again. The writes of cycle and sweep do
  fail (`"rowFails"`).
* The limit of 200 orders on the history the time stop reads (mgmt.py:252): on a busy
  account an old fill drops out of it, and `TimeStopCloses` does not hold there.
* Stopping the scheduler's thread: the process does it only when it shuts down, which is a
  crash in the models, at any step.
* The migrations of `init_db`: they leave a current database as it is.
* Rendering, the read endpoints and the dashboard: SELECT statements and layout, no
  state. So are the facts that `build_facts` collects and the rendering of the
  note; `DisplayCaches` has when they are read.
* Prompts and the schema's field checks: `Generation` takes an item as valid or not.
* Post-mortem texts: one call to a model and its text. `RegretLedger` has the row's place
  in the pass.
* `skeleton.py`: the first hand-written strategy, an oracle for tests; the running system does
  not call it.
* Scripts: run by hand, on code that is modelled.
* The secret scan of the published copy: a pattern scan. It can only stop a
  publication, and `LedgerSnapshots` lets one fail to come at any time.
* Larger compositions: the ledger's threads beside the account of `TradingAgent`. The two
  share the points at which a cycle calls the broker, and each lets the other's part
  answer in any way; their product is out of TLC's reach.
