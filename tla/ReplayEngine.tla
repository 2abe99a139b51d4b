---------------------------- MODULE ReplayEngine -----------------------------
(***************************************************************************)
(* The replay engine (engine.py): indicators over a series of bars, rules  *)
(* over indicators, and the bar-by-bar backtest. Bars are counted from 1   *)
(* here: bar n of the model is bars[n - 1] of the code. Cash is in units   *)
(* of STARTING_CASH.                                                       *)
(***************************************************************************)
EXTENDS Fractions, SequencesExt

Field(bars, f) == [i \in DOMAIN bars |-> Whole(bars[i][f])]
Total(values) == FoldLeft(Plus, Whole(0), values)
Mean(values) == Over(Total(values), Whole(Len(values)))

\* Faulty variant: the window reaches one bar too far.
_sma_OneBarLate(values, n, period) ==
    IF n < period THEN None ELSE Mean(SubSeq(values, n - period + 2, n + 1))

\* The mean of the last period values up to bar n.
_sma(values, n, period) ==
    IF n < period THEN None ELSE Mean(SubSeq(values, n - period + 1, n))

\* Seeded with the mean of the first values, moved towards each later one.
_ema(values, n, period) ==
    LET toward(ema, v) == Plus(ema, Times(Minus(v, ema), Frac(2, period + 1)))
    IN  IF n < period THEN None
        ELSE FoldLeft(toward, Mean(SubSeq(values, 1, period)), SubSeq(values, period + 1, n))

\* Wilder's average, which RSI and ATR share.
Smoothed(values, period) ==
    LET blend(avg, v) == Over(Plus(Times(avg, Whole(period - 1)), v), Whole(period))
    IN  FoldLeft(blend, Mean(SubSeq(values, 1, period)),
                 SubSeq(values, period + 1, Len(values)))

\* 100 - 100 / (1 + gain / loss), which is 100 when nothing was lost.
Strength(gain, loss) == IF loss = Whole(0) THEN Whole(100)
                        ELSE Over(Times(Whole(100), gain), Plus(gain, loss))

_rsi(closes, n, period) ==
    LET delta == [i \in 1..(n - 1) |-> Minus(closes[i + 1], closes[i])]
        moves(sign) == [i \in DOMAIN delta |-> Larger(Times(sign, delta[i]), Whole(0))]
    IN  IF n < period + 1 THEN None
        ELSE Strength(Smoothed(moves(Whole(1)), period), Smoothed(moves(Whole(-1)), period))

\* The true range of a bar looks at the close of the bar before.
_atr(bars, n, period) ==
    LET gap(x, y) == Whole(Magnitude(x - y))
        range == [i \in 1..(n - 1) |->
                    Larger(Whole(bars[i + 1].high - bars[i + 1].low),
                           Larger(gap(bars[i + 1].high, bars[i].close),
                                  gap(bars[i + 1].low, bars[i].close)))]
    IN  IF n < period + 1 THEN None ELSE Smoothed(range, period)

\* The change over period bars, in percent.
_momentum(closes, n, period) ==
    IF n < period + 1 \/ closes[n - period] = Whole(0) THEN None
    ELSE Times(Whole(100), Over(Minus(closes[n], closes[n - period]), closes[n - period]))

-----------------------------------------------------------------------------
(* Rules: one condition, or two that are joined; a side of a condition is  *)
(* a reference to an indicator or a constant.                              *)

MIN_PERIOD == 2
MAX_PERIOD == 250

IndicatorName == {"SMA", "EMA", "RSI", "ATR", "MOMENTUM", "VOLUME_AVG"}
Operator == {">", "<", "CROSSES_ABOVE", "CROSSES_BELOW"}
IndicatorRef == [indicator : IndicatorName, period : MIN_PERIOD..MAX_PERIOD]
Constant == [indicator : {"constant"}, value : Int]
Condition == [left : IndicatorRef, operator : Operator, right : IndicatorRef \cup Constant]
Rule == {r \in [conditions : Seq(Condition), join : {"none", "AND", "OR"}] :
            Len(r.conditions) = IF r.join = "none" THEN 1 ELSE 2}
Strategy == {s \in [entry : Rule, exit : Rule] : s.entry # s.exit}

Ref(indicator, period) == [indicator |-> indicator, period |-> period]
Level(v) == [indicator |-> "constant", value |-> v]

_side_value(side, bars, n) ==
    CASE side.indicator = "constant" -> Whole(side.value)
      [] side.indicator = "SMA" -> _sma(Field(bars, "close"), n, side.period)
      [] side.indicator = "EMA" -> _ema(Field(bars, "close"), n, side.period)
      [] side.indicator = "RSI" -> _rsi(Field(bars, "close"), n, side.period)
      [] side.indicator = "ATR" -> _atr(bars, n, side.period)
      [] side.indicator = "MOMENTUM" -> _momentum(Field(bars, "close"), n, side.period)
      [] side.indicator = "VOLUME_AVG" -> _sma(Field(bars, "volume"), n, side.period)

\* The sides l and r, and what they were a bar before: a crossing needs both.
Holds(operator, l, r, l0, r0) ==
    /\ Known(l) /\ Known(r)
    /\ \/ operator = ">" /\ Less(r, l)
       \/ operator = "<" /\ Less(l, r)
       \/ /\ Known(l0) /\ Known(r0)
          /\ \/ operator = "CROSSES_ABOVE" /\ AtMost(l0, r0) /\ Less(r, l)
             \/ operator = "CROSSES_BELOW" /\ AtMost(r0, l0) /\ Less(l, r)

\* A value that is missing makes the condition false.
_eval_condition(cond, bars, n) ==
    Holds(cond.operator, _side_value(cond.left, bars, n), _side_value(cond.right, bars, n),
          _side_value(cond.left, bars, n - 1), _side_value(cond.right, bars, n - 1))

Joined(rule, true) == IF rule.join = "OR" THEN true # {} ELSE true = DOMAIN rule.conditions

_eval_rule(rule, bars, n) ==
    Joined(rule, {i \in DOMAIN rule.conditions : _eval_condition(rule.conditions[i], bars, n)})

-----------------------------------------------------------------------------
(* The backtest. A play is what its loop keeps: the bar it is at, the cash *)
(* and the shares, the price of the open entry, the realised trades and    *)
(* the equity curve.                                                       *)

Start(first) == [n |-> first, cash |-> Whole(1), shares |-> Whole(0), entry |-> None,
                 trades |-> <<>>, curve |-> <<>>]
Flat(play) == play.shares = Whole(0)

\* What the close of bar n tells to do.
Signal(strategy, bars, play) ==
    IF Flat(play) /\ _eval_rule(strategy.entry, bars, play.n) THEN "enter"
    ELSE IF ~Flat(play) /\ _eval_rule(strategy.exit, bars, play.n) THEN "exit"
    ELSE "hold"

\* Faulty variant: an entry leaves the cash where it is.
Fill_KeepsCash(signal, price, play) ==
    CASE signal = "enter" -> [play EXCEPT !.shares = Over(play.cash, price), !.entry = price]
      [] signal = "exit" -> [play EXCEPT !.trades = Append(@, [entry |-> play.entry, exit |-> price]),
                                         !.cash = Times(play.shares, price),
                                         !.shares = Whole(0), !.entry = None]
      [] signal = "hold" -> play

\* All in and all out, at the open after the signal.
Fill(signal, price, play) ==
    CASE signal = "enter" -> [play EXCEPT !.shares = Over(play.cash, price), !.entry = price,
                                          !.cash = Whole(0)]
      [] signal = "exit" -> [play EXCEPT !.trades = Append(@, [entry |-> play.entry, exit |-> price]),
                                         !.cash = Times(play.shares, price),
                                         !.shares = Whole(0), !.entry = None]
      [] signal = "hold" -> play

Equity(play, close) == Plus(play.cash, Times(play.shares, Whole(close)))

\* The curve gets its point for the bar that was decided on, after the fill at the next.
Mark(filled, close) == [filled EXCEPT !.n = @ + 1, !.curve = Append(@, Equity(filled, close))]

\* One round of the loop.
PlayBar(strategy, bars, play) ==
    Mark(Fill(Signal(strategy, bars, play), Whole(bars[play.n + 1].open), play),
         bars[play.n].close)

\* Faulty variant: the decline from the start, not from the peak.
MaxDrawdown_FromStart(curve) ==
    FoldLeft(LAMBDA worst, eq : Larger(worst, Over(Minus(curve[1], eq), curve[1])),
             Whole(0), curve)

\* One more point: the running peak, and the worst decline below it.
Fall(acc, eq) ==
    LET peak == Larger(acc.peak, eq)
    IN  [peak |-> peak, worst |-> Larger(acc.worst, Over(Minus(peak, eq), peak))]

\* The deepest decline of the curve below its running peak.
MaxDrawdown(curve) ==
    FoldLeft(LAMBDA acc, eq : Fall(acc, eq), [peak |-> curve[1], worst |-> Whole(0)], curve).worst

\* Percentages are rounded to two places: they are counted in hundredths of a percent.
Percent(x) == Nearest(Times(x, Whole(10000)))

\* What a backtest returns.
Results(play, final) ==
    [total_return_pct |-> Percent(Minus(final, Whole(1))),
     max_drawdown_pct |-> Percent(MaxDrawdown(Append(play.curve, final))),
     num_trades |-> Len(play.trades),
     open_position |-> ~Flat(play)]

\* A position still open at the last close counts at that close, but is no trade.
Metrics(bars, play) == Results(play, Equity(play, bars[Len(bars)].close))

\* The loop from bar first up to bar last, all at once.
Replay(strategy, bars, first, last) ==
    LET round[n \in first..last] ==
            IF n = first THEN Start(first) ELSE PlayBar(strategy, bars, round[n - 1])
    IN  round[last]

run_backtest(strategy, bars, first) == Metrics(bars, Replay(strategy, bars, first, Len(bars)))
=============================================================================
