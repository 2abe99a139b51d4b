-------------------------- MODULE MCAsOfEvaluation ---------------------------
(***************************************************************************)
(* TLC instances of AsOfEvaluation: one subject with every short series of *)
(* three bars, or four subjects from a menu, of which two train the        *)
(* thresholds and two are held out.                                        *)
(***************************************************************************)
EXTENDS AsOfEvaluation

CONSTANTS SeriesLength, SeriesSplit

BarOf(o, c, v) == [open |-> o, close |-> c, volume |-> v,
                   high |-> IF o > c THEN o ELSE c, low |-> IF o < c THEN o ELSE c]
When(l, op, r) == [left |-> l, operator |-> op, right |-> r]
One(c) == [conditions |-> <<c>>, join |-> "none"]
Two(c, j, d) == [conditions |-> <<c, d>>, join |-> j]

\* Each indicator and each operator of the grammar occurs in one of them.
Crossing == [entry |-> One(When(Ref("SMA", 2), "CROSSES_ABOVE", Level(1))),
             exit |-> One(When(Ref("SMA", 2), "CROSSES_BELOW", Level(2)))]
Trend == [entry |-> One(When(Ref("EMA", 2), ">", Ref("SMA", 2))),
          exit |-> One(When(Ref("MOMENTUM", 2), "<", Level(0)))]
Swing == [entry |-> Two(When(Ref("RSI", 2), "<", Level(50)), "AND",
                        When(Ref("VOLUME_AVG", 2), ">", Level(1))),
          exit |-> Two(When(Ref("RSI", 2), ">", Level(40)), "OR",
                       When(Ref("ATR", 2), ">", Level(1)))]
Strategies == {Crossing, Trend, Swing}

\* Between opens and closes prices rise, fall or jump.
Ticks == {BarOf(1, 2, 1), BarOf(3, 1, 2), BarOf(2, 3, 2)}
Singles == {<<[strategy |-> s, split |-> SeriesSplit, bars |-> b]>> :
               s \in Strategies, b \in [1..SeriesLength -> Ticks]}

\* The menu: one strategy on paths of prices, with different evidence.
Rise == [entry |-> One(When(Ref("SMA", 2), ">", Level(2))),
         exit |-> One(When(Ref("SMA", 2), "<", Level(2)))]
Path(prices, split) == [strategy |-> Rise, split |-> split,
                        bars |-> [i \in 1..Len(prices) |-> BarOf(prices[i], prices[i], 1)]]
Menu == {Path(<<4, 1, 1, 3, 1, 4, 2, 4>>, 5),       \* +200 %, then +100 %
         Path(<<4, 1, 1, 3, 1, 4, 4, 2>>, 5),       \* +200 %, then  -50 %
         Path(<<3, 2, 1, 4, 2, 3, 1, 3>>, 5),       \* +300 % with a fall by half, then +200 %
         Path(<<4, 1, 1, 4, 2, 3, 4, 2>>, 5),       \* the same, then  -50 %
         Path(<<1, 1, 1, 1, 1, 4, 1, 4>>, 5)}       \* no trade, then +300 %
Quartets == [1..4 -> Menu]

\* Too short before the date, or after it; and long enough for two trades.
Others == {<<Path(<<1, 2, 2>>, 2)>>, <<Path(<<1, 2, 2, 1, 1>>, 4)>>,
           <<Path(<<4, 1, 1, 4, 1, 1, 3, 3, 2, 1>>, 7)>>}

AllUniverses == Singles \cup Quartets \cup Others
Thresholds(r, d, t) == [min_total_return_pct |-> r, max_drawdown_pct |-> d, min_trades |-> t]
Strict == Thresholds(0, 2500, 1)
Relaxed == [min_trades |-> 0]
SmallGrid == Thresholds(<<0, 25000>>, <<2500, 6000>>, <<1, 2>>)
Cheap == BarOf(1, 1, 1)
Dear == BarOf(7, 9, 5)
OtherFutures == {Cheap, Dear}
=============================================================================
