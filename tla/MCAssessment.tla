---------------------------- MODULE MCAssessment ----------------------------
(***************************************************************************)
(* An instance of Assessment: three timeframes of 1, 2 and 4 primary       *)
(* candles, readings at and around every threshold, default weights.       *)
(***************************************************************************)
EXTENDS Assessment

ThreeTimeframes == <<"15m", "1h", "4h">>
DurationOf(timeframe) ==
    CASE timeframe = "15m" -> 1 [] timeframe = "1h" -> 2 [] timeframe = "4h" -> 4

Reading(ema, rsi, macd, volume, atr, close) ==
    [ema |-> ema, rsi |-> rsi, macd |-> macd, volume |-> volume, atr |-> atr, close |-> close]

\* Too little history, strongly bullish, and bearish with less than the average
\* volume.
ThreeReadings == {Reading({}, {}, {0}, {}, {}, 0), Reading({60}, {70}, {5}, {250}, {60}, 1),
                  Reading({-20}, {45}, {-20}, {80}, {60}, 0)}

Setup(direction, distance) == [direction |-> direction, distance |-> distance]
ThreeSetups == {Setup("BULLISH", 30), Setup("BULLISH", 90), Setup("BEARISH", 90)}

DefaultWeights == [csd |-> 4, breakout |-> 4, retest |-> 4, ema |-> 3, rsi |-> 2,
                   macd |-> 2, volume |-> 2, htf |-> 3]
=============================================================================
