-------------------------- MODULE MCBacktestRunner --------------------------
(***************************************************************************)
(* Small instances of BacktestRunner: a 15m series on which trades open,   *)
(* interleaved with the 1h series of the same symbol.                      *)
(***************************************************************************)
EXTENDS BacktestRunner

Leg(target, size) == [target |-> target, size |-> size]
Bar(low, high, close) == [low |-> low, high |-> high, close |-> close]
Plan(direction, low, high, reference, stop) ==
    [direction |-> direction, low |-> low, high |-> high, reference |-> reference,
     stop |-> stop]

\* Half at 1R, half at 2R; one R has two parts.
TwoLegs == <<Leg(2, 50), Leg(4, 50)>>

\* Entries around 10 with a risk of 2: targets 12 and 14, or 8 and 6.
BothSides == {Plan("BULLISH", 9, 11, 10, 8), Plan("BEARISH", 9, 11, 10, 12)}

\* Quiet at the zone, a touch of its edge only, each target alone, both targets,
\* a return to breakeven, a stop, and a candle that spans stop and target.
Moves == {Bar(10, 10, 10), Bar(11, 11, 11), Bar(10, 12, 11), Bar(9, 10, 9), Bar(12, 14, 13),
          Bar(8, 9, 8), Bar(8, 12, 9)}
=============================================================================
