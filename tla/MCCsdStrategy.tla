--------------------------- MODULE MCCsdStrategy ---------------------------
(***************************************************************************)
(* Small instances of CsdStrategy with pivots of one bar on each side.  A  *)
(* history has a lower high and a higher low that live bars may break.     *)
(***************************************************************************)
EXTENDS CsdStrategy

Bar(low, high, close) == [low |-> low, high |-> high, close |-> close]

\* Swing highs 5 and 4 (LH) and swing lows 1 and 2 (HL), all confirmed.
Range4to2 == <<Bar(3, 3, 3), Bar(3, 5, 4), Bar(1, 2, 1), Bar(3, 4, 3), Bar(2, 3, 2),
               Bar(3, 3, 3)>>
OneHistory == {Range4to2}
HistoryBars == {Range4to2[k] : k \in 1..Len(Range4to2)}

\* Breaks up, at the level and away from it; the bars of the history close on
\* the level, below it and below the higher low.
LiveBars == {Bar(4, 5, 5), Bar(5, 6, 6)} \cup HistoryBars
=============================================================================
