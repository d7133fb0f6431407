------------------------- MODULE MCResearchFigures -------------------------
(***************************************************************************)
(* An instance of ResearchFigures: first candles at the beginning, at the  *)
(* end and on the 28th of a month, in a leap year and around it.           *)
(***************************************************************************)
EXTENDS ResearchFigures

FiveStarts == {Date(2023, 1, 1), Date(2023, 6, 28), Date(2023, 8, 31), Date(2023, 12, 15),
               Date(2023, 12, 31)}

Plan(symbol, signalled, filled) ==
    [symbol |-> symbol, signalled |-> signalled, filled |-> filled]

\* Around the beginning of a half: a plan filled on the last day before it, one
\* signalled on that day and filled in the half, and one signalled in the half.
Seam(last, first) ==
    {Plan("BTCUSDT", last, last), Plan("ETHUSDT", last, first), Plan("BTCUSDT", first, first)}
SeamsOfHalves == {Seam(Date(2023, 8, 31), Date(2023, 9, 1)), Seam(Date(2023, 12, 31), Date(2024, 1, 1)),
                  Seam(Date(2024, 2, 27), Date(2024, 2, 28)), Seam(Date(2024, 8, 14), Date(2024, 8, 15))}

Trade(gross, risk, stopped, boundaries, executed) ==
    [gross |-> gross, risk |-> risk, stopped |-> stopped,
     boundaries |-> boundaries, executed |-> executed]

\* A win, a win with little risk, a loss at the stop, a loss held over funding,
\* and a row from before execution data was stored.
FiveTrades == {Trade(40, 2, FALSE, 0, TRUE), Trade(30, 1, FALSE, 1, TRUE),
               Trade(-20, 2, TRUE, 0, TRUE), Trade(-20, 2, TRUE, 2, TRUE),
               Trade(20, 2, FALSE, 0, FALSE)}

Costs(source, rate) ==
    [fee |-> 2, slippage |-> 1, stopSlippage |-> 3, source |-> source, rate |-> rate]
ThreeCosts == {Costs("none", 0), Costs("fixed", 0), Costs("fixed", 2)}

ReachableGate == [trades |-> 2, expectancy |-> 1, ratio |-> 1, baseline |-> 2,
                  drawdown |-> 1, symbols |-> 2]

Report(smoke, status, trades, ratio, inSample, outSample) ==
    [smokeTest |-> smoke, status |-> status, trades |-> trades, tradeCount |-> {1},
     expectancy |-> {0}, baseline |-> {1}, drawdown |-> {2}, ratio |-> ratio,
     inSample |-> inSample, outSample |-> outSample, symbols |-> {}, symbolCount |-> {1}]
SomeReports == {Report(smoke, status, trades, ratio, inSample, outSample) :
                   smoke \in BOOLEAN, status \in {"VALIDATED", "INCOMPLETE_VALIDATION"},
                   trades \in {{}, {1}}, ratio \in {{}, {2}},
                   inSample \in {{}, {-1}, {1}}, outSample \in {{}, {-2}}}
=============================================================================
