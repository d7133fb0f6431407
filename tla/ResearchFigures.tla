-------------------------- MODULE ResearchFigures --------------------------
(***************************************************************************)
(* The figures of the research report over growing data.  One behaviour is *)
(* about one of them: the range of candles under walk-forward validation,  *)
(* the finished trades, or a report before the go-live gate.               *)
(***************************************************************************)
EXTENDS WalkForward, TradeFigures, GoLiveGate

CONSTANTS
    Starts,         \* the dates of the first candle
    Markets,        \* what the data may hold: sets of plans, each with the date of its
                    \*   signal and that of the candle that fills it
    ClosedTrades,   \* the trades that may finish
    CostSettings,   \* the base cost settings
    Reports,        \* the gate's reports
    DrawdownThreshold,
    MonthBound, TradeBound, ShuffleBound, FigureBound  \* bounds

\* What a report may lack: a set of at most one number.
Optional == {field \in SUBSET Int : \A x, y \in field : x = y}

ASSUME FiguresAssumption ==
    /\ Unit \in Nat \ {0}
    /\ ClosedTrades \subseteq [gross : Int, risk : Nat \ {0}, stopped : BOOLEAN,
                               boundaries : Nat, executed : BOOLEAN]
    /\ \A trade \in ClosedTrades : Unit % trade.risk = 0
    /\ \A settings \in CostSettings : AcceptedCosts(settings)
    /\ DrawdownThreshold \in Int
    /\ {MonthBound, TradeBound, ShuffleBound, FigureBound} \subseteq Nat

ASSUME DatesAssumption ==
    /\ Starts \subseteq [year : Nat, month : 1..12, day : Nat \ {0}]
    /\ \A date \in Starts : date.day <= MonthRange(date.year, date.month)
    /\ \A market \in Markets :
          /\ IsFiniteSet(market)
          /\ market \subseteq [symbol : STRING, signalled : [year : Nat, month : 1..12, day : Nat \ {0}],
                               filled : [year : Nat, month : 1..12, day : Nat \ {0}]]
          /\ \A plan \in market : ~Precedes(plan.filled, plan.signalled)

ASSUME GateAssumption ==
    /\ Reports \subseteq [smokeTest : BOOLEAN, status : STRING, trades : Optional,
                          tradeCount : Optional, expectancy : Optional, baseline : Optional,
                          drawdown : Optional, ratio : Optional, inSample : Optional,
                          outSample : Optional, symbols : Optional, symbolCount : Optional]
    /\ GateSettings \in [trades : Int, expectancy : Int, ratio : Int, baseline : Int,
                         drawdown : Int, symbols : Int]

VARIABLES
    subject,   \* what the behaviour is about
    firstDate, \* the first date of the candles
    months,    \* how far they reach
    market,    \* the plans they hold
    replays,   \* the plans found in the windows replayed so far
    costs,     \* settings.cost
    closed,    \* the finished trades, in the order of the report
    orderings, \* the orderings the Monte Carlo sampler drew
    report     \* what the gate is given

figures == <<subject, firstDate, months, market, replays, costs, closed, orderings, report>>

End == AddMonths(firstDate, months)
Windows == RollingWindows(firstDate, End)

Net == [i \in DOMAIN closed |-> closed[i].gross - CostR(costs, closed[i])]

FiguresInit ==
    /\ subject \in {"range", "trades", "report"}
    /\ firstDate \in Starts
    /\ months = 0
    /\ market \in Markets
    /\ replays = <<>>
    /\ costs \in CostSettings
    /\ closed = <<>>
    /\ orderings = <<>>
    /\ report \in Reports
    /\ subject # "range" => /\ firstDate = CHOOSE date \in Starts : TRUE
                            /\ market = CHOOSE some \in Markets : TRUE
    /\ subject # "trades" => costs = CHOOSE settings \in CostSettings : TRUE
    /\ subject # "report" => report = CHOOSE given \in Reports : TRUE

\* Another month of candles.
Extend ==
    /\ subject = "range" /\ months < MonthBound /\ replays = <<>>
    /\ months' = months + 1
    /\ UNCHANGED <<subject, firstDate, market, replays, costs, closed, orderings, report>>

\* _walk_forward: the strategy runs afresh over the candles of the next window.
\* What it has seen there decides which of the window's plans it makes: any of
\* them, and none where the unit of a symbol raises.
ReplayWindow ==
    LET window == Windows[Len(replays) + 1]
    IN  /\ subject = "range" /\ Len(replays) < Len(Windows)
        /\ \E found \in SUBSET {plan \in market :
                                   Within(plan.signalled, window.inStart, window.outEnd)} :
              replays' = Append(replays, found)
        /\ UNCHANGED <<subject, firstDate, months, market, costs, closed, orderings, report>>

FinishTrade(trade) ==
    /\ subject = "trades" /\ Len(closed) < TradeBound /\ orderings = <<>>
    /\ closed' = Append(closed, trade)
    /\ UNCHANGED <<subject, firstDate, months, market, replays, costs, orderings, report>>

\* random.shuffle: any ordering.
Shuffle ==
    /\ subject = "trades" /\ closed # <<>> /\ Len(orderings) < ShuffleBound
    /\ \E ordering \in Bijection(DOMAIN closed, DOMAIN closed) :
          orderings' = Append(orderings, ordering)
    /\ UNCHANGED <<subject, firstDate, months, market, replays, costs, closed, report>>

\* One of the figures that are reported gets better.
More(field) == {x + 1 : x \in field}
Less(field) == {x - 1 : x \in field}
Improve ==
    /\ subject = "report"
    /\ \E better \in {[report EXCEPT !.trades = More(@)], [report EXCEPT !.tradeCount = More(@)],
                      [report EXCEPT !.expectancy = More(@)], [report EXCEPT !.outSample = More(@)],
                      [report EXCEPT !.baseline = More(@)], [report EXCEPT !.symbols = More(@)],
                      [report EXCEPT !.symbolCount = More(@)], [report EXCEPT !.drawdown = Less(@)],
                      [report EXCEPT !.ratio = Less(@)]} :
          /\ \A field \in {"trades", "tradeCount", "expectancy", "outSample", "baseline",
                           "symbols", "symbolCount"} :
                \A x \in better[field] : x <= FigureBound
          /\ \A field \in {"drawdown", "ratio"} : \A x \in better[field] : x >= 0
          /\ report' = better
    /\ UNCHANGED <<subject, firstDate, months, market, replays, costs, closed, orderings>>

FiguresNext ==
    \/ Extend
    \/ ReplayWindow
    \/ \E trade \in ClosedTrades : FinishTrade(trade)
    \/ Shuffle
    \/ Improve

FiguresSpec == FiguresInit /\ [][FiguresNext]_figures

-----------------------------------------------------------------------------
(* Properties *)

\* CODEX-IMPLEMENTATION-PROMPT-V2.md, 6.4: the aggregate out-of-sample result.
\* No trade counts in two windows; and a plan signalled between the first
\* window's out-of-sample start and the end of the last one replayed lies in the
\* half of one window, in which it counts if that window's own replay finds it
\* and fills it before the half ends.  (A plan filled later counts nowhere.)
\* Only from a first candle up to the 28th of a month: later, months of
\* different lengths make windows overlap.
OutOfSampleOnce ==
    firstDate.day <= 28 /\ replays # <<>> =>
        LET counted(k) == OutOfSample(Windows[k], replays[k])
        IN  /\ OutOfSampleTrades(Windows, replays) =
                  Cardinality(UNION {counted(k) : k \in DOMAIN replays})
            /\ \A plan \in market :
                  Within(plan.signalled, Windows[1].outStart, Windows[Len(replays)].outEnd)
                  => \E k \in DOMAIN replays :
                        /\ Within(plan.signalled, Windows[k].outStart, Windows[k].outEnd)
                        /\ \A j \in DOMAIN replays :
                              plan \in counted(j)
                              <=> /\ j = k
                                  /\ plan \in replays[k]
                                  /\ Precedes(plan.filled, Windows[k].outEnd)

\* The deepest fall of the running total below an earlier value of it.
Fall(values) ==
    LET level(i) == Total(SubSeq(values, 1, i))
        spans == {span \in (0..Len(values)) \X (0..Len(values)) : span[1] <= span[2]}
    IN  Max({level(span[1]) - level(span[2]) : span \in spans})

\* The results of the random candidates: one that is not filled counts as 0.
CandidateResults == [i \in DOMAIN closed |-> IF closed[i].executed THEN Net[i] ELSE 0]

\* Reordering the trades changes neither their total nor what a drawdown is:
\* each sampled one is the deepest fall of its own ordering, and the reported
\* percentile and the reported probability tell the same story.  So do those of
\* the random entries, and no strategy that takes every candidate beats them.
ResamplingIsCoherent ==
    orderings # <<>> =>
        LET drawdowns == Drawdowns(Net, orderings)
        IN  /\ \A k \in DOMAIN orderings :
                  /\ Total(Reordered(Net, orderings[k])) = Total(Net)
                  /\ drawdowns[k] = Fall(Reordered(Net, orderings[k]))
            /\ \A percentile \in {34, 50, 90, 95} :
                  (Percentile(drawdowns, percentile) > DrawdownThreshold)
                  <=> (Exceeding(drawdowns, DrawdownThreshold) * 100
                       > (100 - percentile) * Len(drawdowns))
            /\ \A size \in DOMAIN closed :
                  LET random == RandomEntry(CandidateResults, orderings, size, CandidateResults)
                  IN  /\ random.below + random.above >= Len(orderings)
                      /\ size = Len(closed) =>
                            random = [below |-> Len(orderings), above |-> Len(orderings)]

\* A report that passes the gate goes on passing it when one of its figures
\* improves, but for one case: without a reported ratio, a loss out of sample
\* that shrinks may leave the in-sample result, of either sign, too large for it.
\* An improvement can fail no other criterion and no other report.
OnlyAShrinkingLossFails ==
    [][subject = "report" /\ Passes(report) /\ ~Passes(report') =>
          /\ Failures(report') = {"ratio"}
          /\ report.ratio = {}
          /\ \E x \in report.outSample : x < 0 /\ report'.outSample = {x + 1}]_figures
=============================================================================
