----------------------------- MODULE GoLiveGate -----------------------------
(***************************************************************************)
(* The go-live gate: evaluate_gate over the report of a validation, on     *)
(* which main bases the choice between live alerts and observation mode.   *)
(* A field that a report may lack is a set of at most one element.         *)
(***************************************************************************)
EXTENDS Integers

CONSTANTS
    GateSettings  \* settings.go_live_gate: [trades, expectancy, ratio, baseline,
                  \*   drawdown, symbols]

Size(x) == IF x < 0 THEN -x ELSE x
\* report.get(key, report.get(other)): the other one only where the first is missing.
Reported(field, other) == IF field = {} THEN other ELSE field
OrZero(field) == IF field = {} THEN 0 ELSE CHOOSE x \in field : TRUE

\* The overfitting ratio of the two expectancies is too high; out of sample, 0
\* makes it infinite.
Overfitted(inSample, outSample) ==
    outSample = 0 \/ Size(inSample) > GateSettings.ratio * Size(outSample)

\* Mutant of RatioFails: the ratio is taken the other way round.
RatioInverted(report) ==
    \/ \E x \in report.ratio : x > GateSettings.ratio
    \/ /\ report.ratio = {}
       /\ \A i \in report.inSample, o \in report.outSample : Overfitted(o, i)
\* The ratio as reported, or that of the two expectancies; none is a failure too.
RatioFails(report) ==
    \/ \E x \in report.ratio : x > GateSettings.ratio
    \/ /\ report.ratio = {}
       /\ \A i \in report.inSample, o \in report.outSample : Overfitted(i, o)

\* main() passes no clock, so the age of the report is not looked at.
Failures(report) ==
    {criterion \in {"scope", "status", "trades", "expectancy", "baseline", "drawdown",
                    "ratio", "symbols"} :
        CASE criterion = "scope"      -> report.smokeTest
          [] criterion = "status"     -> report.status \notin {"VALIDATED", "COMPLETE"}
          [] criterion = "trades"     ->
                OrZero(Reported(report.trades, report.tradeCount)) < GateSettings.trades
          [] criterion = "expectancy" -> OrZero(report.expectancy) < GateSettings.expectancy
          [] criterion = "baseline"   -> OrZero(report.baseline) < GateSettings.baseline
          [] criterion = "drawdown"   -> OrZero(report.drawdown) > GateSettings.drawdown
          [] criterion = "ratio"      -> RatioFails(report)
          [] criterion = "symbols"    ->
                ~\E x \in Reported(report.symbols, report.symbolCount) : x >= GateSettings.symbols}

Passes(report) == Failures(report) = {}
=============================================================================
