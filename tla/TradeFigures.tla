---------------------------- MODULE TradeFigures ----------------------------
(***************************************************************************)
(* The figures of the research report that are computed from finished      *)
(* trades: drawdown and losing streak, nearest-rank percentiles, the Monte *)
(* Carlo reordering, the random entries, and the costs in R.  Results are  *)
(* integers, in units of a fraction of the initial risk R; every finished  *)
(* trade has one, as the canonical simulator gives it.                     *)
(***************************************************************************)
EXTENDS Integers, Sequences, FiniteSets, FiniteSetsExt, Functions

CONSTANTS
    Unit  \* cost percent times Unit, divided by the risk percent, is an integer

Total(values) == SumFunction(values)

-----------------------------------------------------------------------------
(* Sequence risk *)

\* _drawdown_and_streak: one round of its loop, and the loop.
Extended(curve, x) ==
    LET equity == curve.equity + x
        peak == Max({curve.peak, equity})
        streak == IF x <= 0 THEN curve.streak + 1 ELSE 0
    IN  [equity |-> equity, peak |-> peak,
         drawdown |-> Max({curve.drawdown, peak - equity}),
         streak |-> streak, longest |-> Max({curve.longest, streak})]
Curve(values) ==
    LET upto[n \in 0..Len(values)] ==
            IF n = 0 THEN [equity |-> 0, peak |-> 0, drawdown |-> 0, streak |-> 0, longest |-> 0]
            ELSE Extended(upto[n - 1], values[n])
    IN  upto[Len(values)]

\* Some outcomes in another order, and in ascending order.
Reordered(values, ordering) == [i \in DOMAIN values |-> values[ordering[i]]]
Ascends(values) == \A i, j \in DOMAIN values : i <= j => values[i] <= values[j]
Sorted(values) ==
    Reordered(values, CHOOSE ordering \in Bijection(DOMAIN values, DOMAIN values) :
                          Ascends(Reordered(values, ordering)))

\* Mutant of Percentile: the rank is rounded down.
PercentileRoundedDown(values, percentile) ==
    LET ordered == Sorted(values)
        rank == (percentile * Len(values)) \div 100
    IN  ordered[Max({1, Min({Len(values), rank})})]

\* _percentile: nearest rank, the ceiling of percentile * n / 100.
Percentile(values, percentile) ==
    LET ordered == Sorted(values)
        rank == (percentile * Len(values) + 99) \div 100
    IN  ordered[Max({1, Min({Len(values), rank})})]

\* The drawdowns of the sampled orderings of some outcomes.
Drawdowns(values, orderings) ==
    [k \in DOMAIN orderings |-> Curve(Reordered(values, orderings[k])).drawdown]

\* How many sampled drawdowns exceed the threshold.
Exceeding(drawdowns, threshold) ==
    Cardinality({k \in DOMAIN drawdowns : drawdowns[k] > threshold})

\* run_random_entry_experiment: how many samples of `size` candidates, the first
\* of an ordering, are at or below and at or above the observed expectancy.
\* Expectancies are compared by their cross products.
RandomEntry(results, orderings, size, observed) ==
    LET sums == [k \in DOMAIN orderings |-> Total(SubSeq(Reordered(results, orderings[k]), 1, size))]
        compared(k) == sums[k] * Len(observed) - Total(observed) * size
    IN  [below |-> Cardinality({k \in DOMAIN orderings : compared(k) <= 0}),
         above |-> Cardinality({k \in DOMAIN orderings : compared(k) >= 0})]

-----------------------------------------------------------------------------
(* Costs.  Settings are [fee, slippage, stopSlippage, source, rate]; a trade *)
(* has its risk percent, whether it ended at a stop and the 8-hour funding   *)
(* boundaries it was held across.                                            *)

\* What load_settings accepts, but for "historical", which breakdown refuses.
AcceptedCosts(settings) ==
    /\ {settings.fee, settings.slippage, settings.stopSlippage, settings.rate} \subseteq Nat
    /\ settings.source \in {"none", "fixed"}

FundingPercent(settings, trade) ==
    IF settings.source = "none" THEN 0 ELSE trade.boundaries * settings.rate

\* CostModel.breakdown: the total, in R.
CostR(settings, trade) ==
    LET slippage == IF trade.stopped THEN settings.stopSlippage ELSE settings.slippage
    IN  ((2 * settings.fee + settings.slippage + slippage + FundingPercent(settings, trade))
         * Unit) \div trade.risk
=============================================================================
