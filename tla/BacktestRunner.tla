--------------------------- MODULE BacktestRunner ---------------------------
(***************************************************************************)
(* HistoricalBacktestRunner.run: closed candles of several pairs and       *)
(* timeframes are replayed in one order; the strategy may open trades at a *)
(* candle of the primary timeframe; the trades pending for a candle's pair *)
(* and timeframe meet the candle, and closed ones are stored.              *)
(*                                                                         *)
(* The strategy is the one of CsdStrategy; here it is any choice of plans  *)
(* RiskEngine can derive from the candle.  CanonicalTradeSimulator, which  *)
(* the validation uses, replays one plan at a time: see Simulated.         *)
(***************************************************************************)
EXTENDS ExitPolicy, FiniteSets

CONSTANTS
    Keys,          \* the (symbol, timeframe) pairs of the data set
    PrimaryKeys,   \* those on the primary timeframe
    Candles,       \* closed candles: [low, high, close]
    Plans,         \* risk analyses: [direction, low, high, reference, stop]
    CandleBound,   \* bound: candles replayed
    SignalBound    \* bound: signals in a replay

ASSUME DataAssumption ==
    /\ PrimaryKeys \subseteq Keys
    /\ Candles \subseteq [low : Int, high : Int, close : Int]
    /\ \A c \in Candles : c.low <= c.close /\ c.close <= c.high
    /\ Plans \subseteq [direction : {"BULLISH", "BEARISH"}, low : Int, high : Int,
                        reference : Int, stop : Int]
    /\ CandleBound \in Nat /\ SignalBound \in Nat

\* RiskEngine.calculate refuses a plan without risk; R divides into its parts.
ASSUME PlansAssumption == \A p \in Plans : Risk(p) > 0 /\ Risk(p) % RUnit = 0

VARIABLES
    replayed,   \* `ordered` up to current_index: [key, candle]
    pending,    \* the trades not yet closed, oldest first
    persisted,  \* table backtest_trades
    signals,    \* history: the signals captured
    finished    \* the candles ran out

vars == <<replayed, pending, persisted, signals, finished>>

Live == {"AWAITING_ENTRY", "OPEN"}

\* Those of some trades that are in one of some states, in their order.
InState(trades, states) ==
    LET first[n \in 0..Len(trades)] ==
            IF n = 0 THEN <<>>
            ELSE IF trades[n].state \in states THEN Append(first[n - 1], trades[n])
            ELSE first[n - 1]
    IN  first[Len(trades)]

\* RetestEngine and RiskEngine: the signal candle closes on the breakout side of
\* the level, and the stop is not inside the candle.
CanPlan(p, candle) ==
    /\ Sign(p) * candle.close > Sign(p) * p.reference
    /\ Sign(p) * Worst(p, candle) >= Sign(p) * p.stop

\* What the strategy may give at a candle: a retest, an immediate entry or both.
PlansAt(key, candle) ==
    LET possible == IF key \in PrimaryKeys THEN {p \in Plans : CanPlan(p, candle)} ELSE {}
    IN  {<<>>} \cup {<<p>> : p \in possible} \cup (possible \X possible)

\* capture: signal_candle and signal_index are those of the current candle.
Capture(p, key, id) ==
    [direction |-> p.direction, low |-> p.low, high |-> p.high, reference |-> p.reference,
     stop |-> p.stop, key |-> key, index |-> Len(replayed) + 1, id |-> id]
Captured(plans, key) ==
    [k \in 1..Len(plans) |-> Capture(plans[k], key, Len(signals) + k)]

Meets(trade, key, index) == trade.signal.index < index /\ trade.signal.key = key

\* One candle of the replay.
Replay(key, candle) ==
    /\ ~finished
    /\ Len(replayed) < CandleBound
    /\ replayed' = Append(replayed, [key |-> key, candle |-> candle])
    /\ \E plans \in PlansAt(key, candle) :
          /\ Len(signals) + Len(plans) <= SignalBound
          /\ LET opened == Captured(plans, key)
                 trades == pending \o [k \in 1..Len(opened) |-> OpenTrade(opened[k])]
                 after == [k \in 1..Len(trades) |->
                              IF Meets(trades[k], key, Len(replayed'))
                              THEN Advance(trades[k], candle) ELSE trades[k]]
             IN  /\ signals' = signals \o opened
                 /\ pending' = InState(after, Live)
                 /\ persisted' = persisted \o InState(after, {"CLOSED"})
    /\ UNCHANGED finished

\* last_candle[key], for a key that was replayed.
LastCandle(key) ==
    replayed[Max({i \in 1..Len(replayed) : replayed[i].key = key})].candle

\* Mutant of EndOfData: what is still open is dropped.
EndOfDataDrops ==
    /\ ~finished /\ finished' = TRUE
    /\ UNCHANGED <<replayed, pending, persisted, signals>>

\* The candles ran out: open trades are closed at the last close and stored.
EndOfData ==
    /\ ~finished /\ finished' = TRUE
    /\ LET after == [k \in 1..Len(pending) |->
                        CloseAtEndOfData(pending[k], LastCandle(pending[k].signal.key))]
       IN  /\ pending' = InState(after, Live)
           /\ persisted' = persisted \o InState(after, {"CLOSED"})
    /\ UNCHANGED <<replayed, signals>>

Init ==
    /\ replayed = <<>>
    /\ pending = <<>>
    /\ persisted = <<>>
    /\ signals = <<>>
    /\ finished = FALSE

Next == (\E key \in Keys, candle \in Candles : Replay(key, candle)) \/ EndOfData

Spec == Init /\ [][Next]_vars

-----------------------------------------------------------------------------
(* Properties *)

\* The candles of a signal's pair and timeframe that followed it.
Following(s) ==
    LET upto[n \in s.index..Len(replayed)] ==
            IF n = s.index THEN <<>>
            ELSE IF replayed[n].key = s.key THEN Append(upto[n - 1], replayed[n].candle)
            ELSE upto[n - 1]
    IN  upto[Len(replayed)]

Trades == Range(pending) \cup Range(persisted)

\* CanonicalTradeSimulator.simulate: one plan over the candles after its signal.
Advanced(s, candles) ==
    LET after[n \in 0..Len(candles)] ==
            IF n = 0 THEN OpenTrade(s) ELSE Advance(after[n - 1], candles[n])
    IN  after[Len(candles)]
Simulated(s) ==
    LET candles == Following(s)
    IN  IF candles = <<>> THEN OpenTrade(s)
        ELSE CloseAtEndOfData(Advanced(s, candles), candles[Len(candles)])

\* _build_random_entry_candidates: the zone and the risk of a plan, moved to the
\* close of a candle of the primary timeframe.
RandomCandidate(p, i) ==
    LET close == replayed[i].candle.close
    IN  [direction |-> p.direction, low |-> close - (p.reference - p.low),
         high |-> close + (p.high - p.reference), reference |-> close,
         stop |-> close - Sign(p) * Risk(p), key |-> replayed[i].key, index |-> i, id |-> 0]
PrimaryIndexes == {i \in 1..Len(replayed) : replayed[i].key \in PrimaryKeys}
Template(i) == signals[((Cardinality(PrimaryIndexes \cap (1..i)) - 1) % Len(signals)) + 1]
RandomCandidates ==
    IF signals = <<>> THEN {} ELSE {RandomCandidate(Template(i), i) : i \in PrimaryIndexes}

\* The runner, which advances many trades through one interleaved replay, and the
\* simulator of the validation, which replays each plan alone, agree: every
\* signal whose trade was entered is stored once with the same outcome, every
\* other one not at all.
RunnerMatchesSimulator ==
    finished =>
        \A i \in 1..Len(signals) :
            LET rows == {k \in 1..Len(persisted) : persisted[k].signal.id = i}
                alone == Simulated(signals[i])
            IN  IF alone.state = "CLOSED"
                THEN \E k \in rows : rows = {k} /\ persisted[k] = alone
                ELSE rows = {}

\* The gross result of a stored trade is what its fills paid: every leg at its
\* target price, the rest at the exit price, the whole position and no more.  It
\* was entered, as _persist_trade asserts.
GrossMatchesFills ==
    \A t \in Range(persisted) : t.since_entry # 0 /\
        LET s == t.signal
            payment == [l \in LegNumbers |-> (TargetPrice(s, l) - s.reference) * Legs[l].size]
            paid == SumFunctionOnSet(payment, Filled(t))
            sold == SumFunctionOnSet(Sizes, Filled(t))
        IN  GrossR(t) = Sign(s) * RUnit * (paid + (t.exit - s.reference) * (100 - sold))

\* The k-th bar since the entry of a trade that was entered.
BarSinceEntry(t, k) == Following(t.signal)[t.since_signal - t.since_entry + k]

\* The stop in force when that bar opened, from the legs filled before it.
StopBefore(t, k) ==
    IF \E l \in LegNumbers : t.fills[l] \in 1..(k - 1) /\ BreakevenAfter \in 1..l
    THEN InR(t.signal, BreakevenOffset) ELSE t.signal.stop

\* CONTEXT.md, "Official V1 intrabar replay policy": no target is filled on a
\* candle that reached the stop in force, and a stopped trade was reached by its
\* candle.
PessimisticFills ==
    \A t \in Trades :
        /\ \A l \in LegNumbers :
              t.fills[l] # 0 =>
                  Sign(t.signal) * Worst(t.signal, BarSinceEntry(t, t.fills[l]))
                     > Sign(t.signal) * StopBefore(t, t.fills[l])
        /\ t.reason \in {"SL", "STOP_AFTER_PARTIAL_TP"} =>
              /\ t.exit = StopBefore(t, t.since_entry)
              /\ Sign(t.signal) * Worst(t.signal, BarSinceEntry(t, t.since_entry))
                    <= Sign(t.signal) * t.exit

\* Whatever closes a trade, it loses at most the R it risked: the time stop and
\* the end of the data never find it beyond its stop.  A random entry, which
\* may be anywhere, risks what its template risks and is bounded as well.
LossIsBounded ==
    /\ \A t \in Range(persisted) : GrossR(t) >= -(100 * RUnit * Risk(t.signal))
    /\ finished =>
          \A c \in RandomCandidates :
              LET t == Simulated(c)
              IN  /\ \E i \in 1..Len(signals) : Risk(c) = Risk(signals[i])
                  /\ t.state = "CLOSED" => GrossR(t) >= -(100 * RUnit * Risk(c))

=============================================================================
