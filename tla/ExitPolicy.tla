----------------------------- MODULE ExitPolicy -----------------------------
(***************************************************************************)
(* app/backtest/exits.py: how one simulated trade lives through the closed *)
(* candles after its signal.  A trade waits for its entry zone, is closed  *)
(* by its stop, by its last target leg, by the time stop or by the end of  *)
(* the data, and may be scaled out of in legs that move the stop.          *)
(*                                                                         *)
(* Prices are integers.  Targets and the breakeven offset are counted in   *)
(* parts of R, the distance from the entry to the initial stop: RUnit of   *)
(* them make one R.  Excursions (mfe_r, mae_r), times and costs are left   *)
(* out: nothing is decided by them.                                        *)
(***************************************************************************)
EXTENDS Integers, Sequences, FiniteSetsExt, Functions

CONSTANTS
    Legs,             \* exit_policy.legs: [target, size], in configured order
    BreakevenAfter,   \* move_stop_to_breakeven_after_leg, 0 when disabled
    BreakevenOffset,  \* breakeven_offset_r, in parts of R
    TimeStop,         \* time_stop_bars, 0 when disabled
    RUnit             \* the parts one R has

LegNumbers == 1..Len(Legs)
Sizes == [l \in LegNumbers |-> Legs[l].size]

\* What load_settings accepts; it does not look at the breakeven offset.
ASSUME PolicyAssumption ==
    /\ Legs \in Seq([target : Nat \ {0}, size : Nat \ {0}])
    /\ LegNumbers # {}
    /\ SumFunctionOnSet(Sizes, LegNumbers) = 100
    /\ BreakevenAfter \in 0..Len(Legs)
    /\ BreakevenOffset \in Int /\ TimeStop \in Nat /\ RUnit \in Nat \ {0}

-----------------------------------------------------------------------------
(* Prices *)

\* A bearish trade is a bullish one with the sign of every price changed.
Sign(s) == IF s.direction = "BULLISH" THEN 1 ELSE -1
Best(s, candle) == IF s.direction = "BULLISH" THEN candle.high ELSE candle.low
Worst(s, candle) == IF s.direction = "BULLISH" THEN candle.low ELSE candle.high

Risk(s) == Sign(s) * (s.reference - s.stop)
InR(s, parts) == s.reference + Sign(s) * ((Risk(s) * parts) \div RUnit)
TargetPrice(s, l) == InR(s, Legs[l].target)

Touches(s, candle) == candle.low <= s.high /\ candle.high >= s.low
StopHit(trade, candle) ==
    Sign(trade.signal) * Worst(trade.signal, candle) <= Sign(trade.signal) * trade.stop
TargetsHit(trade, candle) ==
    {l \in LegNumbers :
        /\ trade.fills[l] = 0
        /\ Sign(trade.signal) * Best(trade.signal, candle)
             >= Sign(trade.signal) * TargetPrice(trade.signal, l)}

-----------------------------------------------------------------------------
(* One trade *)

\* fills[l] is the bar since the entry at which leg l was filled, 0 before.
OpenTrade(s) ==
    [signal |-> s, state |-> "AWAITING_ENTRY", stop |-> s.stop, since_signal |-> 0,
     since_entry |-> 0, fills |-> [l \in LegNumbers |-> 0], remaining |-> 100,
     reason |-> "none", method |-> "none", exit |-> 0]

CloseAt(trade, reason, method, price) ==
    [trade EXCEPT !.state = "CLOSED", !.reason = reason, !.method = method, !.exit = price]

\* The zone is not touched: the trade goes on waiting, up to the time stop.
Unfilled(trade) ==
    IF TimeStop # 0 /\ trade.since_signal > TimeStop
    THEN [trade EXCEPT !.state = "EXPIRED_UNFILLED"] ELSE trade

\* _close_at_stop: the stop in force, also when targets were reached as well.
StoppedOut(trade, hit) ==
    CloseAt(trade,
            IF \E l \in LegNumbers : trade.fills[l] # 0 THEN "STOP_AFTER_PARTIAL_TP" ELSE "SL",
            IF hit # {} THEN "SAME_CANDLE" ELSE "SL_ONLY",
            trade.stop)

\* legs.index(leg): legs are compared by value, so of equal legs that filled on
\* one candle the first is found.
LegIndex(fills, l) == Min({j \in LegNumbers : Legs[j] = Legs[l] /\ fills[j] = fills[l]})

\* Mutant of FillLegs: the filled size is not taken off.
FillLegsOnly(trade, hit) ==
    LET fills == [l \in LegNumbers |-> IF l \in hit THEN trade.since_entry ELSE trade.fills[l]]
        moves == BreakevenAfter # 0 /\ \E l \in hit : LegIndex(fills, l) >= BreakevenAfter
    IN  [trade EXCEPT !.fills = fills,
                      !.stop = IF moves THEN InR(trade.signal, BreakevenOffset) ELSE @]

\* The legs whose target was reached are filled, and may move the stop.
FillLegs(trade, hit) ==
    LET fills == [l \in LegNumbers |-> IF l \in hit THEN trade.since_entry ELSE trade.fills[l]]
        moves == BreakevenAfter # 0 /\ \E l \in hit : LegIndex(fills, l) >= BreakevenAfter
    IN  [trade EXCEPT !.fills = fills,
                      !.remaining = @ - SumFunctionOnSet(Sizes, hit),
                      !.stop = IF moves THEN InR(trade.signal, BreakevenOffset) ELSE @]

\* After the legs: everything sold, or the time stop.
LegsDone(trade, candle) ==
    IF \A l \in LegNumbers : trade.fills[l] # 0
    THEN CloseAt(trade, "LAST_LEG", "TP_ONLY", TargetPrice(trade.signal, Len(Legs)))
    ELSE IF TimeStop # 0 /\ trade.since_entry >= TimeStop
         THEN CloseAt(trade, "TIME_STOP", "TIME_STOP", candle.close)
         ELSE trade

\* Mutant of OnMarket: targets are looked at before the stop.
TargetsFirst(trade, candle) ==
    LET hit == TargetsHit(trade, candle)
    IN  IF hit # {} THEN LegsDone(FillLegs(trade, hit), candle)
        ELSE IF StopHit(trade, candle) THEN StoppedOut(trade, {}) ELSE LegsDone(trade, candle)

\* Mutant of OnMarket: the time stop is looked at before the stop.
TimeStopFirst(trade, candle) ==
    IF TimeStop # 0 /\ trade.since_entry >= TimeStop
    THEN CloseAt(trade, "TIME_STOP", "TIME_STOP", candle.close)
    ELSE IF StopHit(trade, candle) THEN StoppedOut(trade, TargetsHit(trade, candle))
    ELSE LegsDone(FillLegs(trade, TargetsHit(trade, candle)), candle)

\* An open trade meets a candle: the stop comes first.
OnMarket(trade, candle) ==
    IF StopHit(trade, candle) THEN StoppedOut(trade, TargetsHit(trade, candle))
    ELSE LegsDone(FillLegs(trade, TargetsHit(trade, candle)), candle)

\* ExitPolicyEngine.advance.  The entry is filled at the reference price, and the
\* candle that touches the zone is the first one the open trade meets.
Advance(trade, candle) ==
    LET waiting == [trade EXCEPT !.since_signal = @ + 1]
        open == [waiting EXCEPT !.state = "OPEN", !.since_entry = @ + 1]
    IN  IF trade.state \in {"CLOSED", "EXPIRED_UNFILLED"} THEN trade
        ELSE IF trade.state = "AWAITING_ENTRY" /\ ~Touches(trade.signal, candle)
        THEN Unfilled(waiting)
        ELSE OnMarket(open, candle)

\* Only an entered trade is closed when the candles run out.
CloseAtEndOfData(trade, candle) ==
    IF trade.state = "OPEN"
    THEN CloseAt(trade, "END_OF_DATA", "END_OF_DATA", candle.close) ELSE trade

\* gross_r, in units of 1 / (100 * RUnit * risk) of an R.
Filled(trade) == {l \in LegNumbers : trade.fills[l] # 0}
GrossR(trade) ==
    LET s == trade.signal
        earned == [l \in LegNumbers |-> Legs[l].target * Legs[l].size * Risk(s)]
    IN  SumFunctionOnSet(earned, Filled(trade))
        + Sign(s) * (trade.exit - s.reference) * RUnit * trade.remaining
=============================================================================
