---------------------------- MODULE CsdStrategy ----------------------------
(***************************************************************************)
(* CSDStrategyEngine on the primary timeframe of one symbol: swing         *)
(* detection, market structure, change-of-structure (CSD) breaks, the      *)
(* breakout setup that waits for its retest, and the signals they produce. *)
(* The engine keeps its state per (symbol, timeframe); no key reads        *)
(* another's setup, so one key is modelled.                                *)
(*                                                                         *)
(* A bar is a closed candle in the store, numbered by open time.  The feed *)
(* stores bars (also without evaluating them: REST reconciliation) and     *)
(* gives each to the engine at most once and in order (MarketFeed).        *)
(* Indicators, scores and risk figures are abstracted to the outcome of    *)
(* the assessment.                                                         *)
(***************************************************************************)
EXTENDS Integers, Sequences, FiniteSets

CONSTANTS
    Bars,         \* the candles that may close: [low, high, close]
    Histories,    \* the closed candles the REST bootstrap may have stored
    LeftBars, RightBars,  \* settings.swing
    MinDistance,  \* csd.minimum_close_distance: how far beyond the swing
    ZoneOffset,   \* half the width of the retest zone
    MaxWait,      \* retest.maximum_bars_after_breakout
    EntryMode,    \* variants.entry_mode
    Window,       \* the candles on_candle_closed reads from the store
    BarBound,     \* bound: bars stored
    LagBound,     \* bound: bars stored and not yet evaluated
    RestartBound  \* bound: restarts of the engine

ASSUME SettingsAssumption ==
    /\ LeftBars \in Nat \ {0} /\ RightBars \in Nat \ {0}
    /\ MinDistance \in Nat /\ ZoneOffset \in Nat /\ MaxWait \in Nat
    /\ EntryMode \in {"retest", "immediate", "both"}
    /\ Window \in Nat \ {0}
    /\ BarBound \in Nat /\ LagBound \in Nat /\ RestartBound \in Nat

ASSUME BarsAssumption ==
    /\ Bars \subseteq {b \in [low : Nat, high : Nat, close : Nat] :
                         b.low <= b.close /\ b.close <= b.high}
    /\ Histories \subseteq Seq(Bars)
    /\ \A h \in Histories : Len(h) <= BarBound

VARIABLES
    bars,     \* CandleStore: the closed candles of the symbol
    booted,   \* how many of them the REST bootstrap of this run stored
    seen,     \* history: the bars on_candle_closed was given in this run
    setup,    \* BreakoutEngine._setups[key]
    emitted,  \* CSDEngine._emitted_breaks, as triggers
    signals,  \* history: the risk analyses emitted, oldest first
    failures, \* history: the triggers whose setup failed, with the run
    session   \* the number of the engine's run

vars == <<bars, booted, seen, setup, emitted, signals, failures, session>>

Directions == {"BULLISH", "BEARISH"}
Modes == {"retest", "immediate"}
Indices == 1..BarBound

\* The structure event behind a setup: signal ids are built from the same data.
Trigger == [direction : Directions, swing : Indices]
NoTrigger == [direction |-> "none", swing |-> 0]

\* `start` is the bar of source_csd; `end` the bar of the event that resolved it.
Status == {"none", "PENDING_RETEST", "RETEST_DETECTED", "INVALIDATED", "EXPIRED"}
Setup == [trigger : Trigger, status : Status, level : Nat, bars : 0..(MaxWait + 1),
          start : Indices, end : 0..BarBound]
NoSetup == [trigger |-> NoTrigger, status |-> "none", level |-> 0, bars |-> 0,
            start |-> 0, end |-> 0]

Signal(trigger, mode, e) ==
    [trigger |-> trigger, mode |-> mode, bar |-> e, session |-> session]

TypeOK ==
    /\ bars \in Seq(Bars)
    /\ Len(bars) <= BarBound
    /\ booted \in 0..Len(bars)
    /\ seen \subseteq (booted + 1)..Len(bars)
    /\ setup \in Setup \cup {NoSetup}
    /\ emitted \subseteq Trigger
    /\ signals \in Seq([trigger : Trigger, mode : Modes, bar : Indices, session : Nat])
    /\ failures \subseteq Trigger \X Nat
    /\ session \in Nat

-----------------------------------------------------------------------------
(* Swings and structure, on the bars first..last *)

\* The newest of a set of bars, 0 when there is none.
Newest(S) ==
    LET top == {i \in S : \A j \in S : j <= i}
    IN  IF top = {} THEN 0 ELSE CHOOSE i \in top : TRUE

Side(b, direction) == IF direction = "BULLISH" THEN b.high ELSE b.low

\* Does value x lie strictly beyond y, away from the other side of the market.
Beyond(direction, x, y) == IF direction = "BULLISH" THEN x > y ELSE x < y

\* SwingDetector.detect: a swing high (broken by a bullish CSD) or low exceeds
\* the LeftBars before it and the RightBars after it.
Swings(direction, first, last) ==
    {i \in (first + LeftBars)..(last - RightBars) :
        \A k \in ((i - LeftBars)..(i + RightBars)) \ {i} :
            Beyond(direction, Side(bars[i], direction), Side(bars[k], direction))}

\* MarketStructureEngine.evaluate against the preceding swing of the same type:
\* LH is not above it, HL is above it.  The first swing of a type has no kind.
Meaningful(direction, swings) ==
    {i \in swings :
        LET previous == Newest({j \in swings : j < i})
        IN  /\ previous # 0
            /\ IF direction = "BULLISH" THEN bars[i].high <= bars[previous].high
                                       ELSE bars[i].low > bars[previous].low}

\* The swings on_candle_closed sees for bar e: those of the last Window bars up
\* to e that are confirmed by e.
FirstRead(e) == IF e > Window THEN e - Window + 1 ELSE 1
Visible(direction, e) ==
    {i \in Swings(direction, FirstRead(e), e) : i + RightBars <= e}

\* CSDEngine._latest_swing: the newest LH above, or HL below; 0 if there is none.
LatestSwing(direction, e) == Newest(Meaningful(direction, Visible(direction, e)))

Distance(x, y) == IF x > y THEN x - y ELSE y - x

\* The close of bar e is beyond the latest swing of this direction.
Breaks(direction, e) ==
    LET i == LatestSwing(direction, e)
    IN  i # 0 /\ Beyond(direction, bars[e].close, Side(bars[i], direction))

\* CSDEngine.evaluate: the bullish break is looked at first, and the bearish one
\* only when the close is not beyond the bullish swing.
BreakDirection(e) ==
    IF Breaks("BULLISH", e) THEN "BULLISH"
    ELSE IF Breaks("BEARISH", e) THEN "BEARISH" ELSE "none"

Broken(direction, e) == [direction |-> direction, swing |-> LatestSwing(direction, e)]

FarEnough(direction, e) ==
    LET i == LatestSwing(direction, e)
    IN  Distance(bars[e].close, Side(bars[i], direction)) >= MinDistance

\* Mutant of Csd: _emitted_breaks is not consulted.
CsdEveryClose(e) ==
    LET direction == BreakDirection(e)
    IN  IF direction # "none" /\ FarEnough(direction, e)
        THEN Broken(direction, e) ELSE NoTrigger

\* CSDEngine._emit: far enough, and each swing at most once.
Csd(e) ==
    LET direction == BreakDirection(e)
    IN  IF direction # "none" /\ FarEnough(direction, e) /\ Broken(direction, e) \notin emitted
        THEN Broken(direction, e) ELSE NoTrigger

-----------------------------------------------------------------------------
(* The pending setup: RetestEngine.evaluate for bar e *)

Pending(su) == su.status = "PENDING_RETEST"

\* BreakoutEngine.advance
Advanced == [setup EXCEPT !.bars = @ + 1]

ZoneTouched(su, b) == b.low <= su.level + ZoneOffset /\ b.high >= su.level - ZoneOffset
ClosesValid(su, b) == Beyond(su.trigger.direction, b.close, su.level)
\* Mutant of ClosesInvalid: a close through the level counts inside the zone only.
ClosesInvalidInZone(su, b) ==
    ZoneTouched(su, b) /\ Beyond(su.trigger.direction, su.level, b.close)
ClosesInvalid(su, b) == Beyond(su.trigger.direction, su.level, b.close)

\* Mutant of RetestOutcome: the window is looked at last.
OutcomeWindowLast(b) ==
    IF ClosesInvalid(setup, b) THEN "INVALIDATED"
    ELSE IF ZoneTouched(setup, b) /\ ClosesValid(setup, b) THEN "RETEST_DETECTED"
    ELSE IF Advanced.bars > MaxWait THEN "EXPIRED" ELSE "PENDING_RETEST"

\* The window first, then a close through the level, then the retest.
RetestOutcome(b) ==
    IF Advanced.bars > MaxWait THEN "EXPIRED"
    ELSE IF ClosesInvalid(setup, b) THEN "INVALIDATED"
    ELSE IF ZoneTouched(setup, b) /\ ClosesValid(setup, b) THEN "RETEST_DETECTED"
    ELSE "PENDING_RETEST"

\* Mutant of AfterRetest: an invalidation is reported but not stored.
AfterRetestUnresolved(e) ==
    IF ~Pending(setup) THEN setup
    ELSE LET outcome == RetestOutcome(bars[e])
         IN  IF outcome = "INVALIDATED" THEN Advanced
             ELSE [Advanced EXCEPT !.status = outcome,
                                   !.end = IF outcome = "PENDING_RETEST" THEN 0 ELSE e]

AfterRetest(e) ==
    IF ~Pending(setup) THEN setup
    ELSE LET outcome == RetestOutcome(bars[e])
         IN  [Advanced EXCEPT !.status = outcome,
                              !.end = IF outcome = "PENDING_RETEST" THEN 0 ELSE e]

Detected(e) == Pending(setup) /\ RetestOutcome(bars[e]) = "RETEST_DETECTED"

FailuresAfter(e) ==
    IF Pending(setup) /\ RetestOutcome(bars[e]) \in {"INVALIDATED", "EXPIRED"}
    THEN failures \cup {<<setup.trigger, session>>} ELSE failures

\* BreakoutEngine.start: whatever setup the key had is replaced.
Started(trigger, e) ==
    [trigger |-> trigger, status |-> "PENDING_RETEST",
     level |-> Side(bars[trigger.swing], trigger.direction),
     bars |-> 0, start |-> e, end |-> 0]

-----------------------------------------------------------------------------
(* on_candle_closed *)

\* The assessments bar e calls for, in order.
RetestCall(e) ==
    IF Detected(e) /\ EntryMode \in {"retest", "both"}
    THEN <<Signal(setup.trigger, "retest", e)>> ELSE <<>>
ImmediateCall(e) ==
    IF Csd(e) # NoTrigger /\ EntryMode \in {"immediate", "both"}
    THEN <<Signal(Csd(e), "immediate", e)>> ELSE <<>>

\* _assess emits the risk analysis, or not: the score is below GOOD_SIGNAL, or
\* the risk plan is refused with ValueError.
Produced(call, emits) == IF emits THEN call ELSE <<>>

\* Mutant of Unseen: the bars of the bootstrap are published as well.
UnseenFromFirst == {e \in 1..Len(bars) : \A i \in seen : i < e}

\* The feed publishes a bar that closed in this run, after those published before.
Unseen == {e \in (booted + 1)..Len(bars) : \A i \in seen : i < e}

\* The whole handler, when nothing is raised.
OnCandleClosed(e) ==
    /\ e \in Unseen
    /\ seen' = seen \cup {e}
    /\ failures' = FailuresAfter(e)
    /\ IF Csd(e) = NoTrigger
       THEN setup' = AfterRetest(e) /\ emitted' = emitted
       ELSE setup' = Started(Csd(e), e) /\ emitted' = emitted \cup {Csd(e)}
    /\ \E retest, immediate \in BOOLEAN :
          signals' = signals \o Produced(RetestCall(e), retest)
                             \o Produced(ImmediateCall(e), immediate)
    /\ UNCHANGED <<bars, booted, session>>

\* The assessment of the retest raises (a score component out of range, or the
\* awaited handler): the structure of this bar is not evaluated.
RetestRaises(e) ==
    /\ e \in Unseen
    /\ RetestCall(e) # <<>>
    /\ seen' = seen \cup {e}
    /\ setup' = AfterRetest(e)
    /\ signals' \in {signals, signals \o RetestCall(e)}
    /\ UNCHANGED <<bars, booted, emitted, failures, session>>

\* The assessment of an immediate entry raises: the setup is already started.
ImmediateRaises(e) ==
    /\ e \in Unseen
    /\ ImmediateCall(e) # <<>>
    /\ seen' = seen \cup {e}
    /\ failures' = FailuresAfter(e)
    /\ setup' = Started(Csd(e), e)
    /\ emitted' = emitted \cup {Csd(e)}
    /\ \E retest, immediate \in BOOLEAN :
          signals' = signals \o Produced(RetestCall(e), retest)
                             \o Produced(ImmediateCall(e), immediate)
    /\ UNCHANGED <<bars, booted, session>>

\* The feed stores the next closed candle.
StoreBar(b) ==
    /\ Len(bars) < BarBound
    /\ Cardinality(Unseen) < LagBound
    /\ bars' = Append(bars, b)
    /\ UNCHANGED <<booted, seen, setup, emitted, signals, failures, session>>

\* The process is started again: the engine is rebuilt, the candles come back
\* from REST and are not evaluated.
Restart ==
    /\ session < RestartBound
    /\ session' = session + 1
    /\ booted' = Len(bars)
    /\ seen' = {}
    /\ setup' = NoSetup
    /\ emitted' = {}
    /\ UNCHANGED <<bars, signals, failures>>

Init ==
    /\ bars \in Histories
    /\ booted = Len(bars)
    /\ seen = {}
    /\ setup = NoSetup
    /\ emitted = {}
    /\ signals = <<>>
    /\ failures = {}
    /\ session = 0

Next ==
    \/ \E e \in 1..Len(bars) : OnCandleClosed(e) \/ RetestRaises(e) \/ ImmediateRaises(e)
    \/ \E b \in Bars : StoreBar(b)
    \/ Restart

Spec == Init /\ [][Next]_vars

-----------------------------------------------------------------------------
(* Properties *)

AbstractStatus ==
    CASE setup.status = "none" -> "none"
      [] setup.status = "PENDING_RETEST" -> "pending"
      [] setup.status = "RETEST_DETECTED" -> "retested"
      [] setup.status \in {"INVALIDATED", "EXPIRED"} -> "failed"

Contract == INSTANCE SetupContract WITH
    Triggers <- Trigger, Patience <- MaxWait, used <- emitted,
    current <- setup.trigger, status <- AbstractStatus, waited <- setup.bars

\* BreakoutEngine, RetestEngine and CSDEngine together keep the promise of
\* SetupContract: one setup per structure trigger, a bounded wait, one end.
ImplementsContract == Contract!Spec

\* In one run of the engine a structure trigger gives at most one signal per
\* entry mode, however often price closes beyond the same swing.
OneSignalPerTrigger ==
    \A j, k \in 1..Len(signals) :
        (/\ signals[j].trigger = signals[k].trigger
         /\ signals[j].mode = signals[k].mode
         /\ signals[j].session = signals[k].session) => j = k

\* A setup that was invalidated or expired gives no retest signal in that run.
FailedTriggerNeverSignals ==
    \A k \in 1..Len(signals) :
        signals[k].mode = "retest" => <<signals[k].trigger, signals[k].session>> \notin failures

\* Price reclaims the level from the zone, or gives the level up.
Reclaims(direction, level, b) ==
    IF direction = "BULLISH" THEN b.low <= level + ZoneOffset /\ b.close > level
                             ELSE b.high >= level - ZoneOffset /\ b.close < level
GivesUp(direction, level, b) ==
    IF direction = "BULLISH" THEN b.close < level ELSE b.close > level

\* The evaluated bars after the breakout, before the setup ended if it did.
Waited == {i \in seen : setup.start < i /\ (setup.end # 0 => i < setup.end)}

\* A retest is the first evaluated candle after the breakout candle that comes
\* back and holds, and no candle before it closed through the level: a setup
\* does not survive a failure and does not overlook a retest.
RetestIsFirstReturn ==
    setup.status \in {"PENDING_RETEST", "RETEST_DETECTED"} =>
        /\ \A i \in Waited :
              /\ ~Reclaims(setup.trigger.direction, setup.level, bars[i])
              /\ ~GivesUp(setup.trigger.direction, setup.level, bars[i])
        /\ setup.end # 0 =>
              Reclaims(setup.trigger.direction, setup.level, bars[setup.end])
=============================================================================
