----------------------------- MODULE Assessment -----------------------------
(***************************************************************************)
(* The evidence behind a signal.  CSDStrategyEngine keeps the indicators   *)
(* of the candle it was last given on every timeframe; an assessment on    *)
(* the primary timeframe reads those of the confirmation timeframes,       *)
(* ConfirmationEngine and ScoringEngine turn them into a score, and the    *)
(* score decides whether there is a signal.  What an assessment may know   *)
(* is therefore a matter of the order in which candles are given:          *)
(* the live feed gives each when it closes, a replay sorts them by open    *)
(* time.  Which setups exist is CsdStrategy; here one is any that may be.  *)
(*                                                                         *)
(* Time is counted in primary candles, qualities in percent rounded down.  *)
(* A value that may be None is a set of at most one element.               *)
(***************************************************************************)
EXTENDS Integers, Sequences, FiniteSets

CONSTANTS
    Feed,            \* "live" or "replay"
    Timeframes,      \* the symbol's timeframes, in the order they are loaded
    Duration(_),     \* structure.timeframes.duration, in primary candles
    Readings,        \* the indicators a primary candle may have:
                     \*   [ema, rsi, macd, volume, atr, close]
    Setups,          \* the setups it may assess: [direction, distance]
    RetestQualities, \* where in its range a retest candle may close
    VolumeMinimums,  \* the confirmation.volume_ratio_minimum that are tried
    RsiBullish, RsiBearish,  \* confirmation.rsi_bullish_minimum, _bearish_maximum
    CsdSaturation, BreakoutSaturation, EmaSaturation, MacdSaturation,  \* scoring.*_saturation_percent
    Weights,         \* twice the scoring.*_weight
    HighAtr, LowAtr, TrendSeparation, RangeSeparation,  \* regime.*_percent
    EntryMode,       \* variants.entry_mode
    Horizon,         \* bound: primary candles
    FaultBound       \* bound: restarts and runs of missed candles

Primary == Timeframes[1]
Higher == {Timeframes[i] : i \in 2..Len(Timeframes)}

\* What load_settings accepts of a configuration.
AcceptedTimeframes ==
    /\ Len(Timeframes) \in Nat \ {0}
    /\ \A i, j \in 1..Len(Timeframes) : Timeframes[i] = Timeframes[j] => i = j
AcceptedRegime ==
    /\ LowAtr \in Nat /\ HighAtr \in Nat /\ LowAtr <= HighAtr
    /\ RangeSeparation \in Nat /\ TrendSeparation \in Nat /\ RangeSeparation <= TrendSeparation
AcceptedConfirmation == {RsiBullish, RsiBearish} \subseteq 0..100 /\ VolumeMinimums \subseteq Nat
Components == {"csd", "breakout", "retest", "ema", "rsi", "macd", "volume", "htf"}
AcceptedScoring ==
    /\ {CsdSaturation, BreakoutSaturation, EmaSaturation, MacdSaturation} \subseteq Nat \ {0}
    /\ Weights \in [Components -> Nat \ {0}]
AcceptedVariant == EntryMode \in {"retest", "immediate", "both"}

ASSUME SettingsAssumption ==
    /\ AcceptedTimeframes /\ AcceptedRegime /\ AcceptedConfirmation
    /\ AcceptedScoring /\ AcceptedVariant

ASSUME FeedAssumption ==
    /\ Feed \in {"live", "replay"}
    /\ \A i \in 1..Len(Timeframes) : Duration(Timeframes[i]) \in Nat \ {0}
    /\ Duration(Primary) = 1
    /\ Horizon \in Nat /\ FaultBound \in Nat

\* What IndicatorEngine, BreakoutEngine and RetestEngine can come to: an RSI and
\* the quality of a retest are percentages, a volume ratio and the distance of a
\* close beyond the broken level are not negative.
AtMostOne(S) == \A x, y \in S : x = y
IsReading(own) ==
    /\ own.ema \subseteq Int /\ own.macd \subseteq Int
    /\ own.rsi \subseteq 0..100
    /\ own.volume \subseteq Nat /\ AtMostOne(own.volume)

ASSUME EvidenceAssumption ==
    /\ \A own \in Readings : IsReading(own)
    /\ \A setup \in Setups : setup.distance \in Nat
    /\ RetestQualities \subseteq 0..100

VARIABLES
    given,     \* the candles whose turn has passed
    latest,    \* CSDStrategyEngine.latest_indicators of the higher timeframes
    actual,    \* history: what it would be in an engine that missed nothing
    missed,    \* history: the timeframes with a missed candle since the last given
    minimum,   \* confirmation.volume_ratio_minimum
    assessed,  \* history: the assessments of the last candle given, in order
    alive,     \* no assessment has raised in this run
    faults     \* bound: faults so far

vars == <<given, latest, actual, missed, minimum, assessed, alive, faults>>

Candles == {c \in [timeframe : Higher \cup {Primary}, open : 0..(Horizon - 1)] :
              c.open % Duration(c.timeframe) = 0}
Close(c) == c.open + Duration(c.timeframe)

-----------------------------------------------------------------------------
(* The order of the candles *)

Rank(c) == CHOOSE i \in 1..Len(Timeframes) : Timeframes[i] = c.timeframe

\* HistoricalReplay, HistoricalBacktestRunner and collect_strategy_plans sort
\* by open time; the sort keeps the loading order of equal ones.
OpensBefore(c, d) == c.open < d.open \/ (c.open = d.open /\ Rank(c) < Rank(d))

\* One connection carries the closing frames in the order the candles close;
\* those that close together come in any order.
ClosesBefore(c, d) == Close(c) < Close(d)

Before(c, d) == IF Feed = "replay" THEN OpensBefore(c, d) ELSE ClosesBefore(c, d)

Turn(c) == c \notin given /\ \A d \in Candles \ given : ~Before(d, c)

-----------------------------------------------------------------------------
(* Confirmation *)

Sign(direction) == IF direction = "BULLISH" THEN 1 ELSE -1
Size(x) == IF x < 0 THEN -x ELSE x

\* Mutant of Saturating: the quality is not capped.
Unlimited(x, saturation) == (x * 100) \div saturation
Saturating(x, saturation) == IF x >= saturation THEN 100 ELSE (x * 100) \div saturation

\* Readings.ema is the distance of EMA 10 above EMA 50, relative to EMA 50.
EmaQuality(direction, own) ==
    IF \E ema \in own.ema : Sign(direction) * ema > 0
    THEN LET ema == CHOOSE ema \in own.ema : TRUE IN Saturating(Size(ema), EmaSaturation) ELSE 0

RsiSupports(direction, rsi) ==
    IF direction = "BULLISH" THEN rsi >= RsiBullish ELSE rsi <= RsiBearish
RsiQuality(direction, own) ==
    IF \E rsi \in own.rsi : RsiSupports(direction, rsi)
    THEN LET rsi == CHOOSE rsi \in own.rsi : TRUE IN 2 * Size(rsi - 50) ELSE 0

MacdQuality(direction, own) ==
    IF \E histogram \in own.macd : Sign(direction) * histogram >= 0
    THEN LET histogram == CHOOSE histogram \in own.macd : TRUE
         IN  Saturating(Size(histogram), MacdSaturation)
    ELSE 0

\* The volume ratio and its minimum are in percent of the average volume.
VolumeQuality(own) ==
    IF \E ratio \in own.volume : ratio >= minimum
    THEN LET ratio == CHOOSE ratio \in own.volume : TRUE
         IN  IF minimum = 0 THEN 100 ELSE Saturating(ratio - 100, minimum)
    ELSE 0

\* Mutant of Agrees: a timeframe without indicators does not count against.
AgreesUnlessOpposed(direction, reading) == \A r \in reading : Sign(direction) * r.trend >= 0

\* _not_strongly_opposed: a timeframe without indicators does not agree.
Agrees(direction, reading) == \E r \in reading : Sign(direction) * r.trend >= 0

HtfQuality(direction, readings) ==
    LET agreeing == {tf \in Higher : Agrees(direction, readings[tf])}
    IN  IF Higher = {} THEN 0 ELSE (Cardinality(agreeing) * 100) \div Cardinality(Higher)

-----------------------------------------------------------------------------
(* RegimeClassifier.classify.  Readings.atr is the ATR relative to the close,  *)
(* Readings.close the side of EMA 50 the close is on.                          *)

Trend(ema, close) ==
    CASE ema > 0 /\ close >= 0 -> "TREND_UP"
      [] ema < 0 /\ close <= 0 -> "TREND_DOWN"
      [] OTHER -> "TRANSITION"

Regime(own) ==
    CASE \E atr \in own.atr : atr >= HighAtr -> "HIGH_VOLATILITY"
      [] \E atr \in own.atr : atr < HighAtr /\ atr <= LowAtr -> "LOW_VOLATILITY"
      [] OTHER ->
           IF \E ema \in own.ema : Size(ema) >= TrendSeparation
           THEN Trend(CHOOSE ema \in own.ema : TRUE, own.close)
           ELSE IF \E ema \in own.ema : Size(ema) <= RangeSeparation THEN "RANGE" ELSE "TRANSITION"

-----------------------------------------------------------------------------
(* The score.  Points are scaled: 240 are one, so ten are 2400. *)

Point == 240

Qualities(setup, retest, own, readings) ==
    [csd      |-> Saturating(setup.distance, CsdSaturation),
     breakout |-> Saturating(setup.distance, BreakoutSaturation),
     retest   |-> retest,
     ema      |-> EmaQuality(setup.direction, own),
     rsi      |-> RsiQuality(setup.direction, own),
     macd     |-> MacdQuality(setup.direction, own),
     volume   |-> VolumeQuality(own),
     htf      |-> HtfQuality(setup.direction, readings)]

Points(q, name) == q[name] * Weights[name]
Total(q) ==
    Points(q, "csd") + Points(q, "breakout") + Points(q, "retest") + Points(q, "ema") +
    Points(q, "rsi") + Points(q, "macd") + Points(q, "volume") + Points(q, "htf")

Scorable(q) == \A name \in Components : q[name] \in 0..100

Classify(total) ==
    IF total < 3 * Point THEN "NO_TRADE"
    ELSE IF total < 5 * Point THEN "WATCH"
    ELSE IF 2 * total < 15 * Point THEN "GOOD_SIGNAL" ELSE "STRONG_SIGNAL"

\* "It deliberately carries no retest credit."
ImmediateRetest == 0

\* CSDStrategyEngine._assess on candle c; `outcome` is the classification, or
\* "raised" when ScoringEngine.score refuses the qualities.
Assess(c, mode, setup, retest, own) ==
    LET q == Qualities(setup, retest, own, latest)
    IN  [candle |-> c, mode |-> mode, setup |-> setup, retest |-> retest, own |-> own,
         used |-> latest, actual |-> actual, missed |-> missed, regime |-> Regime(own),
         total |-> IF Scorable(q) THEN Total(q) ELSE 0,
         outcome |-> IF Scorable(q) THEN Classify(Total(q)) ELSE "raised"]

Raised(assessment) == assessment.outcome = "raised"

-----------------------------------------------------------------------------
(* on_candle_closed *)

\* Mutant of Recorded: the first indicators of a run are kept.
RecordedOnce(readings, tf, reading) ==
    IF readings[tf] = {} THEN [readings EXCEPT ![tf] = {reading}] ELSE readings
Recorded(readings, tf, reading) == [readings EXCEPT ![tf] = {reading}]

Pass(c) == given' = given \cup {c}

\* A candle of a higher timeframe only leaves its indicators behind.
GiveHigher(c, trend) ==
    LET reading == [open |-> c.open, trend |-> trend]
    IN  /\ Turn(c) /\ alive
        /\ Pass(c)
        /\ latest' = Recorded(latest, c.timeframe, reading)
        /\ actual' = [actual EXCEPT ![c.timeframe] = {reading}]
        /\ missed' = missed \ {c.timeframe}
        /\ assessed' = <<>>
        /\ UNCHANGED <<minimum, alive, faults>>

Retests(c, own) ==
    {Assess(c, "retest", setup, retest, own) : setup \in Setups, retest \in RetestQualities}
Immediates(c, own) ==
    {Assess(c, "immediate", setup, ImmediateRetest, own) : setup \in Setups}

\* A primary candle: the retest of a pending setup is assessed first, then the
\* break of the same candle; an assessment that raises ends the handler and
\* with it the task that called it.
GivePrimary(c, own) ==
    /\ Turn(c) /\ alive
    /\ Pass(c)
    /\ \/ assessed' = <<>>
       \/ /\ EntryMode \in {"retest", "both"}
          /\ \E a \in Retests(c, own) : assessed' = <<a>>
       \/ /\ EntryMode \in {"immediate", "both"}
          /\ \E a \in Immediates(c, own) : assessed' = <<a>>
       \/ /\ EntryMode = "both"
          /\ \E a \in {r \in Retests(c, own) : ~Raised(r)}, b \in Immediates(c, own) :
                assessed' = <<a, b>>
    /\ alive' = \A i \in 1..Len(assessed') : ~Raised(assessed'[i])
    /\ UNCHANGED <<latest, actual, missed, minimum, faults>>

\* The candle closes while the connection is down: the reconciliation stores it
\* and the strategy is not given it.
Miss(c, trend) ==
    /\ Feed = "live" /\ Turn(c) /\ alive
    /\ faults < FaultBound /\ faults' = faults + 1
    /\ Pass(c)
    /\ IF c.timeframe = Primary THEN UNCHANGED <<actual, missed>>
       ELSE /\ actual' = [actual EXCEPT ![c.timeframe] = {[open |-> c.open, trend |-> trend]}]
            /\ missed' = missed \cup {c.timeframe}
    /\ assessed' = <<>>
    /\ UNCHANGED <<latest, minimum, alive>>

\* A new run of the engine: no indicators until a candle closes.
Restart ==
    /\ Feed = "live"
    /\ faults < FaultBound /\ faults' = faults + 1
    /\ latest' = [tf \in Higher |-> {}]
    /\ missed' = {}
    /\ assessed' = <<>>
    /\ alive' = TRUE
    /\ UNCHANGED <<given, actual, minimum>>

Init ==
    /\ given = {}
    /\ latest = [tf \in Higher |-> {}]
    /\ actual = latest
    /\ missed = {}
    /\ minimum \in VolumeMinimums
    /\ assessed = <<>>
    /\ alive = TRUE
    /\ faults = 0

Trends == {-1, 0, 1}

Next ==
    \/ \E c \in Candles, trend \in Trends :
          c.timeframe # Primary /\ GiveHigher(c, trend)
    \/ \E c \in Candles, own \in Readings :
          c.timeframe = Primary /\ GivePrimary(c, own)
    \/ \E c \in Candles, trend \in Trends : Miss(c, trend)
    \/ Restart

Spec == Init /\ [][Next]_vars

-----------------------------------------------------------------------------
(* Properties *)

Assessments == {assessed[i] : i \in 1..Len(assessed)}

\* CODEX-IMPLEMENTATION-PROMPT-V2.md: "Every number the strategy sees must be
\* causally available at that moment in time": the candles behind the
\* confirmation have closed when the assessed candle closes.
CausallyAvailable ==
    \A a \in Assessments : \A tf \in Higher : \A r \in a.used[tf] :
        Close([timeframe |-> tf, open |-> r.open]) <= Close(a.candle)

\* The confirmation is not out of date either: unless a candle was missed, no
\* later candle of the timeframe had closed before the assessed one.
ConfirmationIsCurrent ==
    \A a \in Assessments : \A tf \in Higher \ a.missed : \A r \in a.used[tf] :
        \A c \in Candles :
            c.timeframe = tf /\ Close(c) < Close(a.candle) => c.open <= r.open

\* What an engine does not know after a restart can only cost points: it does
\* not announce a setup that an engine running all along would not announce.
RestartNeverAddsSignals ==
    \A a \in Assessments :
        (\A tf \in Higher : a.used[tf] \subseteq a.actual[tf]) /\ ~Raised(a) =>
            a.total <= Total(Qualities(a.setup, a.retest, a.own, a.actual))

\* A score is worth 0 to 10 (README.md:31), and score() refuses qualities out of
\* [0, 1] with an exception nobody handles.  Only a volume minimum below the
\* average volume, which load_settings accepts, lets the evidence reach it.
ScoresStayOnTheScale ==
    \A a \in Assessments :
        /\ a.total \in 0..(10 * Point)
        /\ Raised(a) => minimum # 0 /\ minimum < 100
=============================================================================
