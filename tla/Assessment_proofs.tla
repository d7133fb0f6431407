------------------------- MODULE Assessment_proofs -------------------------
(***************************************************************************)
(* For any timeframes, readings, weights and thresholds load_settings      *)
(* accepts: on the live feed an assessment is confirmed by candles that    *)
(* have closed, and by the newest of them unless one was missed; what an   *)
(* engine does not know adds no points; and the score stays on its scale   *)
(* when the weights add up to at most twelve.                              *)
(*                                                                         *)
(* The first two rest on an invariant of the order of the candles (LiveInv:*)
(* every candle given closed no later than any other, and the indicators   *)
(* of a timeframe are those of its newest candle given).  The other two    *)
(* rest on one that says how the last assessments were computed (ScoreInv) *)
(* and on the arithmetic of the qualities.                                 *)
(***************************************************************************)
EXTENDS Assessment, FiniteSetTheorems, TLAPS

-----------------------------------------------------------------------------
(* The order of the candles *)

LatestTyped == latest \in [Higher -> SUBSET [open : Int, trend : Trends]]

GivenAreCandles == given \subseteq Candles

GivenClosedFirst == \A d \in given, c \in Candles \ given : Close(d) <= Close(c)

ReadingsWereGiven ==
    \A tf \in Higher : \A r \in latest[tf] : [timeframe |-> tf, open |-> r.open] \in given

ReadingsAreNewest ==
    \A tf \in Higher \ missed : \A r \in latest[tf] : \A d \in given :
        d.timeframe = tf => d.open <= r.open

LiveInv ==
    /\ LatestTyped
    /\ GivenAreCandles
    /\ GivenClosedFirst
    /\ ReadingsWereGiven
    /\ ReadingsAreNewest
    /\ CausallyAvailable
    /\ ConfirmationIsCurrent

\* load_settings refuses a timeframe that is listed twice.
LEMMA PrimaryIsNotHigher == Primary \notin Higher
  <1>1. /\ Len(Timeframes) \in Nat \ {0}
        /\ \A i, j \in 1..Len(Timeframes) : Timeframes[i] = Timeframes[j] => i = j
    BY SettingsAssumption DEF AcceptedTimeframes
  <1>2. \A i \in 2..Len(Timeframes) : Timeframes[i] # Timeframes[1]
    BY <1>1
  <1> QED
    BY <1>2 DEF Primary, Higher

LEMMA CandleTypes ==
    ASSUME NEW c \in Candles
    PROVE  /\ c.timeframe \in Higher \cup {Primary}
           /\ c.open \in Nat
           /\ Duration(c.timeframe) \in Nat \ {0}
           /\ Close(c) \in Nat
  <1>1. c.timeframe \in Higher \cup {Primary} /\ c.open \in 0..(Horizon - 1)
    BY DEF Candles
  <1>2. Horizon \in Nat /\ Len(Timeframes) \in Nat \ {0}
    BY SettingsAssumption, FeedAssumption DEF AcceptedTimeframes
  <1>3. \A i \in 1..Len(Timeframes) : Duration(Timeframes[i]) \in Nat \ {0}
    BY FeedAssumption
  <1>4. Duration(Primary) \in Nat \ {0}
    BY FeedAssumption
  <1>5. \A tf \in Higher : Duration(tf) \in Nat \ {0}
    <2>1. TAKE tf \in Higher
    <2>2. PICK i \in 2..Len(Timeframes) : tf = Timeframes[i]
      BY DEF Higher
    <2>3. i \in 1..Len(Timeframes)
      BY <1>2
    <2> QED
      BY <1>3, <2>2, <2>3
  <1>6. c.open \in Nat
    BY <1>1, <1>2
  <1>7. Duration(c.timeframe) \in Nat \ {0}
    BY <1>1, <1>4, <1>5
  <1> QED
    BY <1>1, <1>6, <1>7 DEF Close

\* On the live feed a candle whose turn it is closes after those given before
\* it, and before those that are left.
LEMMA LiveTurn ==
    ASSUME Feed = "live", NEW c \in Candles, Turn(c), GivenAreCandles, GivenClosedFirst
    PROVE  /\ \A d \in given : Close(d) <= Close(c)
           /\ \A d \in Candles \ given : Close(c) <= Close(d)
           /\ \A d \in Candles : Close(d) < Close(c) => d \in given
  <1>1. c \in Candles \ given /\ \A d \in Candles \ given : ~ClosesBefore(d, c)
    BY DEF Turn, Before
  <1>2. \A d \in Candles : Close(d) \in Nat
    BY CandleTypes
  <1>3. \A d \in Candles \ given : Close(c) <= Close(d)
    BY <1>1, <1>2 DEF ClosesBefore
  <1>4. \A d \in given : Close(d) <= Close(c)
    BY <1>1 DEF GivenClosedFirst
  <1>5. \A d \in Candles : Close(d) < Close(c) => d \in given
    BY <1>1 DEF ClosesBefore
  <1> QED
    BY <1>3, <1>4, <1>5

\* Passing such a candle keeps the order.
LEMMA PassKeepsOrder ==
    ASSUME Feed = "live", NEW c \in Candles, Turn(c), Pass(c), GivenAreCandles, GivenClosedFirst
    PROVE  GivenAreCandles' /\ GivenClosedFirst'
  <1>1. given' = given \cup {c}
    BY DEF Pass
  <1>2. GivenAreCandles'
    BY <1>1 DEF GivenAreCandles
  <1>3. ASSUME NEW d \in given', NEW e \in Candles \ given'
        PROVE  Close(d) <= Close(e)
    <2>1. CASE d = c
      BY <1>1, <2>1, LiveTurn
    <2>2. CASE d \in given
      BY <1>1, <2>2 DEF GivenClosedFirst
    <2> QED
      BY <1>1, <2>1, <2>2
  <1> QED
    BY <1>2, <1>3 DEF GivenClosedFirst

\* Two candles of a timeframe open in the order they close.
LEMMA SameTimeframe ==
    ASSUME NEW c \in Candles, NEW d \in Candles, c.timeframe = d.timeframe, Close(d) <= Close(c)
    PROVE  d.open <= c.open
  <1>1. c.open \in Nat /\ d.open \in Nat /\ Duration(c.timeframe) \in Nat
    BY CandleTypes
  <1>2. d.open + Duration(c.timeframe) <= c.open + Duration(c.timeframe)
    BY DEF Close
  <1> QED
    BY <1>1, <1>2

\* What a primary candle leaves in `assessed`.
LEMMA PrimaryAssesses ==
    ASSUME NEW c, NEW own, GivePrimary(c, own), NEW a \in Assessments'
    PROVE  \E mode \in {"retest", "immediate"}, setup \in Setups,
              retest \in RetestQualities \cup {ImmediateRetest} :
                 a = Assess(c, mode, setup, retest, own)
  <1>1. PICK i \in 1..Len(assessed') : a = assessed'[i]
    BY DEF Assessments
  <1>2. assessed' # <<>>
    BY <1>1
  <1>3. \/ \E r \in Retests(c, own) : assessed' = <<r>>
        \/ \E b \in Immediates(c, own) : assessed' = <<b>>
        \/ \E r \in Retests(c, own), b \in Immediates(c, own) : assessed' = <<r, b>>
    BY <1>2 DEF GivePrimary
  <1>4. a \in Retests(c, own) \cup Immediates(c, own)
    BY <1>1, <1>3
  <1>5. CASE a \in Retests(c, own)
    BY <1>5 DEF Retests
  <1>6. CASE a \in Immediates(c, own)
    BY <1>6 DEF Immediates
  <1> QED
    BY <1>4, <1>5, <1>6

\* A step that assesses nothing leaves nothing to be wrong.
LEMMA NothingAssessed ==
    ASSUME assessed' = <<>>
    PROVE  CausallyAvailable' /\ ConfirmationIsCurrent'
  <1>1. Assessments' = {}
    BY DEF Assessments
  <1> QED
    BY <1>1 DEF CausallyAvailable, ConfirmationIsCurrent

LEMMA LiveInit ==
    ASSUME Init
    PROVE  LiveInv
  <1>1. given = {} /\ latest = [tf \in Higher |-> {}] /\ assessed = <<>>
    BY DEF Init
  <1>2. Assessments = {}
    BY <1>1 DEF Assessments
  <1>3. LatestTyped /\ \A tf \in Higher : latest[tf] = {}
    BY <1>1 DEF LatestTyped
  <1>4. GivenAreCandles /\ GivenClosedFirst
    BY <1>1 DEF GivenAreCandles, GivenClosedFirst
  <1>5. ReadingsWereGiven /\ ReadingsAreNewest
    BY <1>3 DEF ReadingsWereGiven, ReadingsAreNewest
  <1>6. CausallyAvailable /\ ConfirmationIsCurrent
    BY <1>2 DEF CausallyAvailable, ConfirmationIsCurrent
  <1> QED
    BY <1>3, <1>4, <1>5, <1>6 DEF LiveInv

\* The timeframe of the candle has its indicators, and they are the newest; the
\* other timeframes are left alone.
LEMMA HigherKeepsLive ==
    ASSUME Feed = "live", LiveInv, NEW c \in Candles, NEW trend \in Trends,
           c.timeframe # Primary, GiveHigher(c, trend)
    PROVE  LiveInv'
  <1> DEFINE reading == [open |-> c.open, trend |-> trend]
  <1>1. /\ Turn(c) /\ Pass(c) /\ given' = given \cup {c}
        /\ latest' = [latest EXCEPT ![c.timeframe] = {reading}]
        /\ missed' = missed \ {c.timeframe}
        /\ assessed' = <<>>
    BY DEF GiveHigher, Recorded, Pass
  <1>2. c.timeframe \in Higher /\ c.open \in Nat
    BY CandleTypes
  <1>3. reading \in [open : Int, trend : Trends] /\ reading.open = c.open
    BY <1>2
  <1> HIDE DEF reading
  <1>4. /\ latest'[c.timeframe] = {reading}
        /\ \A tf \in Higher : tf # c.timeframe => latest'[tf] = latest[tf]
    BY <1>1, <1>2 DEF LiveInv, LatestTyped
  <1>5. LatestTyped'
    BY <1>1, <1>3 DEF LiveInv, LatestTyped
  <1>6. GivenAreCandles' /\ GivenClosedFirst'
    BY <1>1, PassKeepsOrder DEF LiveInv
  <1>7. ASSUME NEW tf \in Higher, NEW r \in latest'[tf]
        PROVE  [timeframe |-> tf, open |-> r.open] \in given'
    <2>1. CASE tf = c.timeframe
      <3>1. r.open = c.open
        BY <1>3, <1>4, <2>1
      <3>2. c = [timeframe |-> tf, open |-> r.open]
        BY <2>1, <3>1 DEF Candles
      <3> QED
        BY <1>1, <3>2
    <2>2. CASE tf # c.timeframe
      BY <1>1, <1>4, <2>2 DEF LiveInv, ReadingsWereGiven
    <2> QED
      BY <2>1, <2>2
  <1>8. ASSUME NEW tf \in Higher \ missed', NEW r \in latest'[tf], NEW d \in given',
               d.timeframe = tf
        PROVE  d.open <= r.open
    <2>1. CASE tf = c.timeframe
      <3>1. r.open = c.open
        BY <1>3, <1>4, <2>1
      <3>2. d \in Candles
        BY <1>6 DEF GivenAreCandles
      <3>3. CASE d = c
        BY <1>2, <3>1, <3>3
      <3>4. CASE d \in given
        <4>1. Close(d) <= Close(c)
          BY <1>1, <3>4, LiveTurn DEF LiveInv
        <4> QED
          BY <1>8, <2>1, <3>1, <3>2, <4>1, SameTimeframe
      <3> QED
        BY <1>1, <3>3, <3>4
    <2>2. CASE tf # c.timeframe
      <3>1. tf \in Higher \ missed /\ r \in latest[tf] /\ d \in given
        BY <1>1, <1>4, <1>8, <2>2
      <3> QED
        BY <1>8, <3>1 DEF LiveInv, ReadingsAreNewest
    <2> QED
      BY <2>1, <2>2
  <1>9. ReadingsWereGiven' /\ ReadingsAreNewest'
    BY <1>7, <1>8 DEF ReadingsWereGiven, ReadingsAreNewest
  <1> QED
    BY <1>1, <1>5, <1>6, <1>9, NothingAssessed DEF LiveInv

\* An assessment of this candle reads indicators of given candles, which closed
\* no later, and every candle that closed before it has been given.
LEMMA LiveAssessment ==
    ASSUME Feed = "live", LiveInv, NEW c \in Candles, Turn(c),
           NEW tf \in Higher, NEW r \in latest[tf]
    PROVE  /\ Close([timeframe |-> tf, open |-> r.open]) <= Close(c)
           /\ tf \notin missed =>
                 \A d \in Candles : d.timeframe = tf /\ Close(d) < Close(c) => d.open <= r.open
  <1>1. [timeframe |-> tf, open |-> r.open] \in given
    BY DEF LiveInv, ReadingsWereGiven
  <1>2. Close([timeframe |-> tf, open |-> r.open]) <= Close(c)
    BY <1>1, LiveTurn DEF LiveInv
  <1>3. ASSUME tf \notin missed, NEW d \in Candles, d.timeframe = tf, Close(d) < Close(c)
        PROVE  d.open <= r.open
    <2>1. d \in given
      BY <1>3, LiveTurn DEF LiveInv
    <2> QED
      BY <1>3, <2>1 DEF LiveInv, ReadingsAreNewest
  <1> QED
    BY <1>2, <1>3

LEMMA PrimaryKeepsLive ==
    ASSUME Feed = "live", LiveInv, NEW c \in Candles, NEW own \in Readings,
           c.timeframe = Primary, GivePrimary(c, own)
    PROVE  LiveInv'
  <1>1. /\ Turn(c) /\ Pass(c) /\ given' = given \cup {c}
        /\ latest' = latest /\ missed' = missed
    BY DEF GivePrimary, Pass
  <1>2. GivenAreCandles' /\ GivenClosedFirst'
    BY <1>1, PassKeepsOrder DEF LiveInv
  <1>3. LatestTyped' /\ ReadingsWereGiven'
    BY <1>1 DEF LiveInv, LatestTyped, ReadingsWereGiven
  <1>4. ReadingsAreNewest'
    BY <1>1, PrimaryIsNotHigher DEF LiveInv, ReadingsAreNewest
  <1>5. ASSUME NEW a \in Assessments'
        PROVE  a.candle = c /\ a.used = latest /\ a.missed = missed
    BY PrimaryAssesses DEF Assess
  <1>6. CausallyAvailable'
    BY <1>1, <1>5, LiveAssessment DEF CausallyAvailable
  <1>7. ConfirmationIsCurrent'
    BY <1>1, <1>5, LiveAssessment DEF ConfirmationIsCurrent
  <1> QED
    BY <1>2, <1>3, <1>4, <1>6, <1>7 DEF LiveInv

LEMMA MissKeepsLive ==
    ASSUME Feed = "live", LiveInv, NEW c \in Candles, NEW trend \in Trends, Miss(c, trend)
    PROVE  LiveInv'
  <1>1. /\ Turn(c) /\ Pass(c) /\ given' = given \cup {c}
        /\ latest' = latest /\ assessed' = <<>>
        /\ missed \subseteq missed' /\ (c.timeframe # Primary => c.timeframe \in missed')
    BY DEF Miss, Pass
  <1>2. GivenAreCandles' /\ GivenClosedFirst'
    BY <1>1, PassKeepsOrder DEF LiveInv
  <1>3. LatestTyped' /\ ReadingsWereGiven'
    BY <1>1 DEF LiveInv, LatestTyped, ReadingsWereGiven
  <1>4. ReadingsAreNewest'
    BY <1>1, PrimaryIsNotHigher DEF LiveInv, ReadingsAreNewest
  <1> QED
    BY <1>1, <1>2, <1>3, <1>4, NothingAssessed DEF LiveInv

LEMMA RestartKeepsLive ==
    ASSUME LiveInv, Restart
    PROVE  LiveInv'
  <1>1. given' = given /\ latest' = [tf \in Higher |-> {}] /\ assessed' = <<>>
    BY DEF Restart
  <1>2. LatestTyped' /\ \A tf \in Higher : latest'[tf] = {}
    BY <1>1 DEF LatestTyped
  <1>3. GivenAreCandles' /\ GivenClosedFirst'
    BY <1>1 DEF LiveInv, GivenAreCandles, GivenClosedFirst
  <1>4. ReadingsWereGiven' /\ ReadingsAreNewest'
    BY <1>2 DEF ReadingsWereGiven, ReadingsAreNewest
  <1> QED
    BY <1>1, <1>2, <1>3, <1>4, NothingAssessed DEF LiveInv

LEMMA LiveHolds ==
    ASSUME Feed = "live"
    PROVE  Spec => []LiveInv
  <1>1. ASSUME LiveInv, [Next]_vars
        PROVE  LiveInv'
    <2>1. ASSUME NEW c \in Candles, NEW trend \in Trends,
                 c.timeframe # Primary, GiveHigher(c, trend)
          PROVE  LiveInv'
      BY <1>1, <2>1, HigherKeepsLive
    <2>2. ASSUME NEW c \in Candles, NEW own \in Readings,
                 c.timeframe = Primary, GivePrimary(c, own)
          PROVE  LiveInv'
      BY <1>1, <2>2, PrimaryKeepsLive
    <2>3. ASSUME NEW c \in Candles, NEW trend \in Trends, Miss(c, trend)
          PROVE  LiveInv'
      BY <1>1, <2>3, MissKeepsLive
    <2>4. CASE Restart
      BY <1>1, <2>4, RestartKeepsLive
    <2>5. CASE UNCHANGED vars
      BY <1>1, <2>5 DEF vars, LiveInv, LatestTyped, GivenAreCandles, GivenClosedFirst,
         ReadingsWereGiven, ReadingsAreNewest, CausallyAvailable, ConfirmationIsCurrent, Assessments
    <2> QED
      BY <1>1, <2>1, <2>2, <2>3, <2>4, <2>5 DEF Next
  <1> QED
    BY <1>1, LiveInit, PTL DEF Spec

\* On the live feed the candles behind a confirmation have closed when the
\* assessed candle closes.  A replay, which sorts the candles by their open time,
\* does not have this: the run replay_look_ahead.
THEOREM ConfirmationIsCausal ==
    ASSUME Feed = "live"
    PROVE  Spec => []CausallyAvailable
  BY LiveHolds, PTL DEF LiveInv

\* Nor is there a newer one, unless a candle was missed: whatever the durations,
\* the order of candles that close together, the missed candles and restarts.
THEOREM ConfirmationIsNewest ==
    ASSUME Feed = "live"
    PROVE  Spec => []ConfirmationIsCurrent
  BY LiveHolds, PTL DEF LiveInv

-----------------------------------------------------------------------------
(* The qualities *)

LEMMA Share ==
    ASSUME NEW x \in Nat, NEW s \in Nat \ {0}, x <= s
    PROVE  (x * 100) \div s \in 0..100
  <1> DEFINE q == (x * 100) \div s
  <1>1. q \in Int /\ s * q <= x * 100 /\ x * 100 < s * q + s
    OBVIOUS
  <1> HIDE DEF q
  <1>2. q >= 0
    <2>1. CASE q <= -1
      <3>1. s * q + s <= 0
        BY <1>1, <2>1
      <3> QED
        BY <1>1, <3>1
    <2> QED
      BY <1>1, <2>1
  <1>3. q <= 100
    <2>1. CASE q >= 101
      <3>1. s * q >= s * 101
        BY <1>1, <2>1
      <3> QED
        BY <1>1, <3>1
    <2> QED
      BY <1>1, <2>1
  <1> QED
    BY <1>1, <1>2, <1>3 DEF q

LEMMA ShareGrows ==
    ASSUME NEW x \in Nat, NEW y \in Nat, NEW s \in Nat \ {0}, x <= y
    PROVE  (x * 100) \div s <= (y * 100) \div s
  <1> DEFINE p == (x * 100) \div s
             q == (y * 100) \div s
  <1>1. /\ p \in Int /\ s * p <= x * 100
        /\ q \in Int /\ y * 100 < s * q + s
    OBVIOUS
  <1> HIDE DEF p, q
  <1>2. CASE p >= q + 1
    <2>1. s * p >= s * (q + 1)
      BY <1>1, <1>2
    <2>2. s * (q + 1) = s * q + s
      BY <1>1
    <2> QED
      BY <1>1, <2>1, <2>2
  <1>3. CASE ~(p >= q + 1)
    BY <1>1, <1>3
  <1> QED
    BY <1>2, <1>3 DEF p, q

LEMMA SaturatingIsAShare ==
    ASSUME NEW x \in Nat, NEW saturation \in Nat \ {0}
    PROVE  Saturating(x, saturation) \in 0..100
  <1>1. CASE x >= saturation
    BY <1>1 DEF Saturating
  <1>2. CASE x < saturation
    BY <1>2, Share DEF Saturating
  <1> QED
    BY <1>1, <1>2

LEMMA SizeIsNat ==
    ASSUME NEW x \in Int
    PROVE  Size(x) \in Nat
  BY DEF Size

LEMMA SaturationsArePositive ==
    /\ CsdSaturation \in Nat \ {0} /\ BreakoutSaturation \in Nat \ {0}
    /\ EmaSaturation \in Nat \ {0} /\ MacdSaturation \in Nat \ {0}
  BY SettingsAssumption DEF AcceptedScoring

LEMMA EmaIsAShare ==
    ASSUME NEW direction, NEW own \in Readings
    PROVE  EmaQuality(direction, own) \in 0..100
  <1> DEFINE ema == CHOOSE ema \in own.ema : TRUE
  <1>1. CASE own.ema = {}
    BY <1>1 DEF EmaQuality
  <1>2. CASE own.ema # {}
    <2>1. ema \in own.ema
      BY <1>2
    <2>2. ema \in Int
      BY <2>1, EvidenceAssumption DEF IsReading
    <2>3. Saturating(Size(ema), EmaSaturation) \in 0..100
      BY <2>2, SizeIsNat, SaturatingIsAShare, SaturationsArePositive
    <2> QED
      BY <2>3 DEF EmaQuality
  <1> QED
    BY <1>1, <1>2

LEMMA RsiIsAShare ==
    ASSUME NEW direction, NEW own \in Readings
    PROVE  RsiQuality(direction, own) \in 0..100
  <1> DEFINE rsi == CHOOSE rsi \in own.rsi : TRUE
  <1>1. CASE own.rsi = {}
    BY <1>1 DEF RsiQuality
  <1>2. CASE own.rsi # {}
    <2>1. rsi \in own.rsi
      BY <1>2
    <2>2. rsi \in 0..100
      BY <2>1, EvidenceAssumption DEF IsReading
    <2>3. 2 * Size(rsi - 50) \in 0..100
      <3> HIDE DEF rsi
      <3>1. rsi - 50 \in Int /\ rsi - 50 <= 50 /\ rsi - 50 >= -50
        BY <2>2
      <3>2. \A d \in Int : d <= 50 /\ d >= -50 => Size(d) \in 0..50
        BY DEF Size
      <3>3. Size(rsi - 50) \in 0..50
        BY <3>1, <3>2
      <3> QED
        BY <3>3
    <2> QED
      BY <2>3 DEF RsiQuality
  <1> QED
    BY <1>1, <1>2

LEMMA MacdIsAShare ==
    ASSUME NEW direction, NEW own \in Readings
    PROVE  MacdQuality(direction, own) \in 0..100
  <1> DEFINE histogram == CHOOSE histogram \in own.macd : TRUE
  <1>1. CASE own.macd = {}
    BY <1>1 DEF MacdQuality
  <1>2. CASE own.macd # {}
    <2>1. histogram \in own.macd
      BY <1>2
    <2>2. histogram \in Int
      BY <2>1, EvidenceAssumption DEF IsReading
    <2>3. Saturating(Size(histogram), MacdSaturation) \in 0..100
      BY <2>2, SizeIsNat, SaturatingIsAShare, SaturationsArePositive
    <2> QED
      BY <2>3 DEF MacdQuality
  <1> QED
    BY <1>1, <1>2

\* The volume counts from the average on: a minimum below it, other than 0, lets
\* a ratio through whose quality is negative.
LEMMA VolumeIsAShare ==
    ASSUME NEW own \in Readings, minimum \in Nat, minimum = 0 \/ minimum >= 100
    PROVE  VolumeQuality(own) \in 0..100
  <1> DEFINE ratio == CHOOSE ratio \in own.volume : TRUE
  <1>1. CASE ~\E r \in own.volume : r >= minimum
    BY <1>1 DEF VolumeQuality
  <1>2. CASE \E r \in own.volume : r >= minimum
    <2>1. ratio \in own.volume /\ AtMostOne(own.volume) /\ own.volume \subseteq Nat
      BY <1>2, EvidenceAssumption DEF IsReading
    <2>2. ratio \in Nat /\ ratio >= minimum
      BY <1>2, <2>1 DEF AtMostOne
    <2>3. CASE minimum = 0
      BY <1>2, <2>3 DEF VolumeQuality
    <2>4. CASE minimum # 0
      <3>1. ratio - 100 \in Nat /\ minimum \in Nat \ {0}
        BY <2>2, <2>4
      <3>2. Saturating(ratio - 100, minimum) \in 0..100
        BY <3>1, SaturatingIsAShare
      <3> QED
        BY <1>2, <2>4, <3>2 DEF VolumeQuality
    <2> QED
      BY <2>3, <2>4
  <1> QED
    BY <1>1, <1>2

LEMMA HigherIsFinite == IsFiniteSet(Higher)
  <1>1. Len(Timeframes) \in Nat
    BY SettingsAssumption DEF AcceptedTimeframes
  <1>2. IsFiniteSet(2..Len(Timeframes))
    BY <1>1, FS_Interval
  <1>3. [i \in 2..Len(Timeframes) |-> Timeframes[i]] \in Surjection(2..Len(Timeframes), Higher)
    BY DEF Surjection, Higher
  <1> QED
    BY <1>2, <1>3, FS_Surjection

\* More readings can only bring more agreement.
LEMMA HtfGrows ==
    ASSUME NEW direction, NEW known, NEW more,
           \A tf \in Higher : known[tf] \subseteq more[tf]
    PROVE  /\ HtfQuality(direction, known) \in 0..100
           /\ HtfQuality(direction, more) \in 0..100
           /\ HtfQuality(direction, known) <= HtfQuality(direction, more)
  <1> DEFINE A == {tf \in Higher : Agrees(direction, known[tf])}
             B == {tf \in Higher : Agrees(direction, more[tf])}
  <1>1. CASE Higher = {}
    BY <1>1 DEF HtfQuality
  <1>2. CASE Higher # {}
    <2>1. A \subseteq B /\ B \subseteq Higher /\ A \subseteq Higher
      BY DEF Agrees
    <2>2. /\ HtfQuality(direction, known) = (Cardinality(A) * 100) \div Cardinality(Higher)
          /\ HtfQuality(direction, more) = (Cardinality(B) * 100) \div Cardinality(Higher)
      BY <1>2 DEF HtfQuality
    <2> HIDE DEF A, B
    <2>3. IsFiniteSet(A) /\ IsFiniteSet(B) /\ IsFiniteSet(Higher)
      BY <2>1, HigherIsFinite, FS_Subset
    <2>4. Cardinality(A) \in Nat /\ Cardinality(B) \in Nat /\ Cardinality(Higher) \in Nat
      BY <2>3, FS_CardinalityType
    <2>5. /\ Cardinality(A) <= Cardinality(B)
          /\ Cardinality(A) <= Cardinality(Higher)
          /\ Cardinality(B) <= Cardinality(Higher)
      BY <2>1, <2>3, FS_Subset
    <2>6. Cardinality(Higher) # 0
      BY <1>2, <2>3, FS_EmptySet
    <2> DEFINE a == Cardinality(A)
               b == Cardinality(B)
               h == Cardinality(Higher)
    <2>7. a \in Nat /\ b \in Nat /\ h \in Nat \ {0} /\ a <= b /\ a <= h /\ b <= h
      BY <2>4, <2>5, <2>6
    <2> HIDE DEF a, b, h
    <2>8. (a * 100) \div h \in 0..100 /\ (b * 100) \div h \in 0..100
      BY <2>7, Share
    <2>9. (a * 100) \div h <= (b * 100) \div h
      BY <2>7, ShareGrows
    <2> QED
      BY <2>2, <2>8, <2>9 DEF a, b, h
  <1> QED
    BY <1>1, <1>2

-----------------------------------------------------------------------------
(* How the last assessments were computed *)

Asked(a) ==
    /\ a.own \in Readings /\ a.setup \in Setups
    /\ a.retest \in RetestQualities \cup {ImmediateRetest}

Scored(a) ==
    LET q == Qualities(a.setup, a.retest, a.own, a.used)
    IN  /\ Scorable(q) => a.total = Total(q) /\ ~Raised(a)
        /\ ~Scorable(q) => a.total = 0 /\ Raised(a)

ScoreInv ==
    /\ minimum \in VolumeMinimums
    /\ \A a \in Assessments : Asked(a) /\ Scored(a)

LEMMA ClassifyNeverRaises ==
    ASSUME NEW total
    PROVE  Classify(total) # "raised"
  BY DEF Classify

LEMMA AssessIsScored ==
    ASSUME NEW c, NEW own \in Readings, NEW mode, NEW setup \in Setups,
           NEW retest \in RetestQualities \cup {ImmediateRetest}
    PROVE  Asked(Assess(c, mode, setup, retest, own)) /\ Scored(Assess(c, mode, setup, retest, own))
  <1> DEFINE a == Assess(c, mode, setup, retest, own)
             q == Qualities(setup, retest, own, latest)
  <1>1. /\ a.own = own /\ a.setup = setup /\ a.retest = retest /\ a.used = latest
        /\ a.total = IF Scorable(q) THEN Total(q) ELSE 0
        /\ a.outcome = IF Scorable(q) THEN Classify(Total(q)) ELSE "raised"
    BY DEF Assess
  <1> HIDE DEF a, q
  <1>2. Asked(a)
    BY <1>1 DEF Asked
  <1>3. Raised(a) <=> ~Scorable(q)
    BY <1>1, ClassifyNeverRaises DEF Raised
  <1>4. q = Qualities(a.setup, a.retest, a.own, a.used)
    BY <1>1 DEF q
  <1>5. Scored(a)
    BY <1>1, <1>3, <1>4 DEF Scored
  <1> QED
    BY <1>2, <1>5 DEF a

\* The volume minimum is a setting: what it makes of the evidence stays.
LEMMA QualitiesStay ==
    ASSUME minimum' = minimum, NEW setup, NEW retest, NEW own, NEW readings
    PROVE  Qualities(setup, retest, own, readings)' = Qualities(setup, retest, own, readings)
  <1>1. VolumeQuality(own)' = VolumeQuality(own)
    BY DEF VolumeQuality
  <1> QED
    BY <1>1 DEF Qualities

LEMMA ScoreInit ==
    ASSUME Init
    PROVE  ScoreInv
  <1>1. Assessments = {}
    BY DEF Init, Assessments
  <1> QED
    BY <1>1 DEF Init, ScoreInv

LEMMA ScoreStep ==
    ASSUME ScoreInv, [Next]_vars
    PROVE  ScoreInv'
  <1>1. minimum' = minimum
    BY DEF Next, GiveHigher, GivePrimary, Miss, Restart, vars
  <1>2. ASSUME NEW a, Scored(a)
        PROVE  Scored(a)'
    BY <1>1, <1>2, QualitiesStay DEF Scored
  <1>3. ASSUME assessed' = <<>>
        PROVE  Assessments' = {}
    BY <1>3 DEF Assessments
  <1>4. ASSUME NEW c \in Candles, NEW own \in Readings, GivePrimary(c, own),
               NEW a \in Assessments'
        PROVE  Asked(a) /\ Scored(a)
    BY <1>4, PrimaryAssesses, AssessIsScored
  <1>5. ASSUME NEW a \in Assessments'
        PROVE  Asked(a) /\ Scored(a)
    <2>1. CASE assessed' = <<>>
      BY <1>3, <1>5, <2>1
    <2>2. CASE assessed' = assessed
      BY <1>5, <2>2 DEF ScoreInv, Assessments
    <2>3. CASE \E c \in Candles, own \in Readings : GivePrimary(c, own)
      BY <1>4, <1>5, <2>3
    <2> QED
      BY <2>1, <2>2, <2>3 DEF Next, GiveHigher, Miss, Restart, vars
  <1>6. \A a \in Assessments' : (Asked(a) /\ Scored(a))'
    BY <1>2, <1>5 DEF Asked
  <1> QED
    BY <1>1, <1>6 DEF ScoreInv

LEMMA ScoreHolds == Spec => []ScoreInv
  BY ScoreInit, ScoreStep, PTL DEF Spec

-----------------------------------------------------------------------------
(* What a score is worth *)

LEMMA WeightsArePositive == \A name \in Components : Weights[name] \in Nat \ {0}
  BY SettingsAssumption DEF AcceptedScoring

LEMMA PointsGrow ==
    ASSUME NEW p \in Nat, NEW q \in Nat, NEW w \in Nat, p <= q
    PROVE  p * w \in Nat /\ p * w <= q * w
  OBVIOUS

LEMMA MinimumIsNat ==
    ASSUME ScoreInv
    PROVE  minimum \in Nat
  BY SettingsAssumption DEF AcceptedConfirmation, ScoreInv

\* All but the volume are percentages whatever the settings.
LEMMA EvidenceIsScorable ==
    ASSUME ScoreInv, NEW a, Asked(a), minimum = 0 \/ minimum >= 100
    PROVE  Scorable(Qualities(a.setup, a.retest, a.own, a.used))
  <1> DEFINE q == Qualities(a.setup, a.retest, a.own, a.used)
  <1>1. /\ q.csd = Saturating(a.setup.distance, CsdSaturation)
        /\ q.breakout = Saturating(a.setup.distance, BreakoutSaturation)
        /\ q.retest = a.retest
        /\ q.ema = EmaQuality(a.setup.direction, a.own)
        /\ q.rsi = RsiQuality(a.setup.direction, a.own)
        /\ q.macd = MacdQuality(a.setup.direction, a.own)
        /\ q.volume = VolumeQuality(a.own)
        /\ q.htf = HtfQuality(a.setup.direction, a.used)
    BY DEF Qualities
  <1> HIDE DEF q
  <1>2. a.setup.distance \in Nat /\ a.own \in Readings
    BY EvidenceAssumption DEF Asked
  <1>3. q.csd \in 0..100 /\ q.breakout \in 0..100
    BY <1>1, <1>2, SaturatingIsAShare, SaturationsArePositive
  <1>4. q.retest \in 0..100
    <2>1. a.retest \in RetestQualities \/ a.retest = 0
      BY DEF Asked, ImmediateRetest
    <2>2. RetestQualities \subseteq 0..100
      BY EvidenceAssumption
    <2>3. CASE a.retest \in RetestQualities
      BY <1>1, <2>2, <2>3
    <2>4. CASE a.retest = 0
      <3>1. 0 \in 0..100
        OBVIOUS
      <3> QED
        BY <1>1, <2>4, <3>1
    <2> QED
      BY <2>1, <2>3, <2>4
  <1>5. q.ema \in 0..100 /\ q.rsi \in 0..100 /\ q.macd \in 0..100
    BY <1>1, <1>2, EmaIsAShare, RsiIsAShare, MacdIsAShare
  <1>6. q.volume \in 0..100
    BY <1>1, <1>2, MinimumIsNat, VolumeIsAShare
  <1>7. q.htf \in 0..100
    BY <1>1, HtfGrows
  <1> QED
    BY <1>3, <1>4, <1>5, <1>6, <1>7 DEF Scorable, Components, q

\* A better evidence of one kind is worth more.
LEMMA TotalGrows ==
    ASSUME NEW p, NEW q, \A name \in Components : p[name] \in Nat /\ q[name] \in Nat /\ p[name] <= q[name]
    PROVE  Total(p) \in Nat /\ Total(q) \in Nat /\ Total(p) <= Total(q)
  <1>1. \A name \in Components :
           Points(p, name) \in Nat /\ Points(q, name) \in Nat /\ Points(p, name) <= Points(q, name)
    BY WeightsArePositive, PointsGrow DEF Points
  <1> QED
    BY <1>1 DEF Total, Components

\* The code divides by twelve, the sum of its default weights (Weights has each
\* twice).
WeightsAddUp ==
    Weights["csd"] + Weights["breakout"] + Weights["retest"] + Weights["ema"] +
    Weights["rsi"] + Weights["macd"] + Weights["volume"] + Weights["htf"] <= 24

LEMMA TotalIsOnTheScale ==
    ASSUME WeightsAddUp, NEW q, Scorable(q)
    PROVE  Total(q) \in 0..(10 * Point)
  <1>1. \A name \in Components :
           Points(q, name) \in Nat /\ Points(q, name) <= 100 * Weights[name]
    BY WeightsArePositive, PointsGrow DEF Points, Scorable
  <1>2. /\ Total(q) \in Nat
        /\ Total(q) <= 100 * Weights["csd"] + 100 * Weights["breakout"] + 100 * Weights["retest"] +
             100 * Weights["ema"] + 100 * Weights["rsi"] + 100 * Weights["macd"] +
             100 * Weights["volume"] + 100 * Weights["htf"]
    BY <1>1, WeightsArePositive DEF Total, Components
  <1>3. \A name \in Components : Weights[name] \in Nat
    BY WeightsArePositive
  <1>4. /\ Weights["csd"] \in Nat /\ Weights["breakout"] \in Nat /\ Weights["retest"] \in Nat
        /\ Weights["ema"] \in Nat /\ Weights["rsi"] \in Nat /\ Weights["macd"] \in Nat
        /\ Weights["volume"] \in Nat /\ Weights["htf"] \in Nat
    BY <1>3 DEF Components
  <1>5. Total(q) <= 2400
    BY <1>2, <1>4 DEF WeightsAddUp
  <1> QED
    BY <1>2, <1>5 DEF Point

\* A score is worth 0 to 10 if the weights add up to at most the twelve the code
\* divides by, and scoring raises only under a volume minimum between 0 and the
\* average volume, for any readings, setups and settings.  load_settings does not
\* look at the sum, so the code allows weights for which the score exceeds 10.
THEOREM ScoreKeepsItsScale ==
    ASSUME WeightsAddUp
    PROVE  Spec => []ScoresStayOnTheScale
  <1>1. ASSUME ScoreInv
        PROVE  ScoresStayOnTheScale
    <2>1. ASSUME NEW a \in Assessments
          PROVE  a.total \in 0..(10 * Point)
      <3>1. Scored(a)
        BY <1>1 DEF ScoreInv
      <3>2. 0 \in 0..(10 * Point)
        BY DEF Point
      <3> QED
        BY <3>1, <3>2, TotalIsOnTheScale DEF Scored
    <2>2. ASSUME NEW a \in Assessments, Raised(a)
          PROVE  minimum # 0 /\ minimum < 100
      <3>1. Asked(a) /\ Scored(a)
        BY <1>1 DEF ScoreInv
      <3>2. ~Scorable(Qualities(a.setup, a.retest, a.own, a.used))
        BY <2>2, <3>1 DEF Scored
      <3>3. ~(minimum = 0 \/ minimum >= 100)
        BY <1>1, <3>1, <3>2, EvidenceIsScorable
      <3> QED
        BY <1>1, <3>3, MinimumIsNat
    <2> QED
      BY <2>1, <2>2 DEF ScoresStayOnTheScale
  <1> QED
    BY <1>1, ScoreHolds, PTL

\* An engine that knows fewer of the confirmation timeframes, after a restart,
\* gives a setup at most the score of one that knows them all.
THEOREM RestartIsCautious == Spec => []RestartNeverAddsSignals
  <1>1. ASSUME ScoreInv
        PROVE  RestartNeverAddsSignals
    <2>1. ASSUME NEW a \in Assessments,
                 \A tf \in Higher : a.used[tf] \subseteq a.actual[tf], ~Raised(a)
          PROVE  a.total <= Total(Qualities(a.setup, a.retest, a.own, a.actual))
      <3> DEFINE p == Qualities(a.setup, a.retest, a.own, a.used)
                 q == Qualities(a.setup, a.retest, a.own, a.actual)
      <3>1. Scorable(p) /\ a.total = Total(p)
        BY <1>1, <2>1 DEF ScoreInv, Scored
      <3>2. /\ p.htf = HtfQuality(a.setup.direction, a.used)
            /\ q.htf = HtfQuality(a.setup.direction, a.actual)
            /\ \A name \in Components \ {"htf"} : q[name] = p[name]
        BY DEF Qualities, Components
      <3> HIDE DEF p, q
      <3>3. p.htf \in 0..100 /\ q.htf \in 0..100 /\ p.htf <= q.htf
        BY <2>1, <3>2, HtfGrows
      <3>4. \A name \in Components : p[name] \in Nat /\ q[name] \in Nat /\ p[name] <= q[name]
        BY <3>1, <3>2, <3>3 DEF Scorable
      <3> QED
        BY <3>1, <3>4, TotalGrows DEF p, q
    <2> QED
      BY <2>1 DEF RestartNeverAddsSignals
  <1> QED
    BY <1>1, ScoreHolds, PTL
=============================================================================
