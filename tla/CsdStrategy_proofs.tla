------------------------- MODULE CsdStrategy_proofs -------------------------
(***************************************************************************)
(* Theorems about CsdStrategy, for every set of candles and every          *)
(* configuration: its types, that it implements SetupContract, that a      *)
(* trigger signals once and never after its setup failed, and that a retest*)
(* is the first candle that came back and held.                            *)
(***************************************************************************)
EXTENDS CsdStrategy, SequenceTheorems, TLAPS

\* A bar index chosen as the newest of a set is in the set.
LEMMA NewestIsMember ==
    ASSUME NEW S
    PROVE  Newest(S) \in S \cup {0}
  <1> DEFINE top == {i \in S : \A j \in S : j <= i}
  <1>1. CASE top = {}
    BY <1>1 DEF Newest
  <1>2. CASE top # {}
    BY <1>2 DEF Newest
  <1> QED BY <1>1, <1>2

\* A swing read for bar e is a bar not newer than e.
LEMMA LatestSwingIsABar ==
    ASSUME NEW direction, NEW e \in Nat
    PROVE  LatestSwing(direction, e) \in 0..e
  <1>1. FirstRead(e) \in Nat
    BY SettingsAssumption DEF FirstRead
  <1>2. Visible(direction, e) \subseteq 1..e
    BY <1>1, SettingsAssumption DEF Visible, Swings
  <1>3. Meaningful(direction, Visible(direction, e)) \subseteq 1..e
    BY <1>2 DEF Meaningful
  <1>4. LatestSwing(direction, e) \in Meaningful(direction, Visible(direction, e)) \cup {0}
    BY NewestIsMember DEF LatestSwing
  <1> QED BY <1>3, <1>4

\* What CSDEngine reports is a break of a bar of the store, not reported before.
LEMMA CsdIsNew ==
    ASSUME TypeOK, NEW e \in 1..Len(bars)
    PROVE  Csd(e) # NoTrigger => /\ Csd(e) \in Trigger
                                 /\ Csd(e).swing \in 1..e
                                 /\ Csd(e) \notin emitted
  <1> DEFINE d == BreakDirection(e)
             t == Broken(d, e)
  <1>1. e \in Nat /\ e <= BarBound /\ BarBound \in Nat /\ Len(bars) \in Nat
    BY SettingsAssumption DEF TypeOK
  <1>2. d \in {"BULLISH", "BEARISH", "none"} /\ (d # "none" => Breaks(d, e))
    BY DEF BreakDirection
  <1>3. ASSUME d # "none" PROVE t \in Trigger /\ t.swing \in 1..e
    <2>1. LatestSwing(d, e) \in 0..e /\ LatestSwing(d, e) # 0
      BY <1>1, <1>2, <1>3, LatestSwingIsABar DEF Breaks
    <2>2. LatestSwing(d, e) \in Indices
      BY <1>1, <2>1 DEF Indices
    <2> QED BY <1>1, <1>2, <1>3, <2>1, <2>2 DEF Broken, Trigger, Directions
  <1>4. NoTrigger \notin Trigger
    BY DEF NoTrigger, Trigger, Directions
  <1>5. CASE d # "none" /\ FarEnough(d, e) /\ t \notin emitted
    BY <1>3, <1>4, <1>5 DEF Csd
  <1>6. CASE ~(d # "none" /\ FarEnough(d, e) /\ t \notin emitted)
    BY <1>6 DEF Csd
  <1> QED BY <1>5, <1>6

\* A pending setup has waited MaxWait bars at most.
WaitBound == Pending(setup) => setup.bars <= MaxWait

\* RetestEngine keeps a setup pending within the window, or ends it.
LEMMA AfterRetestType ==
    ASSUME TypeOK, WaitBound, NEW e \in 1..Len(bars)
    PROVE  /\ AfterRetest(e) \in Setup \cup {NoSetup}
           /\ AfterRetest(e).trigger = setup.trigger
           /\ Pending(AfterRetest(e)) => /\ Pending(setup)
                                         /\ RetestOutcome(bars[e]) = "PENDING_RETEST"
                                         /\ AfterRetest(e).bars <= MaxWait
           /\ AfterRetest(e).status = "none" <=> setup.status = "none"
  <1>1. CASE ~Pending(setup)
    BY <1>1 DEF AfterRetest, TypeOK
  <1>2. CASE Pending(setup)
    <2> DEFINE outcome == RetestOutcome(bars[e])
               after == AfterRetest(e)
    <2>1. setup \in Setup /\ setup.status = "PENDING_RETEST"
      BY <1>2 DEF TypeOK, Pending, NoSetup
    <2>2. setup.bars + 1 \in 0..(MaxWait + 1)
      BY <1>2, <2>1, SettingsAssumption DEF WaitBound, Setup
    <2>3. e \in 0..BarBound
      BY SettingsAssumption DEF TypeOK
    <2>4. /\ Advanced \in Setup
          /\ Advanced.trigger = setup.trigger
          /\ Advanced.bars = setup.bars + 1
      BY <2>1, <2>2 DEF Advanced, Setup
    <2>5. after = [Advanced EXCEPT !.status = outcome,
                                   !.end = IF outcome = "PENDING_RETEST" THEN 0 ELSE e]
      BY <1>2 DEF AfterRetest
    <2>6. /\ outcome \in {"PENDING_RETEST", "RETEST_DETECTED", "INVALIDATED", "EXPIRED"}
          /\ outcome # "EXPIRED" => ~(Advanced.bars > MaxWait)
      BY DEF RetestOutcome
    <2>7. (IF outcome = "PENDING_RETEST" THEN 0 ELSE e) \in 0..BarBound /\ outcome \in Status
      BY <2>3, <2>6, SettingsAssumption DEF Status
    <2>8. /\ after \in Setup
          /\ after.trigger = setup.trigger
          /\ after.status = outcome
          /\ after.bars = setup.bars + 1
      BY <2>4, <2>5, <2>7 DEF Setup
    <2>9. outcome # "EXPIRED" => after.bars <= MaxWait
      BY <2>2, <2>4, <2>6, <2>8, SettingsAssumption
    <2> QED BY <1>2, <2>1, <2>6, <2>8, <2>9 DEF Pending
  <1> QED BY <1>1, <1>2

\* BreakoutEngine.start opens a pending setup at the price of the broken swing.
LEMMA StartedType ==
    ASSUME TypeOK, NEW e \in 1..Len(bars), NEW t \in Trigger, t.swing \in 1..e
    PROVE  /\ Started(t, e) \in Setup
           /\ Started(t, e).trigger = t
           /\ Started(t, e).status = "PENDING_RETEST"
           /\ Started(t, e).bars = 0
  <1>1. bars[t.swing] \in Bars
    BY DEF TypeOK
  <1>2. Side(bars[t.swing], t.direction) \in Nat
    BY <1>1, BarsAssumption DEF Side
  <1>3. e \in Indices /\ 0 \in 0..BarBound /\ 0 \in 0..(MaxWait + 1)
    BY SettingsAssumption DEF TypeOK, Indices
  <1> QED BY <1>2, <1>3 DEF Started, Setup, Status

-----------------------------------------------------------------------------
(* One candle *)

\* The sequences of at most one element.
LEMMA ShortSequences ==
    ASSUME NEW S, NEW v \in S
    PROVE  /\ <<>> \in Seq(S) /\ Len(<<>>) = 0
           /\ <<v>> \in Seq(S) /\ Len(<<v>>) = 1 /\ <<v>>[1] = v
  OBVIOUS

SignalType == [trigger : Trigger, mode : Modes, bar : Indices, session : Nat]

Kept(e) == setup' = AfterRetest(e) /\ emitted' = emitted
Opened(e) == /\ Csd(e) # NoTrigger
             /\ setup' = Started(Csd(e), e)
             /\ emitted' = emitted \cup {Csd(e)}

\* What the three ways through on_candle_closed have in common.
Evaluates(e) ==
    /\ e \in Unseen
    /\ seen' = seen \cup {e}
    /\ failures' = FailuresAfter(e)
    /\ \E retest \in {<<>>, RetestCall(e)}, immediate \in {<<>>, ImmediateCall(e)} :
          /\ signals' = signals \o retest \o immediate
          /\ (Kept(e) /\ immediate = <<>>) \/ Opened(e)
    /\ UNCHANGED <<bars, booted, session>>

\* Whatever a handler does, and wherever it raises, its step has the shape that
\* Evaluates gives: one candle evaluated, one setup kept or opened.
LEMMA HandlersEvaluate ==
    ASSUME TypeOK, NEW e \in 1..Len(bars),
           OnCandleClosed(e) \/ RetestRaises(e) \/ ImmediateRaises(e)
    PROVE  Evaluates(e)
  <1>1. RetestCall(e) \in Seq(SignalType) /\ signals \in Seq(SignalType)
    <2>1. CASE Detected(e)
      <3>1. setup.trigger \in Trigger
        BY <2>1 DEF Detected, Pending, TypeOK, NoSetup, Setup
      <3>2. e \in Indices /\ session \in Nat
        BY SettingsAssumption DEF TypeOK, Indices
      <3>3. Signal(setup.trigger, "retest", e) \in SignalType
        BY <3>1, <3>2 DEF Signal, SignalType, Modes
      <3>4. RetestCall(e) \in {<<>>, <<Signal(setup.trigger, "retest", e)>>}
        BY DEF RetestCall
      <3>5. <<>> \in Seq(SignalType) /\ <<Signal(setup.trigger, "retest", e)>> \in Seq(SignalType)
        BY <3>3, ShortSequences
      <3> QED BY <3>4, <3>5 DEF TypeOK, SignalType
    <2>2. CASE ~Detected(e)
      <3>1. RetestCall(e) = <<>>
        BY <2>2 DEF RetestCall
      <3> QED BY <3>1, EmptySeq DEF TypeOK, SignalType
    <2> QED BY <2>1, <2>2
  <1>2. CASE OnCandleClosed(e)
    <2>1. PICK r, i \in BOOLEAN :
             signals' = signals \o Produced(RetestCall(e), r) \o Produced(ImmediateCall(e), i)
      BY <1>2 DEF OnCandleClosed
    <2>2. /\ Produced(RetestCall(e), r) \in {<<>>, RetestCall(e)}
          /\ Produced(ImmediateCall(e), i) \in {<<>>, ImmediateCall(e)}
      BY DEF Produced
    <2>3. CASE Csd(e) = NoTrigger
      <3>1. Produced(ImmediateCall(e), i) = <<>> /\ Kept(e)
        BY <1>2, <2>3 DEF Produced, ImmediateCall, OnCandleClosed, Kept
      <3> QED BY <1>2, <2>1, <2>2, <3>1 DEF OnCandleClosed, Evaluates
    <2>4. CASE Csd(e) # NoTrigger
      <3>1. Opened(e)
        BY <1>2, <2>4 DEF OnCandleClosed, Opened
      <3> QED BY <1>2, <2>1, <2>2, <3>1 DEF OnCandleClosed, Evaluates
    <2> QED BY <2>3, <2>4
  <1>3. CASE RetestRaises(e)
    <2>1. Detected(e)
      BY <1>3 DEF RetestRaises, RetestCall
    <2>2. FailuresAfter(e) = failures
      BY <2>1 DEF FailuresAfter, Detected
    <2>3. PICK retest \in {<<>>, RetestCall(e)} : signals' = signals \o retest
      <3>1. signals \o <<>> = signals
        BY <1>1, ConcatEmptySeq
      <3> QED BY <1>3, <3>1 DEF RetestRaises
    <2>4. signals' = signals \o retest \o <<>>
      <3>1. retest \in Seq(SignalType)
        BY <1>1, EmptySeq
      <3>2. signals \o retest \in Seq(SignalType)
        BY <1>1, <3>1, ConcatProperties
      <3> QED BY <2>3, <3>2, ConcatEmptySeq
    <2>5. Kept(e)
      BY <1>3 DEF RetestRaises, Kept
    <2> QED BY <1>3, <2>2, <2>4, <2>5 DEF RetestRaises, Evaluates
  <1>4. CASE ImmediateRaises(e)
    <2>1. PICK r, i \in BOOLEAN :
             signals' = signals \o Produced(RetestCall(e), r) \o Produced(ImmediateCall(e), i)
      BY <1>4 DEF ImmediateRaises
    <2>2. /\ Produced(RetestCall(e), r) \in {<<>>, RetestCall(e)}
          /\ Produced(ImmediateCall(e), i) \in {<<>>, ImmediateCall(e)}
      BY DEF Produced
    <2>3. Opened(e)
      BY <1>4 DEF ImmediateRaises, ImmediateCall, Opened
    <2> QED BY <1>4, <2>1, <2>2, <2>3 DEF ImmediateRaises, Evaluates
  <1> QED BY <1>2, <1>3, <1>4

\* The signals a candle adds: at most one per entry mode, the retest's for the
\* setup that was pending and the immediate one for the trigger just opened.
LEMMA NewSignals ==
    ASSUME TypeOK, NEW e \in 1..Len(bars), Evaluates(e)
    PROVE  /\ signals' \in Seq(SignalType)
           /\ Len(signals) <= Len(signals')
           /\ \A k \in 1..Len(signals) : signals'[k] = signals[k]
           /\ \A k \in (Len(signals) + 1)..Len(signals') :
                 \/ Detected(e) /\ signals'[k] = Signal(setup.trigger, "retest", e)
                 \/ Opened(e) /\ signals'[k] = Signal(Csd(e), "immediate", e)
           /\ \A j, k \in (Len(signals) + 1)..Len(signals') :
                 signals'[j].mode = signals'[k].mode => j = k
  <1> DEFINE r == Signal(setup.trigger, "retest", e)
             i == Signal(Csd(e), "immediate", e)
  <1>1. signals \in Seq(SignalType) /\ e \in Indices /\ session \in Nat
    BY SettingsAssumption DEF TypeOK, SignalType, Indices
  <1>2. Detected(e) => r \in SignalType /\ r.mode = "retest"
    BY <1>1 DEF Detected, Pending, TypeOK, NoSetup, Setup, Signal, SignalType, Modes
  <1>3. Csd(e) # NoTrigger => i \in SignalType /\ i.mode = "immediate"
    <2>1. Csd(e) # NoTrigger => Csd(e) \in Trigger
      BY CsdIsNew
    <2> QED BY <1>1, <2>1 DEF Signal, SignalType, Modes
  <1>4. PICK retest \in {<<>>, RetestCall(e)}, immediate \in {<<>>, ImmediateCall(e)} :
          /\ signals' = signals \o retest \o immediate
          /\ (Kept(e) /\ immediate = <<>>) \/ Opened(e)
    BY DEF Evaluates
  <1>5. \/ retest = <<>> /\ Len(retest) = 0
        \/ Detected(e) /\ retest = <<r>> /\ Len(retest) = 1
    BY DEF RetestCall
  <1>6. \/ immediate = <<>> /\ Len(immediate) = 0
        \/ Opened(e) /\ Csd(e) # NoTrigger /\ immediate = <<i>> /\ Len(immediate) = 1
    BY <1>4 DEF ImmediateCall
  <1>7. retest \in Seq(SignalType) /\ immediate \in Seq(SignalType)
    <2>1. retest \in Seq(SignalType)
      BY <1>2, <1>5, ShortSequences, EmptySeq
    <2>2. immediate \in Seq(SignalType)
      BY <1>3, <1>6, ShortSequences, EmptySeq
    <2> QED BY <2>1, <2>2
  <1>8. /\ signals \o retest \in Seq(SignalType)
        /\ Len(signals \o retest) = Len(signals) + Len(retest)
        /\ \A k \in 1..(Len(signals) + Len(retest)) :
              (signals \o retest)[k] =
                  IF k <= Len(signals) THEN signals[k] ELSE retest[k - Len(signals)]
    BY <1>1, <1>7, ConcatProperties
  <1>9. /\ signals' \in Seq(SignalType)
        /\ Len(signals') = Len(signals) + Len(retest) + Len(immediate)
        /\ \A k \in 1..(Len(signals) + Len(retest) + Len(immediate)) :
              signals'[k] = IF k <= Len(signals) + Len(retest) THEN (signals \o retest)[k]
                            ELSE immediate[k - (Len(signals) + Len(retest))]
    BY <1>4, <1>7, <1>8, ConcatProperties
  <1>10. Len(signals) \in Nat /\ Len(retest) \in {0, 1} /\ Len(immediate) \in {0, 1}
    BY <1>1, <1>5, <1>6
  <1>11. \A k \in 1..Len(signals) : signals'[k] = signals[k]
    BY <1>8, <1>9, <1>10
  <1>12. \A k \in (Len(signals) + 1)..Len(signals') :
            \/ k = Len(signals) + 1 /\ Len(retest) = 1 /\ signals'[k] = r
            \/ k = Len(signals) + Len(retest) + 1 /\ Len(immediate) = 1 /\ signals'[k] = i
    <2> SUFFICES ASSUME NEW k \in (Len(signals) + 1)..Len(signals')
                 PROVE  \/ k = Len(signals) + 1 /\ Len(retest) = 1 /\ signals'[k] = r
                        \/ /\ k = Len(signals) + Len(retest) + 1
                           /\ Len(immediate) = 1 /\ signals'[k] = i
      OBVIOUS
    <2> DEFINE n == Len(signals)
               a == Len(retest)
               b == Len(immediate)
    <2>0. n \in Nat /\ a \in {0, 1} /\ b \in {0, 1} /\ k \in (n + 1)..(n + a + b)
      BY <1>9, <1>10
    <2> HIDE DEF n, a, b
    <2>1. CASE k <= n + a
      <3>1. a = 1 /\ k = n + 1
        BY <2>0, <2>1
      <3>2. retest = <<r>>
        BY <1>5, <3>1 DEF a
      <3>3. signals'[k] = retest[1]
        BY <1>8, <1>9, <1>10, <3>1 DEF n, a
      <3> QED BY <3>1, <3>2, <3>3 DEF n, a
    <2>2. CASE ~(k <= n + a)
      <3>1. b = 1 /\ k = n + a + 1
        BY <2>0, <2>2
      <3>2. immediate = <<i>>
        BY <1>6, <3>1 DEF b
      <3>3. signals'[k] = immediate[1]
        BY <1>9, <1>10, <3>1 DEF n, a, b
      <3> QED BY <3>1, <3>2, <3>3 DEF n, a, b
    <2> QED BY <2>1, <2>2
  <1>13. /\ Len(retest) = 1 => Detected(e)
         /\ Len(immediate) = 1 => Opened(e) /\ Csd(e) # NoTrigger
    BY <1>5, <1>6
  <1>14. \A j, k \in (Len(signals) + 1)..Len(signals') :
            signals'[j].mode = signals'[k].mode => j = k
    BY <1>2, <1>3, <1>10, <1>12, <1>13
  <1> QED BY <1>9, <1>10, <1>11, <1>12, <1>13, <1>14

-----------------------------------------------------------------------------
(* The inductive invariant *)

\* The setup's trigger is one CSDEngine remembers.
SetupWasEmitted == setup.status # "none" => setup.trigger \in emitted

\* Failures of this run concern remembered triggers, never the pending one.
FailuresRemembered ==
    /\ \A f \in failures : f[2] <= session /\ (f[2] = session => f[1] \in emitted)
    /\ Pending(setup) => <<setup.trigger, session>> \notin failures

\* Signals of this run concern remembered triggers; the current setup has given
\* its retest signal only if its retest was detected.
SignalsRemembered ==
    \A k \in 1..Len(signals) :
        /\ signals[k].session <= session
        /\ signals[k].session = session =>
              /\ signals[k].trigger \in emitted
              /\ signals[k].mode = "retest" /\ signals[k].trigger = setup.trigger =>
                    setup.status = "RETEST_DETECTED"

IInv ==
    /\ TypeOK
    /\ WaitBound
    /\ SetupWasEmitted
    /\ FailuresRemembered
    /\ SignalsRemembered
    /\ OneSignalPerTrigger
    /\ FailedTriggerNeverSignals

\* What a candle does to the setup and to the triggers remembered.
LEMMA NewSetup ==
    ASSUME IInv, NEW e \in 1..Len(bars), Evaluates(e)
    PROVE  /\ setup' \in Setup \cup {NoSetup}
           /\ WaitBound'
           /\ emitted \subseteq emitted' /\ emitted' \subseteq Trigger
           /\ \/ /\ Kept(e)
                 /\ setup'.trigger = setup.trigger
                 /\ Pending(setup') => /\ Pending(setup)
                                       /\ RetestOutcome(bars[e]) = "PENDING_RETEST"
                 /\ setup'.status = "none" <=> setup.status = "none"
              \/ /\ Opened(e)
                 /\ setup'.trigger = Csd(e) /\ setup'.status = "PENDING_RETEST"
                 /\ Csd(e) \notin emitted /\ Csd(e) \in emitted'
  <1>1. TypeOK /\ WaitBound /\ emitted \subseteq Trigger
    BY DEF IInv, TypeOK
  <1>2. Kept(e) \/ Opened(e)
    BY DEF Evaluates
  <1>3. CASE Kept(e)
    <2>1. setup' = AfterRetest(e) /\ emitted' = emitted
      BY <1>3 DEF Kept
    <2> QED BY <1>1, <1>3, <2>1, AfterRetestType DEF WaitBound, Pending
  <1>4. CASE Opened(e)
    <2>1. /\ setup' = Started(Csd(e), e) /\ emitted' = emitted \cup {Csd(e)}
          /\ Csd(e) \in Trigger /\ Csd(e).swing \in 1..e /\ Csd(e) \notin emitted
      BY <1>1, <1>4, CsdIsNew DEF Opened
    <2>2. /\ setup' \in Setup /\ setup'.trigger = Csd(e)
          /\ setup'.status = "PENDING_RETEST" /\ setup'.bars = 0
      BY <1>1, <2>1, StartedType
    <2> QED BY <1>1, <1>4, <2>1, <2>2, SettingsAssumption DEF WaitBound
  <1> QED BY <1>2, <1>3, <1>4

\* An evaluated candle keeps the type and the bound on a setup's wait.
LEMMA CandlePreservesType ==
    ASSUME IInv, NEW e \in 1..Len(bars), Evaluates(e)
    PROVE  TypeOK'
  <1>1. TypeOK /\ e \in Unseen
    BY DEF IInv, Evaluates
  <1>2. seen' \subseteq (booted + 1)..Len(bars)
    BY <1>1 DEF Evaluates, Unseen, TypeOK
  <1>3. failures' \subseteq Trigger \X Nat
    <2>1. Pending(setup) => setup.trigger \in Trigger
      BY <1>1 DEF TypeOK, Pending, NoSetup, Setup
    <2> QED BY <1>1, <2>1 DEF Evaluates, FailuresAfter, TypeOK
  <1>4. signals' \in Seq(SignalType)
    BY <1>1, NewSignals
  <1>5. setup' \in Setup \cup {NoSetup} /\ emitted' \subseteq Trigger
    BY NewSetup
  <1> QED BY <1>1, <1>2, <1>3, <1>4, <1>5 DEF TypeOK, Evaluates, SignalType

\* An evaluated candle keeps what the engine remembers: a setup's trigger was
\* reported, and a failed trigger is never reported again (csd.py, _emitted_breaks).
LEMMA CandlePreservesMemory ==
    ASSUME IInv, NEW e \in 1..Len(bars), Evaluates(e)
    PROVE  SetupWasEmitted' /\ FailuresRemembered'
  <1>1. /\ session' = session /\ session \in Nat
        /\ failures' = FailuresAfter(e)
    BY DEF IInv, TypeOK, Evaluates
  <1>2. SetupWasEmitted'
    BY NewSetup DEF IInv, SetupWasEmitted, Pending
  <1>3. \A f \in failures' : f[2] <= session /\ (f[2] = session => f[1] \in emitted)
    BY <1>1 DEF IInv, FailuresRemembered, SetupWasEmitted, FailuresAfter, Pending
  <1>4. \A f \in failures' : f[2] <= session' /\ (f[2] = session' => f[1] \in emitted')
    BY <1>1, <1>3, NewSetup
  <1>5. Pending(setup') => <<setup'.trigger, session'>> \notin failures'
    <2>1. CASE Kept(e) /\ setup'.trigger = setup.trigger
               /\ (Pending(setup') => /\ Pending(setup)
                                      /\ RetestOutcome(bars[e]) = "PENDING_RETEST")
      <3>1. Pending(setup') => failures' = failures
        BY <1>1, <2>1 DEF FailuresAfter
      <3> QED BY <1>1, <2>1, <3>1 DEF IInv, FailuresRemembered
    <2>2. CASE setup'.trigger = Csd(e) /\ Csd(e) \notin emitted
      <3>1. \A f \in failures' : f[2] = session => f[1] # Csd(e)
        BY <1>3, <2>2
      <3> QED BY <1>1, <2>2, <3>1
    <2> QED BY <2>1, <2>2, NewSetup
  <1> QED BY <1>2, <1>4, <1>5 DEF FailuresRemembered

\* An evaluated candle keeps the facts about signals: their triggers were
\* reported, each gives one per entry mode, and a failed one gives none.
LEMMA CandlePreservesSignals ==
    ASSUME IInv, NEW e \in 1..Len(bars), Evaluates(e)
    PROVE  SignalsRemembered' /\ OneSignalPerTrigger' /\ FailedTriggerNeverSignals'
  <1> DEFINE n == Len(signals)
             new == (n + 1)..Len(signals')
             r == Signal(setup.trigger, "retest", e)
             i == Signal(Csd(e), "immediate", e)
  <1>1. /\ TypeOK /\ session' = session /\ session \in Nat
        /\ failures' = FailuresAfter(e)
    BY DEF IInv, TypeOK, Evaluates
  <1>2. /\ n \in Nat /\ Len(signals') \in Nat /\ n <= Len(signals')
        /\ \A k \in 1..n : signals'[k] = signals[k]
        /\ \A k \in new : \/ Detected(e) /\ signals'[k] = r
                          \/ Opened(e) /\ signals'[k] = i
        /\ \A j, k \in new : signals'[j].mode = signals'[k].mode => j = k
    <2>1. signals \in Seq(SignalType)
      BY <1>1 DEF TypeOK, SignalType
    <2> QED BY <1>1, <2>1, NewSignals, LenProperties
  <1>3. /\ r.trigger = setup.trigger /\ r.mode = "retest" /\ r.session = session
        /\ i.trigger = Csd(e) /\ i.mode = "immediate" /\ i.session = session
    BY DEF Signal
  <1>4. Detected(e) =>
           /\ Pending(setup) /\ setup.trigger \in emitted
           /\ failures' = failures
           /\ <<setup.trigger, session>> \notin failures
    BY <1>1 DEF IInv, Detected, FailuresAfter, FailuresRemembered, SetupWasEmitted, Pending
  <1>5. Opened(e) => Csd(e) \notin emitted /\ Csd(e) \in emitted'
    BY <1>1, CsdIsNew DEF Opened
  <1>6. Detected(e) /\ Kept(e) => setup'.status = "RETEST_DETECTED"
    <2>1. ASSUME Detected(e) PROVE AfterRetest(e).status = "RETEST_DETECTED"
      <3>1. setup \in Setup
        BY <1>1, <2>1 DEF Detected, TypeOK, Pending, NoSetup
      <3> QED BY <2>1, <3>1 DEF Detected, AfterRetest, Advanced, Setup
    <2> QED BY <2>1 DEF Kept
  <1>7. ASSUME NEW k \in 1..n, signals[k].session = session
        PROVE  /\ signals[k].trigger \in emitted
               /\ Detected(e) /\ signals[k].mode = "retest" => signals[k].trigger # setup.trigger
    BY <1>4, <1>7 DEF IInv, SignalsRemembered, Pending
  <1>8. SignalsRemembered'
    <2> SUFFICES ASSUME NEW k \in 1..Len(signals')
                 PROVE  /\ signals'[k].session <= session
                        /\ signals'[k].session = session =>
                              /\ signals'[k].trigger \in emitted'
                              /\ signals'[k].mode = "retest"
                                 /\ signals'[k].trigger = setup'.trigger =>
                                    setup'.status = "RETEST_DETECTED"
      BY <1>1 DEF SignalsRemembered
    <2>1. CASE k \in 1..n
      <3>1. signals'[k] = signals[k] /\ signals[k].session <= session
        BY <1>2, <2>1 DEF IInv, SignalsRemembered
      <3>2. ASSUME signals[k].session = session, Kept(e), setup'.trigger = setup.trigger,
                   signals[k].mode = "retest", signals[k].trigger = setup.trigger
            PROVE  setup'.status = "RETEST_DETECTED"
        <4>1. setup.status = "RETEST_DETECTED"
          BY <2>1, <3>2 DEF IInv, SignalsRemembered
        <4> QED BY <3>2, <4>1 DEF Kept, AfterRetest, Pending
      <3>3. signals[k].session = session /\ Opened(e) => signals[k].trigger # Csd(e)
        BY <1>5, <1>7, <2>1
      <3> QED BY <1>7, <2>1, <3>1, <3>2, <3>3, NewSetup
    <2>2. CASE k \in new /\ Detected(e) /\ signals'[k] = r
      <3>1. Opened(e) => Csd(e) # setup.trigger
        BY <1>4, <1>5, <2>2
      <3> QED BY <1>1, <1>3, <1>4, <1>6, <2>2, <3>1, NewSetup
    <2>3. CASE k \in new /\ Opened(e) /\ signals'[k] = i
      BY <1>1, <1>3, <1>5, <2>3
    <2> QED BY <1>2, <2>1, <2>2, <2>3
  <1>9. ASSUME NEW j \in 1..n, NEW k \in new, signals'[j].trigger = signals'[k].trigger,
               signals'[j].mode = signals'[k].mode, signals'[j].session = signals'[k].session
        PROVE  FALSE
    <2>1. signals'[j] = signals[j]
      BY <1>2
    <2>2. CASE Detected(e) /\ signals'[k] = r
      BY <1>3, <1>7, <1>9, <2>1, <2>2
    <2>3. CASE Opened(e) /\ signals'[k] = i
      BY <1>3, <1>5, <1>7, <1>9, <2>1, <2>3
    <2> QED BY <1>2, <2>2, <2>3
  <1>10. OneSignalPerTrigger'
    <2> SUFFICES ASSUME NEW j \in 1..Len(signals'), NEW k \in 1..Len(signals'),
                        signals'[j].trigger = signals'[k].trigger,
                        signals'[j].mode = signals'[k].mode,
                        signals'[j].session = signals'[k].session
                 PROVE  j = k
      BY DEF OneSignalPerTrigger
    <2>1. (j \in 1..n \/ j \in new) /\ (k \in 1..n \/ k \in new)
      BY <1>2
    <2>2. CASE j \in 1..n /\ k \in 1..n
      BY <1>2, <2>2 DEF IInv, OneSignalPerTrigger
    <2>3. CASE j \in new /\ k \in new
      BY <1>2, <2>3
    <2> QED BY <1>9, <2>1, <2>2, <2>3
  <1>11. FailedTriggerNeverSignals'
    <2> SUFFICES ASSUME NEW k \in 1..Len(signals'), signals'[k].mode = "retest"
                 PROVE  <<signals'[k].trigger, signals'[k].session>> \notin failures'
      BY DEF FailedTriggerNeverSignals
    <2>1. CASE k \in 1..n
      <3>1. signals'[k] = signals[k]
            /\ <<signals[k].trigger, signals[k].session>> \notin failures
        BY <1>2, <2>1 DEF IInv, FailedTriggerNeverSignals
      <3>2. Pending(setup) =>
               <<signals[k].trigger, signals[k].session>> # <<setup.trigger, session>>
        BY <2>1, <3>1 DEF IInv, SignalsRemembered, Pending
      <3> QED BY <1>1, <3>1, <3>2 DEF FailuresAfter
    <2>2. CASE k \in new
      BY <1>2, <1>3, <1>4, <2>2
    <2> QED BY <1>2, <2>1, <2>2
  <1> QED BY <1>8, <1>10, <1>11

\* The engine starts in the inductive invariant.
LEMMA InitEstablishes == Init => IInv
  <1> SUFFICES ASSUME Init PROVE IInv
    OBVIOUS
  <1>1. bars \in Seq(Bars) /\ Len(bars) \in Nat
    BY BarsAssumption, LenProperties DEF Init
  <1>2. TypeOK
    <2>1. Len(bars) <= BarBound
      BY BarsAssumption DEF Init
    <2>2. seen \subseteq (booted + 1)..Len(bars) /\ booted \in 0..Len(bars)
      BY <1>1 DEF Init
    <2>3. signals \in Seq([trigger : Trigger, mode : Modes, bar : Indices, session : Nat])
      BY EmptySeq DEF Init
    <2> QED BY <1>1, <2>1, <2>2, <2>3 DEF Init, TypeOK
  <1>3. Len(signals) = 0
    BY EmptySeq DEF Init
  <1> QED BY <1>2, <1>3 DEF Init, IInv, WaitBound, SetupWasEmitted, FailuresRemembered,
             SignalsRemembered, OneSignalPerTrigger, FailedTriggerNeverSignals, Pending, NoSetup

\* The invariant is inductive: candles stored, evaluated or failing, and
\* restarts keep it.
LEMMA NextPreserves == IInv /\ [Next]_vars => IInv'
  <1> SUFFICES ASSUME IInv, [Next]_vars PROVE IInv'
    OBVIOUS
  <1>1. ASSUME NEW e \in 1..Len(bars),
               OnCandleClosed(e) \/ RetestRaises(e) \/ ImmediateRaises(e)
        PROVE  IInv'
    <2>1. Evaluates(e)
      BY <1>1, HandlersEvaluate DEF IInv
    <2> QED BY <2>1, NewSetup, CandlePreservesType, CandlePreservesMemory,
               CandlePreservesSignals DEF IInv
  <1>2. ASSUME NEW b \in Bars, StoreBar(b) PROVE IInv'
    <2>1. /\ bars' \in Seq(Bars) /\ Len(bars') = Len(bars) + 1 /\ Len(bars) \in Nat
          /\ Len(bars) < BarBound
      BY <1>2, AppendProperties, LenProperties DEF StoreBar, IInv, TypeOK
    <2>2. /\ Len(bars') <= BarBound
          /\ booted' \in 0..Len(bars')
          /\ seen' \subseteq (booted' + 1)..Len(bars')
      BY <1>2, <2>1, SettingsAssumption DEF StoreBar, IInv, TypeOK
    <2>3. TypeOK'
      BY <1>2, <2>1, <2>2 DEF StoreBar, IInv, TypeOK
    <2> QED BY <1>2, <2>3 DEF StoreBar, IInv, WaitBound, SetupWasEmitted, FailuresRemembered,
               SignalsRemembered, OneSignalPerTrigger, FailedTriggerNeverSignals
  <1>3. CASE Restart
    <2>1. session \in Nat /\ session' = session + 1 /\ Len(bars) \in Nat
      BY <1>3, LenProperties DEF Restart, IInv, TypeOK
    <2>2. TypeOK'
      BY <1>3, <2>1 DEF Restart, IInv, TypeOK
    <2>3. signals' = signals /\ failures' = failures /\ setup' = NoSetup
      BY <1>3 DEF Restart
    <2>4. \A k \in 1..Len(signals) : signals[k].session <= session /\ signals[k].session \in Nat
      <3>1. signals \in Seq(SignalType)
        BY DEF IInv, TypeOK, SignalType
      <3>2. \A k \in 1..Len(signals) : signals[k] \in SignalType
        BY <3>1, LenProperties
      <3> QED BY <3>2 DEF IInv, SignalsRemembered, SignalType
    <2>5. SignalsRemembered'
      BY <2>1, <2>3, <2>4 DEF SignalsRemembered
    <2>6. \A f \in failures : f[2] <= session /\ f[2] \in Nat
      BY DEF IInv, TypeOK, FailuresRemembered
    <2>7. FailuresRemembered'
      BY <2>1, <2>3, <2>6 DEF FailuresRemembered, Pending, NoSetup
    <2>8. WaitBound' /\ SetupWasEmitted'
      BY <2>3 DEF WaitBound, SetupWasEmitted, Pending, NoSetup
    <2>9. OneSignalPerTrigger' /\ FailedTriggerNeverSignals'
      BY <2>3 DEF IInv, OneSignalPerTrigger, FailedTriggerNeverSignals
    <2> QED BY <2>2, <2>5, <2>7, <2>8, <2>9 DEF IInv
  <1>4. CASE UNCHANGED vars
    BY <1>4 DEF vars, IInv, TypeOK, WaitBound, SetupWasEmitted, FailuresRemembered,
       SignalsRemembered, OneSignalPerTrigger, FailedTriggerNeverSignals
  <1> QED BY <1>1, <1>2, <1>3, <1>4 DEF Next

-----------------------------------------------------------------------------
(* A retest is the first return *)

\* A setup began with an evaluated bar, and ended with one if it did.
Anchored ==
    setup.status # "none" =>
        /\ setup.start \in seen
        /\ IF Pending(setup) THEN setup.end = 0 ELSE setup.end \in seen

\* The prices RetestEngine compares are numbers, and a close is within its bar.
LEMMA BarPrices ==
    ASSUME TypeOK, NEW i \in 1..Len(bars)
    PROVE  /\ bars[i].low \in Nat /\ bars[i].high \in Nat /\ bars[i].close \in Nat
           /\ bars[i].low <= bars[i].close /\ bars[i].close <= bars[i].high
  <1>1. bars[i] \in Bars
    BY DEF TypeOK
  <1> QED BY <1>1, BarsAssumption

\* While a setup stays pending the bar neither returns and holds nor gives the
\* level up; a detected retest returns and holds.
LEMMA OutcomeOfABar ==
    ASSUME TypeOK, Pending(setup), NEW i \in 1..Len(bars)
    PROVE  LET d == setup.trigger.direction
               outcome == RetestOutcome(bars[i])
           IN  /\ outcome = "PENDING_RETEST" =>
                     ~Reclaims(d, setup.level, bars[i]) /\ ~GivesUp(d, setup.level, bars[i])
               /\ outcome = "RETEST_DETECTED" => Reclaims(d, setup.level, bars[i])
  <1> DEFINE b == bars[i]
             d == setup.trigger.direction
             outcome == RetestOutcome(b)
  <1>1. /\ b.low \in Nat /\ b.high \in Nat /\ b.close \in Nat
        /\ b.low <= b.close /\ b.close <= b.high
    BY BarPrices
  <1>2. setup.level \in Nat /\ d \in {"BULLISH", "BEARISH"} /\ ZoneOffset \in Nat
    BY SettingsAssumption DEF TypeOK, Pending, NoSetup, Setup, Trigger, Directions
  <1>3. outcome = "PENDING_RETEST" => ~ClosesInvalid(setup, b)
                                      /\ ~(ZoneTouched(setup, b) /\ ClosesValid(setup, b))
    BY DEF RetestOutcome
  <1>4. outcome = "RETEST_DETECTED" => ZoneTouched(setup, b) /\ ClosesValid(setup, b)
    BY DEF RetestOutcome
  <1> HIDE DEF b, d, outcome
  <1>5. ClosesInvalid(setup, b) <=> GivesUp(d, setup.level, b)
    BY <1>1, <1>2 DEF ClosesInvalid, Beyond, GivesUp, d
  <1>6. ZoneTouched(setup, b) /\ ClosesValid(setup, b) <=> Reclaims(d, setup.level, b)
    <2>1. ClosesValid(setup, b) <=> IF d = "BULLISH" THEN b.close > setup.level
                                                     ELSE b.close < setup.level
      BY DEF ClosesValid, Beyond, d
    <2>2. CASE b.close > setup.level
      BY <1>1, <1>2, <2>1, <2>2 DEF ZoneTouched, Reclaims
    <2>3. CASE ~(b.close > setup.level)
      BY <1>1, <1>2, <2>1, <2>3 DEF ZoneTouched, Reclaims
    <2> QED BY <2>2, <2>3
  <1> QED BY <1>3, <1>4, <1>5, <1>6 DEF b, d, outcome

\* The bars evaluated so far all come before the next one.
LEMMA ReturnsPreserved ==
    ASSUME IInv, Anchored, RetestIsFirstReturn, NEW e \in 1..Len(bars), Evaluates(e)
    PROVE  Anchored' /\ RetestIsFirstReturn'
  <1> DEFINE outcome == RetestOutcome(bars[e])
  <1>1. /\ TypeOK /\ seen' = seen \cup {e} /\ bars' = bars /\ (Kept(e) \/ Opened(e))
        /\ e \in Int /\ e # 0 /\ 0 \notin seen /\ \A i \in seen : i \in Int /\ i < e
    BY DEF Evaluates, Unseen, IInv, TypeOK
  <1>2. CASE Opened(e)
    <2>1. setup'.status = "PENDING_RETEST" /\ setup'.start = e /\ setup'.end = 0
      BY <1>2 DEF Opened, Started
    <2>2. Waited' = {}
      BY <1>1, <2>1 DEF Waited
    <2> QED BY <1>1, <2>1, <2>2 DEF Anchored, Pending, RetestIsFirstReturn
  <1>3. CASE Kept(e) /\ ~Pending(setup)
    <2>1. setup' = setup
      BY <1>3 DEF Kept, AfterRetest
    <2>2. setup.status # "none" => Waited' = Waited
      BY <1>1, <1>3, <2>1 DEF Anchored, Waited
    <2> QED BY <1>1, <2>1, <2>2 DEF Anchored, Pending, RetestIsFirstReturn
  <1>4. CASE Kept(e) /\ Pending(setup)
    <2>1. /\ setup \in Setup /\ setup.status = "PENDING_RETEST"
          /\ setup.start \in seen /\ setup.end = 0
      BY <1>1, <1>4 DEF TypeOK, Pending, NoSetup, Anchored
    <2>2. /\ setup'.status = outcome /\ setup'.end = IF outcome = "PENDING_RETEST" THEN 0 ELSE e
          /\ setup'.start = setup.start /\ setup'.level = setup.level
          /\ setup'.trigger = setup.trigger
      BY <1>4, <2>1 DEF Kept, AfterRetest, Advanced, Setup
    <2>3. outcome \in {"PENDING_RETEST", "RETEST_DETECTED", "INVALIDATED", "EXPIRED"}
      BY DEF RetestOutcome
    <2> HIDE DEF outcome
    <2>4. Anchored'
      BY <1>1, <2>1, <2>2, <2>3 DEF Anchored, Pending
    <2>5. Waited' = IF outcome = "PENDING_RETEST" THEN Waited \cup {e} ELSE Waited
      BY <1>1, <2>1, <2>2 DEF Waited
    <2>6. LET d == setup.trigger.direction
          IN  /\ outcome = "PENDING_RETEST" =>
                    ~Reclaims(d, setup.level, bars[e]) /\ ~GivesUp(d, setup.level, bars[e])
              /\ outcome = "RETEST_DETECTED" => Reclaims(d, setup.level, bars[e])
      BY <1>1, <1>4, OutcomeOfABar DEF outcome
    <2>7. RetestIsFirstReturn'
      <3> SUFFICES ASSUME outcome \in {"PENDING_RETEST", "RETEST_DETECTED"}
                   PROVE  LET d == setup.trigger.direction
                          IN  /\ \A i \in Waited' : /\ ~Reclaims(d, setup.level, bars[i])
                                                    /\ ~GivesUp(d, setup.level, bars[i])
                              /\ setup'.end # 0 => Reclaims(d, setup.level, bars[setup'.end])
        BY <1>1, <2>2 DEF RetestIsFirstReturn, Reclaims, GivesUp
      <3>1. \A i \in Waited : /\ ~Reclaims(setup.trigger.direction, setup.level, bars[i])
                              /\ ~GivesUp(setup.trigger.direction, setup.level, bars[i])
        BY <2>1 DEF RetestIsFirstReturn
      <3> QED BY <2>2, <2>5, <2>6, <3>1
    <2> QED BY <2>4, <2>7
  <1> QED BY <1>1, <1>2, <1>3, <1>4

LEMMA ReturnsHold == Spec => [](IInv /\ Anchored /\ RetestIsFirstReturn)
  <1>1. Init => IInv /\ Anchored /\ RetestIsFirstReturn
    BY InitEstablishes DEF Init, NoSetup, Anchored, RetestIsFirstReturn
  <1>2. IInv /\ Anchored /\ RetestIsFirstReturn /\ [Next]_vars
           => (IInv /\ Anchored /\ RetestIsFirstReturn)'
    <2> SUFFICES ASSUME IInv, Anchored, RetestIsFirstReturn, [Next]_vars
                 PROVE  IInv' /\ Anchored' /\ RetestIsFirstReturn'
      OBVIOUS
    <2>1. IInv'
      BY NextPreserves
    <2>2. ASSUME NEW e \in 1..Len(bars),
                 OnCandleClosed(e) \/ RetestRaises(e) \/ ImmediateRaises(e)
          PROVE  Anchored' /\ RetestIsFirstReturn'
      BY <2>2, HandlersEvaluate, ReturnsPreserved DEF IInv
    <2>3. ASSUME NEW b \in Bars, StoreBar(b) PROVE Anchored' /\ RetestIsFirstReturn'
      <3>1. /\ bars' = Append(bars, b) /\ setup' = setup /\ seen' = seen
            /\ seen \subseteq 1..Len(bars)
        <4>1. Len(bars) \in Nat /\ booted \in Nat /\ seen \subseteq (booted + 1)..Len(bars)
          BY LenProperties DEF IInv, TypeOK
        <4> QED BY <2>3, <4>1 DEF StoreBar
      <3>2. \A i \in 1..Len(bars) : bars'[i] = bars[i]
        BY <3>1, AppendProperties DEF IInv, TypeOK
      <3>3. Waited' = Waited /\ Waited \subseteq 1..Len(bars)
        BY <3>1 DEF Waited
      <3>4. setup.status = "RETEST_DETECTED" => setup.end \in 1..Len(bars)
        BY <3>1 DEF Anchored, Pending
      <3>5. setup.status = "PENDING_RETEST" => setup.end = 0
        BY DEF Anchored, Pending
      <3>6. Anchored'
        BY <3>1 DEF Anchored, Pending
      <3>7. RetestIsFirstReturn'
        BY <3>1, <3>2, <3>3, <3>4, <3>5 DEF RetestIsFirstReturn, Reclaims, GivesUp
      <3> QED BY <3>6, <3>7
    <2>4. CASE Restart
      <3>1. setup'.status = "none"
        BY <2>4 DEF Restart, NoSetup
      <3> QED BY <2>1, <3>1 DEF Anchored, RetestIsFirstReturn
    <2>5. CASE UNCHANGED vars
      <3>1. setup' = setup /\ seen' = seen /\ bars' = bars
        BY <2>5 DEF vars
      <3>2. Waited' = Waited
        BY <3>1 DEF Waited
      <3> QED BY <2>1, <3>1, <3>2 DEF Anchored, Pending, RetestIsFirstReturn, Reclaims, GivesUp
    <2> QED BY <2>1, <2>2, <2>3, <2>4, <2>5 DEF Next
  <1> QED BY <1>1, <1>2, PTL DEF Spec

-----------------------------------------------------------------------------
(* Theorems *)

\* Hence every reachable state satisfies it.
LEMMA IInvHolds == Spec => []IInv
  BY InitEstablishes, NextPreserves, PTL DEF Spec

\* The engine's state always has its type: in particular a setup never waits
\* longer than the window allows.
THEOREM TypeCorrect == Spec => []TypeOK
  BY IInvHolds, PTL DEF IInv

\* In one run of the engine a trigger gives at most one signal per entry mode.
THEOREM SignalsOnce == Spec => []OneSignalPerTrigger
  BY IInvHolds, PTL DEF IInv

\* A setup that was invalidated or expired gives no retest signal in that run.
THEOREM FailureIsFinal == Spec => []FailedTriggerNeverSignals
  BY IInvHolds, PTL DEF IInv

\* A retest is the first evaluated candle after the breakout that comes back to
\* the zone and closes beyond the level, and none before it closed through the
\* level: a setup neither overlooks a retest nor survives a failure.
\* (RetestEngine.evaluate, called for every closed candle of the key.)
THEOREM RetestIsTheFirst == Spec => []RetestIsFirstReturn
  BY ReturnsHold, PTL

\* The first state of the engine is the contract's.
LEMMA InitRefines == Init => Contract!Fresh
  BY DEF Init, Contract!Fresh, AbstractStatus, NoSetup

\* Every step of the engine is a step the contract allows, or none.
LEMMA NextRefines ==
    ASSUME IInv, [Next]_vars
    PROVE  [Contract!Next]_(Contract!vars)
  <1> USE DEF AbstractStatus
  <1>1. ASSUME NEW e \in 1..Len(bars),
               OnCandleClosed(e) \/ RetestRaises(e) \/ ImmediateRaises(e)
        PROVE  [Contract!Next]_(Contract!vars)
    <2>1. TypeOK /\ WaitBound /\ Evaluates(e)
      BY <1>1, HandlersEvaluate DEF IInv
    <2>2. CASE Opened(e)
      <3>1. /\ setup' = Started(Csd(e), e) /\ emitted' = emitted \cup {Csd(e)}
            /\ Csd(e) \in Trigger /\ Csd(e).swing \in 1..e /\ Csd(e) \notin emitted
        BY <2>1, <2>2, CsdIsNew DEF Opened
      <3>2. setup'.trigger = Csd(e) /\ setup'.status = "PENDING_RETEST" /\ setup'.bars = 0
        BY <2>1, <3>1, StartedType
      <3>3. Contract!Open(Csd(e))
        BY <3>1, <3>2 DEF Contract!Open
      <3> QED BY <3>1, <3>3 DEF Contract!Next
    <2>3. CASE Kept(e) /\ ~Pending(setup)
      <3>1. setup' = setup /\ emitted' = emitted
        BY <2>3 DEF Kept, AfterRetest
      <3> QED BY <3>1 DEF Contract!vars
    <2>4. CASE Kept(e) /\ Pending(setup)
      <3> DEFINE outcome == RetestOutcome(bars[e])
      <3>1. setup \in Setup /\ setup.status = "PENDING_RETEST"
        BY <2>1, <2>4 DEF TypeOK, Pending, NoSetup
      <3>2. /\ emitted' = emitted
            /\ setup'.trigger = setup.trigger
            /\ setup'.status = outcome
            /\ setup'.bars = setup.bars + 1
        BY <2>4, <3>1 DEF Kept, AfterRetest, Advanced, Setup
      <3>3. /\ outcome \in {"PENDING_RETEST", "RETEST_DETECTED", "INVALIDATED", "EXPIRED"}
            /\ outcome # "EXPIRED" => ~(Advanced.bars > MaxWait)
        BY DEF RetestOutcome
      <3>4. outcome # "EXPIRED" => setup.bars < MaxWait
        <4>1. Advanced.bars = setup.bars + 1 /\ setup.bars \in Nat
          BY <3>1, SettingsAssumption DEF Advanced, Setup
        <4> QED BY <3>3, <4>1, SettingsAssumption
      <3>5. CASE outcome = "PENDING_RETEST"
        BY <3>1, <3>2, <3>4, <3>5 DEF Contract!Next, Contract!Wait
      <3>6. CASE outcome = "RETEST_DETECTED"
        BY <3>1, <3>2, <3>4, <3>6 DEF Contract!Next, Contract!Retest
      <3>7. CASE outcome \in {"INVALIDATED", "EXPIRED"}
        BY <3>1, <3>2, <3>7 DEF Contract!Next, Contract!Fail
      <3> QED BY <3>3, <3>5, <3>6, <3>7
    <2>5. Kept(e) \/ Opened(e)
      BY <2>1 DEF Evaluates
    <2> QED BY <2>2, <2>3, <2>4, <2>5
  <1>2. ASSUME NEW b \in Bars, StoreBar(b) PROVE [Contract!Next]_(Contract!vars)
    BY <1>2 DEF StoreBar, Contract!vars
  <1>3. CASE Restart
    BY <1>3 DEF Restart, Contract!Next, Contract!Forget, NoSetup
  <1>4. CASE UNCHANGED vars
    BY <1>4 DEF vars, Contract!vars
  <1> QED BY <1>1, <1>2, <1>3, <1>4 DEF Next

\* The three engines implement the setup contract: a trigger opens one setup,
\* which waits a bounded number of candles and ends once.
THEOREM ContractHolds == Spec => ImplementsContract
  BY InitRefines, NextRefines, IInvHolds, PTL DEF Spec, Contract!Spec, ImplementsContract
=============================================================================
