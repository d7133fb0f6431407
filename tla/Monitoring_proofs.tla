------------------------- MODULE Monitoring_proofs -------------------------
(***************************************************************************)
(* For any streams, bounds and attempts: a snapshot file whose last        *)
(* publication went through holds what the engine knows, and a chart shows *)
(* only the selected market.                                               *)
(*                                                                         *)
(* The first needs an invariant of the publications still to be made:      *)
(* whenever the health file is not up to date, a publication of it is in   *)
(* "work", unless the engine is inside a reconcile(), which ends with one. *)
(* The second needs that nothing on its way to the chart (the event stream *)
(* and the candle waiting for its timer) belongs to another market.        *)
(***************************************************************************)
EXTENDS Monitoring, SequenceTheorems, TLAPS

Tasks == [file : Files, stream : Streams \cup {"none"}, version : Int,
          failure : {"log", "session", "boot", "process"}]

(* The types the proofs need. *)
Typed ==
    /\ work \in Seq(Tasks)
    /\ DOMAIN file = Files
    /\ behind \subseteq Files
    /\ market \in [Streams -> Int] /\ cursor \in [Streams -> Int]

(* Outside a reconcile() of a living engine, a stale health file has a     *)
(* publication on its way.                                                 *)
HealthIsOnItsWay ==
    \/ "health" \in behind
    \/ phase \in {"seed", "resync", "down"}
    \/ file.health = health
    \/ \E i \in 1..Len(work) : work[i].file = "health"

RelayIsPublished == "live" \in behind \/ file.live = candles

FilesInv == Typed /\ HealthIsOnItsWay /\ RelayIsPublished

Failures == {"log", "session", "boot", "process"}

LEMMA TasksAreTyped ==
    ASSUME NEW f \in Files, NEW x \in Failures
    PROVE  Task(f, x) \in Tasks /\ Task(f, x).file = f
BY DEF Task, Tasks, Failures

LEMMA RelaysAreTyped ==
    ASSUME NEW s \in Streams, NEW v \in Int, NEW x \in Failures
    PROVE  Relay(s, v, x) \in Tasks
BY DEF Task, Relay, Tasks, Failures, Files

LEMMA ClosingsAreTyped ==
    ASSUME NEW s \in Streams, NEW v \in Int
    PROVE  Closing(s, v) \in Tasks
BY DEF Task, Closing, Tasks, Files

LEMMA OneTask ==
    ASSUME NEW x \in Failures
    PROVE  /\ <<Task("health", x)>> \in Seq(Tasks)
           /\ \E i \in 1..Len(<<Task("health", x)>>) : <<Task("health", x)>>[i].file = "health"
<1>1. Task("health", x) \in Tasks /\ Task("health", x).file = "health"
  BY TasksAreTyped DEF Files
<1>2. <<Task("health", x)>>[1].file = "health" /\ Len(<<Task("health", x)>>) = 1
  BY <1>1
<1> QED  BY <1>1, <1>2

LEMMA FilesInit == ASSUME Init PROVE FilesInv
BY MonitoringAssumption DEF Init, FilesInv, Typed, HealthIsOnItsWay, RelayIsPublished, Files, NoCandles

(* Between publications an action that changes the health, or starts over, *)
(* announces a publication of the health; the relay it leaves alone.       *)
LEMMA FilesAnnounced ==
    ASSUME FilesInv, NEW x \in Failures, work' = <<Task("health", x)>>,
           UNCHANGED <<file, candles, market, behind>>,
           cursor' \in [Streams -> Int]
    PROVE  FilesInv'
<1> USE DEF FilesInv
<1>1. Typed'  BY OneTask DEF Typed
<1>2. HealthIsOnItsWay'  BY OneTask DEF HealthIsOnItsWay
<1>3. RelayIsPublished'  BY DEF RelayIsPublished, Files
<1> QED  BY <1>1, <1>2, <1>3

LEMMA FilesUntouched ==
    ASSUME FilesInv, UNCHANGED <<phase, health, candles, behind, work, file, cursor>>,
           market' \in [Streams -> Int]
    PROVE  FilesInv'
BY DEF FilesInv, Typed, HealthIsOnItsWay, RelayIsPublished

LEMMA FilesPublish == ASSUME FilesInv, Publish PROVE FilesInv'
<1> DEFINE t == Head(work)
<1> USE DEF FilesInv
<1>1. t \in Tasks /\ t = work[1] /\ Tail(work) \in Seq(Tasks) /\ work # <<>>
  BY DEF Publish, Typed
<1>2. Typed'  BY <1>1 DEF Publish, Typed, exchange
<1>3. HealthIsOnItsWay'
  <2>1. CASE t.file = "health"
    <3>1. file'.health = health'  BY <2>1 DEF Publish, Typed, Files
    <3> QED  BY <3>1 DEF HealthIsOnItsWay
  <2>2. CASE t.file = "live"
    <3>1. /\ health' = health /\ file'.health = file.health /\ phase' = phase
          /\ ("health" \in behind => "health" \in behind')
      BY <2>2 DEF Publish, HealthAfter, Typed, Files
    <3>2. ASSUME NEW i \in 1..Len(work), work[i].file = "health"
          PROVE  \E j \in 1..Len(Tail(work)) : Tail(work)[j].file = "health"
      <4>1. i # 1  BY <1>1, <2>2, <3>2
      <4>2. i - 1 \in 1..Len(Tail(work)) /\ Tail(work)[i - 1] = work[i]
        BY <1>1, <4>1, work \in Seq(Tasks) DEF Typed
      <4> QED  BY <3>2, <4>2
    <3> QED  BY <3>1, <3>2 DEF HealthIsOnItsWay, Publish
  <2> QED  BY <1>1, <2>1, <2>2 DEF Tasks, Files
<1>4. RelayIsPublished'
  <2>1. CASE t.file = "live"
    <3>1. file'.live = candles'  BY <2>1 DEF Publish, Typed, Files
    <3> QED  BY <3>1 DEF RelayIsPublished
  <2>2. CASE t.file = "health"
    <3>1. candles' = candles /\ file'.live = file.live /\ ("live" \in behind => "live" \in behind')
      BY <2>2 DEF Publish, CandlesAfter, Typed, Files
    <3> QED  BY <3>1 DEF RelayIsPublished
  <2> QED  BY <1>1, <2>1, <2>2 DEF Tasks, Files
<1> QED  BY <1>2, <1>3, <1>4

LEMMA FilesGiveUp == ASSUME FilesInv, GiveUp PROVE FilesInv'
<1> DEFINE t == Head(work)
<1> USE DEF FilesInv
<1>1. t \in Tasks /\ t = work[1] /\ Tail(work) \in Seq(Tasks) /\ work # <<>>
  BY DEF GiveUp, Typed
<1>2. RelayIsPublished'
  BY <1>1 DEF RelayIsPublished, GiveUp, CandlesAfter, Tasks, Files
<1>3. UNCHANGED <<file, market, cursor>> /\ behind' = behind \cup {t.file}
  BY DEF GiveUp, exchange
<1>4. CASE t.failure = "log"
  <2>1. work' = Tail(work) /\ health' = HealthAfter(t) /\ phase' = phase
    BY <1>4 DEF GiveUp
  <2>2. Typed'  BY <1>1, <1>3, <2>1 DEF Typed, Tasks
  <2>3. HealthIsOnItsWay'
    <3>1. CASE t.file = "health"  BY <1>3, <3>1 DEF HealthIsOnItsWay
    <3>2. CASE t.file = "live"
      <4>1. health' = health  BY <2>1, <3>2 DEF HealthAfter
      <4>2. ASSUME NEW i \in 1..Len(work), work[i].file = "health"
            PROVE  \E j \in 1..Len(Tail(work)) : Tail(work)[j].file = "health"
        <5>1. i # 1  BY <1>1, <3>2, <4>2
        <5>2. i - 1 \in 1..Len(Tail(work)) /\ Tail(work)[i - 1] = work[i]
          BY <1>1, <5>1, work \in Seq(Tasks) DEF Typed
        <5> QED  BY <4>2, <5>2
      <4> QED  BY <1>3, <2>1, <4>1, <4>2 DEF HealthIsOnItsWay
    <3> QED  BY <1>1, <3>1, <3>2 DEF Tasks, Files
  <2> QED  BY <1>2, <2>2, <2>3
<1>5. CASE t.failure \in {"session", "boot"}
  <2>1. \E x \in Failures : work' = <<Task("health", x)>>
    BY <1>5 DEF GiveUp, SessionOver, Farewell, Failures
  <2>2. Typed'  BY <1>1, <1>3, <2>1, OneTask DEF Typed, Tasks
  <2>3. HealthIsOnItsWay'  BY <2>1, OneTask DEF HealthIsOnItsWay
  <2> QED  BY <1>2, <2>2, <2>3
<1>6. CASE t.failure = "process"
  <2>1. phase' = "down" /\ work' = <<>>  BY <1>6 DEF GiveUp
  <2>2. Typed'  BY <1>1, <1>3, <2>1 DEF Typed, Tasks
  <2>3. HealthIsOnItsWay'  BY <2>1 DEF HealthIsOnItsWay
  <2> QED  BY <1>2, <2>2, <2>3
<1> QED  BY <1>1, <1>4, <1>5, <1>6 DEF Tasks

LEMMA FilesFetch == ASSUME FilesInv, NEW s \in Streams, Fetch(s) PROVE FilesInv'
<1>1. market[s] \in Int  BY DEF FilesInv, Typed
<1>2. Uncaught \in Failures  BY DEF Uncaught, Failures
<1>3. <<Relay(s, market[s], Uncaught)>> \in Seq(Tasks)  BY <1>1, <1>2, RelaysAreTyped
<1>4. Typed'  BY <1>3 DEF FilesInv, Typed, Fetch, Announce
<1>5. HealthIsOnItsWay'  BY DEF HealthIsOnItsWay, Fetch, Idle
<1>6. RelayIsPublished'  BY DEF FilesInv, RelayIsPublished, Fetch, Announce
<1> QED  BY <1>4, <1>5, <1>6 DEF FilesInv

LEMMA FilesFrame == ASSUME FilesInv, NEW s \in Streams, Frame(s) PROVE FilesInv'
<1> DEFINE v == cursor[s] + 1
<1>1. v \in Int  BY DEF FilesInv, Typed
<1>2. /\ Task("health", "log") \in Tasks /\ Task("health", "log").file = "health"
      /\ Relay(s, v, "log") \in Tasks /\ Closing(s, v) \in Tasks
  BY <1>1, TasksAreTyped, RelaysAreTyped, ClosingsAreTyped DEF Failures, Files
<1>3. FrameTasks(s, v) \in Seq(Tasks) /\ Len(FrameTasks(s, v)) > 0
  BY <1>2 DEF FrameTasks
<1>4. FrameTasks(s, v)[1].file = "health"
  BY <1>2 DEF FrameTasks
<1>5. Typed'
  BY <1>1, <1>3 DEF FilesInv, Typed, Frame, Announce, engine
<1>6. HealthIsOnItsWay'
  BY <1>3, <1>4 DEF HealthIsOnItsWay, Frame, Announce
<1>7. RelayIsPublished'
  BY DEF FilesInv, RelayIsPublished, Frame, Announce, engine
<1> QED  BY <1>5, <1>6, <1>7 DEF FilesInv

LEMMA FilesStep == ASSUME FilesInv, [Next]_vars PROVE FilesInv'
<1> USE DEF Failures
<1>1. CASE Publish  BY <1>1, FilesPublish
<1>2. CASE TryAgain
  BY <1>2, FilesUntouched DEF TryAgain, engine, exchange, FilesInv, Typed
<1>3. CASE GiveUp  BY <1>3, FilesGiveUp
<1>4. CASE Boot
  <2>1. Typed'  BY <1>4, OneTask DEF Boot, Announce, FilesInv, Typed
  <2>2. HealthIsOnItsWay' /\ RelayIsPublished'
    BY <1>4 DEF Boot, HealthIsOnItsWay, RelayIsPublished, Files
  <2> QED  BY <2>1, <2>2 DEF FilesInv
<1>5. CASE FinishReconcile
  <2>1. Uncaught \in Failures  BY DEF Uncaught
  <2> QED  BY <1>5, <2>1, FilesAnnounced DEF FinishReconcile, Announce, FilesInv, Typed
<1>6. CASE Connect  BY <1>6, FilesAnnounced DEF Connect, Announce, FilesInv, Typed
<1>7. CASE Subscribed  BY <1>7, FilesAnnounced DEF Subscribed, Announce, FilesInv, Typed
<1>8. CASE SessionEnds
  BY <1>8, FilesAnnounced DEF SessionEnds, SessionOver, FilesInv, Typed
<1>9. CASE Stop  BY <1>9, FilesAnnounced DEF Stop, Announce, FilesInv, Typed
<1>10. CASE Leave  BY <1>10, FilesAnnounced DEF Leave, Farewell, FilesInv, Typed
<1>11. ASSUME NEW s \in Streams, Fetch(s) PROVE FilesInv'  BY <1>11, FilesFetch
<1>12. ASSUME NEW s \in Streams, Frame(s) PROVE FilesInv'  BY <1>12, FilesFrame
<1>13. CASE Killed
  BY <1>13 DEF Killed, exchange, FilesInv, Typed, HealthIsOnItsWay, RelayIsPublished
<1>14. ASSUME NEW s \in Streams, Trade(s) PROVE FilesInv'
  BY <1>14, FilesUntouched DEF Trade, engine, FilesInv, Typed
<1>15. CASE Reader \/ Browser \/ UNCHANGED vars
  <2>1. UNCHANGED <<engine, work, file, exchange>>
    BY <1>15 DEF Reader, OpenLive, CloseLive, Browser, OpenStream, StreamBreaks, Draw, Tick,
                 Select, Browse, vars
  <2> QED  BY <2>1, FilesUntouched DEF engine, exchange, FilesInv, Typed
<1> QED  BY <1>1, <1>2, <1>3, <1>4, <1>5, <1>6, <1>7, <1>8, <1>9, <1>10, <1>11, <1>12, <1>13,
            <1>14, <1>15 DEF Next, Engine, Publishing

(* Whenever the engine is between publications, the health file and the    *)
(* live file hold its health and its relay, unless their last replacement  *)
(* was refused.                                                            *)
THEOREM FilesAreCurrent == Spec => []FilesMatchTheEngine
<1>1. FilesInv => FilesMatchTheEngine
  BY DEF FilesInv, HealthIsOnItsWay, RelayIsPublished, FilesMatchTheEngine, Idle
<1> QED  BY <1>1, FilesInit, FilesStep, PTL DEF Spec

-----------------------------------------------------------------------------
(* Neither the event stream, nor the candle that waits for its timer, nor  *)
(* the chart belongs to another market than the selected one.              *)
ChartInv ==
    /\ DOMAIN tab = {"selected", "stream", "pending", "shown", "status", "age"}
    /\ tab.stream \in {"none", tab.selected}
    /\ tab.pending.stream \in {"none", tab.selected}
    /\ tab.shown.stream \in {"none", tab.selected}

LEMMA ChartInit == ASSUME Init PROVE ChartInv
BY DEF Init, ChartInv, NoChart

LEMMA ChartStep == ASSUME ChartInv, [Next]_vars PROVE ChartInv'
<1> USE DEF ChartInv
<1>1. CASE OpenLive  BY <1>1 DEF OpenLive
<1>2. CASE CloseLive
  <2>1. CASE ~reading.new  BY <1>2, <2>1 DEF CloseLive
  <2>2. CASE reading.new
    <3>1. tab' = [tab EXCEPT !.pending = [stream |-> tab.stream, version |-> reading.version],
                             !.age = 0, !.status = "LIVE"]
      BY <1>2, <2>2 DEF CloseLive
    <3> QED  BY <3>1
  <2> QED  BY <2>1, <2>2
<1>3. CASE OpenStream  BY <1>3 DEF OpenStream
<1>4. CASE StreamBreaks  BY <1>4 DEF StreamBreaks
<1>5. ASSUME NEW s \in Streams, Select(s) PROVE ChartInv'
  BY <1>5 DEF Select, Disconnected, NoChart
<1>6. CASE Draw  BY <1>6 DEF Draw, NoChart
<1>7. CASE Tick  BY <1>7 DEF Tick
<1>8. CASE Engine \/ Killed \/ (\E s \in Streams : Trade(s)) \/ UNCHANGED vars
  <2>1. UNCHANGED tab
    BY <1>8 DEF Engine, Publishing, Publish, TryAgain, GiveUp, Boot, FinishReconcile, Connect,
                Subscribed, SessionEnds, Stop, Leave, Fetch, Frame, Killed, Trade, Announce, vars
  <2> QED  BY <2>1
<1> QED  BY <1>1, <1>2, <1>3, <1>4, <1>5, <1>6, <1>7, <1>8 DEF Next, Reader, Browser

(* However candles are delayed and streams broken, the chart shows candles *)
(* of the selected market only.                                            *)
THEOREM ChartsAreNotMixed == Spec => []ChartShowsItsMarket
<1>1. ChartInv => ChartShowsItsMarket  BY DEF ChartInv, ChartShowsItsMarket
<1> QED  BY <1>1, ChartInit, ChartStep, PTL DEF Spec
=============================================================================
