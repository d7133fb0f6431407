----------------------------- MODULE Monitoring -----------------------------
(***************************************************************************)
(* How the state of the engine reaches a browser: the engine publishes its *)
(* health (app/monitoring/runtime.py) and the latest candle of each stream *)
(* (app/monitoring/live_market.py) as two files, from the places main.py   *)
(* and binance_ws.py call them; the dashboard, another process, reads the  *)
(* files and pushes a changed payload to a tab (app/dashboard.py), which   *)
(* draws it a second later and labels its chart LIVE, STALE or CONNECTING. *)
(* The session itself is MarketFeed's; here only its phases are kept.      *)
(*                                                                         *)
(* A candle is a version number: a stream's frames are 1, 2, ... in the    *)
(* order the exchange makes them, and every second one closes its bar. The *)
(* payload carries the time of its publication, so each publication is a   *)
(* payload the event stream has not sent.                                  *)
(***************************************************************************)
EXTENDS Integers, Sequences

CONSTANTS
    Streams,        \* pairs <symbol, timeframe>
    FirstMarket,    \* the market a tab starts with
    LastVersion,    \* bound: frames of each stream
    FaultBound,     \* bound: kills, stops, lost sessions, failed fetches, clicks
    Attempts,       \* replacements of the live file that are tried (4 in the code)
    ReadersBlock,   \* a file a reader has open cannot be replaced (Windows)
    StaleAfter      \* seconds after which a quiet chart is STALE (5 in the code)

ASSUME MonitoringAssumption ==
    /\ FirstMarket \in Streams /\ LastVersion \in [Streams -> Nat \ {0}]
    /\ {Attempts, StaleAfter} \subseteq Nat \ {0}
    /\ FaultBound \in Nat /\ ReadersBlock \in BOOLEAN

VARIABLES
    phase,      \* where the engine is, "down" and "left" being no process
    first,      \* no session has been subscribed since the boot
    left,       \* streams the running reconcile() has still to fetch
    health,     \* HealthStatus: running, websocket_connected, last_closed_candle
    candles,    \* LiveMarketSnapshotStore._candles, 0 for no candle
    work,       \* publications the current handler has still to make
    tries,      \* refused replacements of the publication at hand
    behind,     \* files that miss the last publication of this engine
    file,       \* what the two files hold
    market,     \* newest version the exchange has made, per stream
    cursor,     \* last frame taken from the socket, per stream
    reading,    \* the live file the dashboard holds open, and what it read there
    unread,     \* the file's payload is not the event stream's last_payload
    tab,        \* the browser: selected market, event stream, chart, label
    faults      \* bounded disturbances so far

engine == <<phase, first, left, health, candles, behind>>
exchange == <<market, cursor>>
vars == <<engine, work, tries, file, exchange, reading, unread, tab, faults>>

Files == {"health", "live"}
Closes(v) == v > 0 /\ v % 2 = 0
NewestClosed(v) == v - (v % 2)
NoCandles == [s \in Streams |-> 0]
NotReading == [held |-> FALSE, version |-> 0, new |-> FALSE]
NoChart == [stream |-> "none", version |-> 0]

Disturbed == faults < FaultBound /\ faults' = faults + 1

-----------------------------------------------------------------------------
(* Publications. A task records something in memory, then writes the file  *)
(* beside its target and moves it over the target. Where a reader has the  *)
(* target open the move is refused; the live file is tried several times,  *)
(* the health file once. After the last refusal the caller logs it and     *)
(* goes on, or lets the OSError end its session, its boot or its process.  *)

Task(f, failure) == [file |-> f, stream |-> "none", version |-> 0, failure |-> failure]
Closing(s, v) == [Task("health", "log") EXCEPT !.stream = s, !.version = v]
Relay(s, v, failure) == [Task("live", failure) EXCEPT !.stream = s, !.version = v]

Tries(f) == IF f = "live" THEN Attempts ELSE 1

HealthAfter(t) ==
    IF t.file = "health" /\ t.version > 0
      THEN [health EXCEPT !.closed[t.stream] = t.version] ELSE health
CandlesAfter(t) ==
    IF t.file = "live" THEN [candles EXCEPT ![t.stream] = t.version] ELSE candles

(* The event stream's reads of the live file are actions below; a status   *)
(* request may hold the health file at any time.                           *)
MayBeFree(f) == f = "live" => ~(ReadersBlock /\ reading.held)
MayBeHeld(f) == ReadersBlock /\ (f = "live" => reading.held)

Publish ==
    /\ work # <<>> /\ MayBeFree(Head(work).file)
    /\ LET t == Head(work) IN
         /\ health' = HealthAfter(t)
         /\ candles' = CandlesAfter(t)
         /\ file' = [file EXCEPT ![t.file] = IF t.file = "live" THEN candles' ELSE health']
         /\ behind' = behind \ {t.file}
         /\ unread' = (unread \/ t.file = "live")
    /\ work' = Tail(work)
    /\ tries' = 0
    /\ UNCHANGED <<phase, first, left, exchange, reading, tab, faults>>

TryAgain ==
    /\ work # <<>> /\ MayBeHeld(Head(work).file)
    /\ tries + 1 < Tries(Head(work).file)
    /\ tries' = tries + 1
    /\ UNCHANGED <<engine, work, file, exchange, reading, unread, tab, faults>>

(* Mutant: the finally clause of a session publishes nothing.              *)
SilentSessionOver == phase' = "offline" /\ work' = <<>>
SessionOver == phase' = "offline" /\ work' = <<Task("health", "log")>>
Farewell == phase' = "left" /\ work' = <<Task("health", "process")>>

GiveUp ==
    /\ work # <<>> /\ MayBeHeld(Head(work).file)
    /\ tries + 1 >= Tries(Head(work).file)
    /\ tries' = 0
    /\ LET t == Head(work) IN
         /\ behind' = behind \cup {t.file}
         /\ candles' = CandlesAfter(t)
         /\ CASE t.failure = "log" ->
                   work' = Tail(work) /\ health' = HealthAfter(t) /\ UNCHANGED phase
              [] t.failure = "session" ->
                   SessionOver /\ health' = [health EXCEPT !.connected = FALSE]
              [] t.failure = "boot" ->
                   Farewell /\ health' = [health EXCEPT !.running = FALSE]
              [] t.failure = "process" ->
                   phase' = "down" /\ work' = <<>> /\ UNCHANGED health
    /\ UNCHANGED <<first, left, file, exchange, reading, unread, tab, faults>>

-----------------------------------------------------------------------------
(* The engine, between publications.                                       *)

Idle(phases) == work = <<>> /\ phase \in phases
Announce(tasks) == work' = tasks /\ UNCHANGED <<tries, file, market, reading, unread, tab>>

(* A process starts with fresh memory and publishes before its try block.  *)
Boot ==
    /\ Idle({"down", "left"})
    /\ phase' = "seed" /\ first' = TRUE /\ left' = Streams
    /\ health' = [running |-> TRUE, connected |-> FALSE, closed |-> NoCandles]
    /\ candles' = NoCandles /\ behind' = Files
    /\ Announce(<<Task("health", "process")>>) /\ UNCHANGED <<cursor, faults>>

(* reconcile(): fetch each stream, record its closed candles, relay its    *)
(* newest one. The session runs no frame meanwhile; they wait in the socket. *)
Uncaught == IF phase = "seed" THEN "boot" ELSE "session"

Fetch(s) ==
    /\ Idle({"seed", "resync"}) /\ s \in left
    /\ left' = left \ {s}
    /\ health' = IF NewestClosed(market[s]) = 0 THEN health
                 ELSE [health EXCEPT !.closed[s] = NewestClosed(market[s])]
    /\ Announce(<<Relay(s, market[s], Uncaught)>>)
    /\ UNCHANGED <<phase, first, candles, behind, cursor, faults>>

FinishReconcile ==
    /\ Idle({"seed", "resync"}) /\ left = {}
    /\ phase' = IF phase = "seed" THEN "offline" ELSE "stream"
    /\ Announce(<<Task("health", Uncaught)>>)
    /\ UNCHANGED <<first, left, health, candles, behind, cursor, faults>>

Connect ==
    /\ Idle({"offline"})
    /\ phase' = "subscribe" /\ cursor' = market
    /\ health' = [health EXCEPT !.connected = TRUE]
    /\ Announce(<<Task("health", "log")>>)
    /\ UNCHANGED <<first, left, candles, behind, faults>>

Subscribed ==
    /\ Idle({"subscribe"})
    /\ phase' = IF first THEN "stream" ELSE "resync"
    /\ first' = FALSE /\ left' = Streams
    /\ Announce(<<Task("health", "log")>>)
    /\ UNCHANGED <<health, candles, behind, cursor, faults>>

(* Mutant: a failure of the relay is not caught by the frame's handler.    *)
FrameTasksUncaught(s, v) == <<Task("health", "log"), Relay(s, v, "session")>>

(* process_message: the message is counted, relayed and, when it closes    *)
(* its bar, recorded; each time the files are published, failures caught.  *)
FrameTasks(s, v) ==
    <<Task("health", "log"), Relay(s, v, "log")>>
    \o (IF Closes(v) /\ health.closed[s] < v THEN <<Closing(s, v)>> ELSE <<>>)

Frame(s) ==
    /\ Idle({"subscribe", "stream"}) /\ cursor[s] < market[s]
    /\ cursor' = [cursor EXCEPT ![s] = @ + 1]
    /\ Announce(FrameTasks(s, cursor[s] + 1))
    /\ UNCHANGED <<engine, faults>>

(* The finally clause of a session.                                        *)
SessionEnds ==
    /\ Idle({"subscribe", "resync", "stream"}) /\ Disturbed
    /\ SessionOver
    /\ health' = [health EXCEPT !.connected = FALSE]
    /\ UNCHANGED <<first, left, candles, behind, cursor, tries, file, market, reading, unread, tab>>

(* A request of shutdown closes the session, once a reconcile() under way  *)
(* is over; then the finally clause of main.run publishes for the last     *)
(* time. A failed boot goes there at once.                                 *)
Stop ==
    /\ Idle({"offline", "subscribe", "stream"}) /\ Disturbed
    /\ phase' = "leaving"
    /\ health' = [health EXCEPT !.connected = FALSE]
    /\ Announce(<<Task("health", "log")>>)
    /\ UNCHANGED <<first, left, candles, behind, cursor>>

Leave ==
    /\ \/ Idle({"leaving"}) /\ UNCHANGED faults
       \/ Idle({"seed"}) /\ Disturbed
    /\ Farewell
    /\ health' = [health EXCEPT !.running = FALSE]
    /\ UNCHANGED <<first, left, candles, behind, cursor, tries, file, market, reading, unread, tab>>

Killed ==
    /\ ~Idle({"down", "left"}) /\ Disturbed
    /\ phase' = "down" /\ work' = <<>> /\ tries' = 0
    /\ UNCHANGED <<first, left, health, candles, behind, file, exchange, reading, unread, tab>>

Trade(s) ==
    /\ market[s] < LastVersion[s]
    /\ market' = [market EXCEPT ![s] = @ + 1]
    /\ UNCHANGED <<engine, work, tries, file, cursor, reading, unread, tab, faults>>

-----------------------------------------------------------------------------
(* The dashboard process. A read holds its file open for a while. One pass *)
(* of event_stream reads the live file, picks the candle of its market and *)
(* sends it when the payload is not the last one it sent.                  *)

Browse == UNCHANGED <<engine, work, tries, file, exchange>>

Payload(s) == [held |-> TRUE, version |-> file.live[s], new |-> unread /\ file.live[s] > 0]
(* Mutant: event_stream does not remember the payload it sent.             *)
NeverMarkSent == UNCHANGED unread
MarkSent == unread' = FALSE

OpenLive ==
    /\ tab.stream # "none" /\ ~reading.held
    /\ reading' = Payload(tab.stream)
    /\ MarkSent
    /\ Browse /\ UNCHANGED <<tab, faults>>

(* onmessage: the label is LIVE, the candle waits for the drawing timer.   *)
CloseLive ==
    /\ reading.held
    /\ tab' = IF ~reading.new THEN tab
              ELSE [tab EXCEPT !.pending = [stream |-> tab.stream, version |-> reading.version],
                               !.age = 0, !.status = "LIVE"]
    /\ reading' = NotReading
    /\ Browse /\ UNCHANGED <<unread, faults>>

-----------------------------------------------------------------------------
(* The tab. connectLiveChart opens an event stream for the selected        *)
(* market; disconnectLiveChart forgets the one before and its timer.       *)

(* Mutant: the payload last sent is remembered from one stream to the next. *)
OpenStreamRemembering ==
    /\ tab.stream = "none"
    /\ tab' = [tab EXCEPT !.stream = tab.selected, !.status = "CONNECTING"]
    /\ Browse /\ UNCHANGED <<reading, unread, faults>>
OpenStream ==
    /\ tab.stream = "none"
    /\ tab' = [tab EXCEPT !.stream = tab.selected, !.status = "CONNECTING"]
    /\ unread' = TRUE
    /\ Browse /\ UNCHANGED <<reading, faults>>

(* Mutant: changing the market keeps the candle that waits for its timer.  *)
DisconnectedKeepingTimer(t) == [t EXCEPT !.stream = "none", !.status = "CONNECTING"]
Disconnected(t) == [t EXCEPT !.stream = "none", !.pending = NoChart, !.status = "CONNECTING"]

(* The event stream breaks, or the dashboard restarts.                     *)
StreamBreaks ==
    /\ tab.stream # "none" /\ Disturbed
    /\ tab' = [tab EXCEPT !.stream = "none", !.status = "CONNECTING"]
    /\ reading' = NotReading
    /\ Browse /\ UNCHANGED unread

Select(s) ==
    /\ s # tab.selected /\ Disturbed
    /\ tab' = [Disconnected(tab) EXCEPT !.selected = s, !.shown = NoChart]
    /\ reading' = NotReading
    /\ Browse /\ UNCHANGED unread

Draw ==
    /\ tab.pending # NoChart
    /\ tab' = [tab EXCEPT !.shown = tab.pending, !.pending = NoChart]
    /\ Browse /\ UNCHANGED <<reading, unread, faults>>

(* A second without a message; the label is refreshed each second.         *)
Tick ==
    /\ tab.age \in 0..StaleAfter
    /\ tab' = [tab EXCEPT !.age = @ + 1]
    /\ Browse /\ UNCHANGED <<reading, unread, faults>>

Label == CASE tab.age > StaleAfter -> "STALE"
           [] tab.age <= StaleAfter -> tab.status

-----------------------------------------------------------------------------
Init ==
    /\ phase = "down" /\ first = TRUE /\ left = {}
    /\ health = [running |-> FALSE, connected |-> FALSE, closed |-> NoCandles]
    /\ candles = NoCandles /\ behind = Files
    /\ work = <<>> /\ tries = 0
    /\ file = [f \in Files |-> IF f = "live" THEN NoCandles ELSE health]
    /\ market = [s \in Streams |-> 1] /\ cursor = NoCandles
    /\ reading = NotReading /\ unread = FALSE
    /\ tab = [selected |-> FirstMarket, stream |-> "none", pending |-> NoChart,
              shown |-> NoChart, status |-> "CONNECTING", age |-> -1]
    /\ faults = 0

Publishing == Publish \/ TryAgain \/ GiveUp
Engine ==
    \/ Publishing \/ Boot \/ FinishReconcile \/ Connect \/ Subscribed
    \/ SessionEnds \/ Stop \/ Leave
    \/ \E s \in Streams : Fetch(s) \/ Frame(s)
Reader == OpenLive \/ CloseLive
Browser == OpenStream \/ StreamBreaks \/ Draw \/ Tick \/ \E s \in Streams : Select(s)
Next == Engine \/ Killed \/ Reader \/ Browser \/ \E s \in Streams : Trade(s)

Spec == Init /\ [][Next]_vars

(* A publication in progress goes on to its end, the event stream passes   *)
(* again and again, and the tab's connection and timers run. The engine    *)
(* owes nothing else.                                                      *)
Fairness ==
    /\ WF_vars(Publishing)
    /\ WF_vars(OpenLive) /\ WF_vars(CloseLive)
    /\ WF_vars(OpenStream) /\ WF_vars(Draw) /\ WF_vars(Tick)
LiveSpec == Spec /\ Fairness

-----------------------------------------------------------------------------
(* Whenever the engine is between publications, a file whose last          *)
(* publication went through holds exactly what the engine knows: no change *)
(* of the health or of the relay is left unpublished, not even by a lost   *)
(* session or a shutdown. (A reconcile() publishes its health at its end.) *)
FilesMatchTheEngine ==
    Idle({"offline", "subscribe", "stream", "leaving", "left"}) =>
        /\ "health" \notin behind => file.health = health
        /\ "live" \notin behind => file.live = candles

(* A drawing is a second late, and the user may change the market before   *)
(* it: the chart never shows a candle of another market than the selected. *)
ChartShowsItsMarket == tab.shown.stream \in {"none", tab.selected}

(* Publishing for the dashboard "must never affect the engine": once a     *)
(* frame is being relayed, its handler ends with the session still there,  *)
(* however long readers keep the file open, unless the process is killed.  *)
ReadersNeverStopTheFeed ==
    (phase = "stream" /\ work # <<>> /\ Head(work).file = "live")
        ~> (phase = "stream" /\ work = <<>>) \/ phase = "down"

(* Over a dead engine, stopped or killed half way, with its last candles   *)
(* still in the file, a chart does not stay LIVE, whatever reconnects.     *)
DeadEngineIsNotLive ==
    <>[](phase \in {"down", "left"} /\ work = <<>>) => <>[](Label # "LIVE")

(* A candle that stays the newest one in the relay file of a market is     *)
(* drawn by a tab that stays on this market, through broken event streams  *)
(* and markets visited in between.                                         *)
NewestIsDrawn ==
    \A s \in Streams : \A v \in 1..LastVersion[s] :
        <>[](tab.selected = s /\ file.live[s] = v)
            => <>[](tab.shown = [stream |-> s, version |-> v])

=============================================================================
