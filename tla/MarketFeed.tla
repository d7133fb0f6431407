----------------------------- MODULE MarketFeed -----------------------------
(***************************************************************************)
(* The live market-data path of the engine: main.run, its REST             *)
(* reconciliation, the WebSocket client, the in-memory candle store and    *)
(* the candle-closed events that drive the strategy.                       *)
(*                                                                         *)
(* The engine is one asyncio program.  main awaits the initial REST        *)
(* reconciliation, then starts the task of BinanceWebSocketClient.run and  *)
(* waits for a shutdown signal.  An action is the code between two awaits  *)
(* of the engine, or one step of the exchange, which is external: it keeps *)
(* one forming candle per stream, serves the subscription requests in      *)
(* order, and sends kline frames over a FIFO connection.                   *)
(*                                                                         *)
(* Candles of a stream are numbered by open time.  Of the OHLCV values     *)
(* only finality is kept: see IsClosed.                                    *)
(***************************************************************************)
EXTENDS Integers, Sequences, Functions

CONSTANTS
    Symbols,          \* sequence of the enabled symbols, in configured order
    Timeframes,       \* sequence of the configured timeframes
    HistoryLimit,     \* settings.historical_candle_limit
    MaxDelayAttempt,  \* the attempt whose delay reaches max_reconnect_delay
    FaultKinds,       \* the failures that may happen
    MaxCandle,        \* bound: candles per stream
    WireBound,        \* bound: frames in flight
    FaultBound        \* bound: failures in a behaviour

AllFaults == {"symbol", "connect", "drop", "reject", "partial", "silence",
              "duplicate", "rest", "rest_payload", "value_error", "handler_error",
              "database"}

ASSUME BoundsAssumption ==
    /\ HistoryLimit \in Nat \ {0}
    /\ MaxDelayAttempt \in Nat
    /\ MaxCandle \in Nat \ {0}
    /\ WireBound \in Nat \ {0}
    /\ FaultBound \in Nat

ASSUME FaultsAssumption == FaultKinds \subseteq AllFaults

ASSUME ConfigurationAssumption ==
    /\ Symbols \in Seq(Range(Symbols))
    /\ Timeframes \in Seq(Range(Timeframes))

VARIABLES
    forming,    \* exchange: the candle each stream is forming now
    link,       \* exchange: is the connection of the current session open
    request,    \* exchange: the control request it has not answered yet
    delivering, \* exchange: the streams it sends on this connection
    wire,       \* frames sent and not yet received, oldest first
    main,       \* where main.run stands
    phase,      \* where BinanceWebSocketClient.run stands
    stopping,   \* the client's _stop event
    first,      \* first_connection
    attempt,    \* ReconnectBackoff.attempt, saturated at MaxDelayAttempt
    streams,    \* valid_symbols x timeframes, in reconciliation order
    todo,       \* the streams the running reconcile() has still to fetch
    rows,       \* newest candle of the REST response in flight, or NoRows
    store,      \* CandleStore: the version held of every candle
    evaluated,  \* history: the candles published as closed, in order
    resynced,   \* history: this session was reconciled after subscribing
    health,     \* the HealthStatus record
    faults      \* failures so far

connVars == <<link, request, delivering, wire>>
restVars == <<todo, rows>>
marketVars == <<store, evaluated>>
engineVars == <<main, phase, stopping, first, attempt, streams, restVars, marketVars,
                resynced, health>>
vars == <<forming, connVars, engineVars, faults>>

Streams == Range(Symbols) \X Range(Timeframes)
Index == 1..MaxCandle

\* The version of a candle.  REST and the WebSocket agree on a candle the
\* exchange had closed when it answered ("final"); a row captured while the
\* candle was forming is "partial" when it is parsed after its close time.
\* Otherwise a candle is "absent" or "forming".
IsClosed(version) == version \in {"partial", "final"}

NoRows == 0

\* A frame is an answer [kind |-> "ack" or "reject"], a list of streams
\* [kind |-> "list", active], or a kline [kind |-> "kline", stream, open, closed].

-----------------------------------------------------------------------------
(* Helpers *)

\* A failure of this kind may still happen, and is counted.
Fault(kind) ==
    /\ kind \in FaultKinds
    /\ faults < FaultBound
    /\ faults' = faults + 1

\* for symbol in valid_symbols: for timeframe in settings.timeframes
StreamsOf(valid) ==
    LET n == Len(Timeframes)
    IN  [k \in 1..(Len(valid) * n) |->
            <<valid[((k - 1) \div n) + 1], Timeframes[((k - 1) % n) + 1]>>]

\* ReconnectBackoff.next_delay: past the cap a longer count changes nothing.
NextAttempt == IF attempt < MaxDelayAttempt THEN attempt + 1 ELSE attempt

\* Mutant of AddCandle: a candle that is already stored is kept.
AddCandleOnce(s, i, version) ==
    [store EXCEPT ![s][i] = IF @ = "absent" THEN version ELSE @]

\* CandleStore.add_candle: the newer observation replaces the older one.
AddCandle(s, i, version) == [store EXCEPT ![s][i] = version]

\* The rows of one REST response whose newest candle is n, as they are parsed:
\* candle_from_rest_row calls a row closed when its close time has passed.
RowVersion(s, n, i) ==
    IF i < n THEN "final" ELSE IF i < forming[s] THEN "partial" ELSE "forming"
RowsFrom(n) == {i \in Index : n - HistoryLimit < i /\ i <= n}

\* The close of the last closed row, or the recorded one when no row is closed.
LastClosedRow(s, n) ==
    IF n < forming[s] THEN n
    ELSE IF n - 1 \in RowsFrom(n) THEN n - 1 ELSE health.last_closed[s]

NoSession == /\ link' = FALSE
             /\ request' = "none"
             /\ delivering' = {}
             /\ wire' = <<>>

\* Mutant of ClosedDown: subscription_acknowledged survives the session.
KeepsAcknowledged(h) == [h EXCEPT !.connected = FALSE, !.active = {}]

\* The finally block of one session in run(): whatever ended it, the health
\* flags are cleared and the connection is forgotten.
ClosedDown(h) == [h EXCEPT !.connected = FALSE, !.acknowledged = FALSE, !.active = {}]

\* A session that ended normally or with an exception run() catches.  `failed`
\* is whether an exception ended it, which is recorded only while not stopping.
EndSession(h, failed) ==
    /\ NoSession
    /\ health' = [ClosedDown(h) EXCEPT !.failed = @ \/ (failed /\ ~stopping)]
    /\ resynced' = FALSE
    /\ IF stopping THEN phase' = "stopped" /\ attempt' = attempt
                   ELSE phase' = "backoff" /\ attempt' = NextAttempt

\* An exception that the except clause of run() does not name: the finally
\* block runs and the task ends.
TaskDies(h) ==
    /\ NoSession
    /\ health' = ClosedDown(h)
    /\ resynced' = FALSE
    /\ phase' = "dead"
    /\ attempt' = attempt

Init ==
    /\ forming = [s \in Streams |-> 1]
    /\ link = FALSE
    /\ request = "none"
    /\ delivering = {}
    /\ wire = <<>>
    /\ main = "validating"
    /\ phase = "idle"
    /\ stopping = FALSE
    /\ first = TRUE
    /\ attempt = 0
    /\ streams = <<>>
    /\ todo = <<>>
    /\ rows = NoRows
    /\ store = [s \in Streams |-> [i \in Index |-> "absent"]]
    /\ evaluated = [s \in Streams |-> <<>>]
    /\ resynced = FALSE
    /\ health = [running |-> TRUE, connected |-> FALSE, acknowledged |-> FALSE,
                 active |-> {}, failed |-> FALSE,
                 last_closed |-> [s \in Streams |-> NoRows]]
    /\ faults = 0

-----------------------------------------------------------------------------
(* The exchange *)

Kline(s, i, closed) == [kind |-> "kline", stream |-> s, open |-> i, closed |-> closed]

\* Binance pushes a frame for a stream the session is subscribed to.
Push(frame) ==
    IF link /\ frame.stream \in delivering
    THEN Len(wire) < WireBound /\ wire' = Append(wire, frame)
    ELSE wire' = wire

\* The interval of the forming candle ends and the next one begins.
CandleCloses(s) ==
    /\ forming[s] < MaxCandle
    /\ forming' = [forming EXCEPT ![s] = @ + 1]
    /\ Push(Kline(s, forming[s], TRUE))
    /\ UNCHANGED <<link, request, delivering, engineVars, faults>>

\* An intrabar update of the forming candle.
FormingTick(s) ==
    /\ link /\ s \in delivering
    /\ Push(Kline(s, forming[s], FALSE))
    /\ UNCHANGED <<forming, link, request, delivering, engineVars, faults>>

\* The closing frame of the last closed candle is sent again.
DuplicateClose(s) ==
    /\ Fault("duplicate")
    /\ link /\ s \in delivering
    /\ forming[s] > 1
    /\ Push(Kline(s, forming[s] - 1, TRUE))
    /\ UNCHANGED <<forming, link, request, delivering, engineVars>>

\* SUBSCRIBE: accepted, refused, or acknowledged for some of the streams only.
ServeSubscribe ==
    /\ link /\ request = "SUBSCRIBE"
    /\ request' = "none"
    /\ \/ /\ delivering' = Range(streams)
          /\ wire' = Append(wire, [kind |-> "ack"])
          /\ faults' = faults
       \/ /\ Fault("reject")
          /\ delivering' = {}
          /\ wire' = Append(wire, [kind |-> "reject"])
       \/ /\ Fault("partial")
          /\ delivering' \in SUBSET Range(streams) \ {Range(streams)}
          /\ wire' = Append(wire, [kind |-> "ack"])
    /\ UNCHANGED <<forming, link, engineVars>>

\* LIST_SUBSCRIPTIONS: the streams this connection delivers.
ServeList ==
    /\ link /\ request = "LIST_SUBSCRIPTIONS"
    /\ request' = "none"
    /\ wire' = Append(wire, [kind |-> "list", active |-> delivering])
    /\ UNCHANGED <<forming, link, delivering, engineVars, faults>>

\* The connection breaks; what was still in the network is lost.
Drop ==
    /\ Fault("drop")
    /\ link
    /\ link' = FALSE
    /\ request' = "none"
    /\ delivering' = {}
    /\ \E n \in 0..Len(wire) : wire' = SubSeq(wire, 1, n)
    /\ UNCHANGED <<forming, engineVars>>

Exchange == \/ \E s \in Streams : CandleCloses(s) \/ FormingTick(s) \/ DuplicateClose(s)
            \/ ServeSubscribe \/ ServeList \/ Drop

-----------------------------------------------------------------------------
(* REST reconciliation: main.run's reconcile(), awaited by main at boot and *)
(* by the WebSocket task after a reconnect.                                 *)

Reconciling == main = "booting" \/ phase = "reconciling"

\* validate_enabled_symbols, then the initial reconcile() begins.  A symbol whose
\* validation fails is skipped.  With no stream left run() returns at once.
ValidateSymbols ==
    /\ main = "validating"
    /\ \/ /\ streams' = StreamsOf(Symbols)
          /\ faults' = faults
       \/ /\ Fault("symbol")
          /\ \E n \in 0..(Len(Symbols) - 1) : \E pick \in [1..n -> 1..Len(Symbols)] :
                /\ \A j, k \in 1..n : j < k => pick[j] < pick[k]
                /\ streams' = StreamsOf([k \in 1..n |-> Symbols[pick[k]]])
    /\ todo' = streams'
    /\ IF streams' = <<>> THEN main' = "waiting" /\ phase' = "stopped"
                          ELSE main' = "booting" /\ phase' = phase
    /\ UNCHANGED <<forming, connVars, stopping, first, attempt, rows, marketVars,
                   resynced, health>>

\* The exchange answers fetch_candles for the next stream.
FetchRows ==
    /\ Reconciling /\ todo # <<>> /\ rows = NoRows
    /\ rows' = forming[Head(todo)]
    /\ UNCHANGED <<forming, connVars, main, phase, stopping, first, attempt, streams,
                   todo, marketVars, resynced, health, faults>>

\* The rows of the stream up to candle `last`, parsed and added to the store.
AddRows(s, last) ==
    store' = [store EXCEPT ![s] =
                 [i \in Index |-> IF i \in RowsFrom(rows) /\ i <= last
                                  THEN RowVersion(s, rows, i) ELSE @[i]]]

\* The response is parsed and every row is added.  After the last stream the
\* caller goes on: main starts the WebSocket task, or the session receives.
ApplyRows ==
    /\ Reconciling /\ rows # NoRows
    /\ LET s == Head(todo)
       IN  /\ AddRows(s, rows)
           /\ health' = [health EXCEPT !.last_closed[s] = LastClosedRow(s, rows)]
    /\ rows' = NoRows
    /\ todo' = Tail(todo)
    /\ IF Tail(todo) # <<>>
       THEN UNCHANGED <<main, phase, attempt, resynced>>
       ELSE IF main = "booting"
            THEN /\ main' = "waiting"
                 /\ phase' = "connecting"
                 /\ UNCHANGED <<attempt, resynced>>
            ELSE /\ phase' = "receiving"
                 /\ attempt' = 0
                 /\ resynced' = TRUE
                 /\ UNCHANGED main
    /\ UNCHANGED <<forming, connVars, stopping, first, streams, evaluated, faults>>

\* reconcile() raises: at boot the engine exits through main's finally block;
\* in the WebSocket task only some exceptions are caught.
ReconcileRaises(caught) ==
    /\ todo' = <<>>
    /\ rows' = NoRows
    /\ IF main = "booting"
       THEN /\ main' = "exited"
            /\ health' = [health EXCEPT !.running = FALSE]
            /\ UNCHANGED <<connVars, phase, attempt, resynced>>
       ELSE /\ IF caught THEN EndSession(health, TRUE) ELSE TaskDies(health)
            /\ main' = main
    /\ UNCHANGED <<forming, stopping, first, streams, evaluated>>

\* fetch_candles turns a transport failure into RuntimeError.
FetchFails ==
    /\ Reconciling /\ todo # <<>>
    /\ Fault("rest")
    /\ ReconcileRaises(FALSE)
    /\ UNCHANGED store

\* The response does not parse: a ValueError.
PayloadInvalid ==
    /\ Reconciling /\ rows # NoRows
    /\ Fault("rest_payload")
    /\ ReconcileRaises(TRUE)
    /\ UNCHANGED store

\* CandleRepository.upsert raises after add_candle changed the memory copy.
UpsertRowFails ==
    /\ Reconciling /\ rows # NoRows
    /\ Fault("database")
    /\ \E last \in RowsFrom(rows) : AddRows(Head(todo), last)
    /\ ReconcileRaises(FALSE)

Rest == ValidateSymbols \/ FetchRows \/ ApplyRows \/ FetchFails \/ PayloadInvalid
        \/ UpsertRowFails

-----------------------------------------------------------------------------
(* The WebSocket task *)

sessionFrame == <<forming, main, stopping, first, streams, restVars>>

Awaiting == phase \in {"awaiting_ack", "awaiting_list"}
Arrived(kind) == wire # <<>> /\ Head(wire).kind = kind
\* Mutant of Verified: the LIST_SUBSCRIPTIONS reply is read but not compared.
VerifiedLoosely(active) == active \subseteq Range(streams)
Verified(active) == active = Range(streams)

\* ws_connect succeeds and _subscribe sends SUBSCRIBE.  _stop is not looked at.
Connect ==
    /\ phase = "connecting"
    /\ phase' = "awaiting_ack"
    /\ link' = TRUE
    /\ request' = "SUBSCRIBE"
    /\ delivering' = {}
    /\ wire' = <<>>
    /\ health' = [health EXCEPT !.connected = TRUE]
    /\ UNCHANGED <<sessionFrame, attempt, marketVars, resynced, faults>>

\* The acknowledgement: LIST_SUBSCRIPTIONS is sent to verify it.
ReceiveAck ==
    /\ phase = "awaiting_ack" /\ Arrived("ack")
    /\ wire' = Tail(wire)
    /\ phase' = "awaiting_list"
    /\ request' = IF link THEN "LIST_SUBSCRIPTIONS" ELSE "none"
    /\ UNCHANGED <<sessionFrame, link, delivering, attempt, marketVars, resynced, health,
                   faults>>

\* The active subscriptions match the request: the first session receives at
\* once, a later one reconciles first.
ReceiveList ==
    /\ phase = "awaiting_list" /\ Arrived("list")
    /\ Verified(Head(wire).active)
    /\ wire' = Tail(wire)
    /\ health' = [health EXCEPT !.acknowledged = TRUE, !.active = Head(wire).active]
    /\ first' = FALSE
    /\ IF first
       THEN phase' = "receiving" /\ attempt' = 0 /\ todo' = todo
       ELSE phase' = "reconciling" /\ attempt' = attempt /\ todo' = streams
    /\ UNCHANGED <<forming, link, request, delivering, main, stopping, streams, rows,
                   marketVars, resynced, faults>>

\* The exceptions a session meets that run() catches: ws_connect fails, a
\* control reply is a refusal, does not match, does not come or the connection
\* closes instead, and nothing is received for receive_timeout_seconds.
SessionFault ==
    \/ phase = "connecting" /\ Fault("connect")
    \/ Awaiting /\ link /\ wire = <<>> /\ ~stopping /\ Fault("silence")
SessionError ==
    \/ phase = "awaiting_ack" /\ Arrived("reject")
    \/ phase = "awaiting_list" /\ Arrived("list") /\ ~Verified(Head(wire).active)
    \/ Awaiting /\ wire = <<>> /\ (link => stopping)
    \/ phase = "receiving" /\ link /\ wire = <<>>

SessionFails ==
    /\ SessionFault \/ (SessionError /\ faults' = faults)
    /\ EndSession(health, TRUE)
    /\ UNCHANGED <<sessionFrame, marketVars>>

\* The receive loop ends normally: the connection closed and everything received
\* before was handled, or a message arrived while stopping.
SessionEnds ==
    /\ phase = "receiving"
    /\ (~link /\ wire = <<>>) \/ (stopping /\ wire # <<>>)
    /\ EndSession(health, FALSE)
    /\ UNCHANGED <<sessionFrame, marketVars, faults>>

\* Mutant of Publishes: the version held before is not looked at.
PublishesEveryClose(frame) == frame.closed
\* Is the candle of this frame published: closed, and not closed in the store.
Publishes(frame) ==
    frame.closed /\ ~IsClosed(store[frame.stream][frame.open])

AddFrame(frame) ==
    AddCandle(frame.stream, frame.open, IF frame.closed THEN "final" ELSE "forming")
Published(frame) == [evaluated EXCEPT ![frame.stream] = Append(@, frame.open)]
Recorded(frame) == [health EXCEPT !.last_closed[frame.stream] = frame.open]

\* A kline frame reaches process_message: in the receive loop, unless the
\* client is stopping, and while a control reply is awaited.
KlineArrives ==
    /\ Arrived("kline")
    /\ Awaiting \/ (phase = "receiving" /\ ~stopping)

\* process_message: the candle is stored; a newly closed one is recorded and
\* published, and the strategy handles it before the next frame is received.
ProcessMessage ==
    /\ KlineArrives
    /\ wire' = Tail(wire)
    /\ LET frame == Head(wire)
       IN  /\ store' = AddFrame(frame)
           /\ IF Publishes(frame)
              THEN evaluated' = Published(frame) /\ health' = Recorded(frame)
              ELSE UNCHANGED <<evaluated, health>>
    /\ UNCHANGED <<sessionFrame, link, request, delivering, phase, attempt, resynced,
                   faults>>

\* The strategy, or the handler it awaits, raises out of publish_candle_closed.
\* A ValueError ends the session; any other exception ends the task.
StrategyRaises ==
    /\ KlineArrives
    /\ LET frame == Head(wire)
       IN  /\ Publishes(frame)
           /\ store' = AddFrame(frame)
           /\ evaluated' = Published(frame)
           /\ \/ Fault("value_error") /\ EndSession(Recorded(frame), TRUE)
              \/ Fault("handler_error") /\ TaskDies(Recorded(frame))
    /\ UNCHANGED sessionFrame

\* CandleRepository.upsert raises: the memory copy is changed, nothing is
\* published and the task ends.
UpsertFails ==
    /\ KlineArrives
    /\ Fault("database")
    /\ store' = AddFrame(Head(wire))
    /\ store' # store
    /\ TaskDies(health)
    /\ UNCHANGED <<sessionFrame, evaluated>>

\* Mutant of BackoffEnds: the client gives up once the delay has reached its cap.
BackoffGivesUp ==
    /\ phase = "backoff"
    /\ phase' = IF stopping \/ attempt = MaxDelayAttempt THEN "stopped" ELSE "connecting"
    /\ UNCHANGED <<sessionFrame, connVars, attempt, marketVars, resynced, health, faults>>

\* The delay elapses, or _stop is set; the loop condition is evaluated.
BackoffEnds ==
    /\ phase = "backoff"
    /\ phase' = IF stopping THEN "stopped" ELSE "connecting"
    /\ UNCHANGED <<sessionFrame, connVars, attempt, marketVars, resynced, health, faults>>

Session == \/ Connect \/ ReceiveAck \/ ReceiveList \/ SessionFails \/ SessionEnds
           \/ ProcessMessage \/ StrategyRaises \/ UpsertFails \/ BackoffEnds

-----------------------------------------------------------------------------
(* main.run *)

\* Mutant of RequestShutdown: the connection is closed but _stop is not set.
ShutdownWithoutStop ==
    /\ main = "waiting"
    /\ main' = "joining"
    /\ NoSession
    /\ UNCHANGED <<forming, phase, stopping, first, attempt, streams, restVars, marketVars,
                   resynced, health, faults>>

\* SIGINT or SIGTERM: main wakes and calls websocket.stop(), which closes the
\* connection if there is one, and drops what it had not received.
RequestShutdown ==
    /\ main = "waiting"
    /\ main' = "joining"
    /\ stopping' = TRUE
    /\ IF phase \in {"awaiting_ack", "awaiting_list", "reconciling", "receiving"}
       THEN NoSession
       ELSE UNCHANGED connVars
    /\ UNCHANGED <<forming, phase, first, attempt, streams, restVars, marketVars,
                   resynced, health, faults>>

\* Mutant of MainExits: main does not await the task.
MainExitsAtOnce ==
    /\ main = "joining"
    /\ main' = "exited"
    /\ health' = [health EXCEPT !.running = FALSE]
    /\ UNCHANGED <<forming, connVars, phase, stopping, first, attempt, streams, restVars,
                   marketVars, resynced, faults>>

\* await runner returns or raises, and the finally block closes the database.
MainExits ==
    /\ main = "joining"
    /\ phase \in {"stopped", "dead"}
    /\ main' = "exited"
    /\ health' = [health EXCEPT !.running = FALSE]
    /\ UNCHANGED <<forming, connVars, phase, stopping, first, attempt, streams, restVars,
                   marketVars, resynced, faults>>

Terminated == main = "exited" /\ UNCHANGED vars

Next == Exchange \/ Rest \/ Session \/ RequestShutdown \/ MainExits \/ Terminated

Spec == Init /\ [][Next]_vars

\* What the engine's event loop, the exchange's control replies and the
\* timeouts guarantee: every enabled step of the engine is taken in the end.
Fairness ==
    /\ WF_vars(ServeSubscribe) /\ WF_vars(ServeList)
    /\ WF_vars(ValidateSymbols) /\ WF_vars(FetchRows) /\ WF_vars(ApplyRows)
    /\ WF_vars(Connect) /\ WF_vars(BackoffEnds)
    /\ WF_vars(ReceiveAck \/ ReceiveList \/ ProcessMessage)
    /\ WF_vars(SessionEnds) /\ WF_vars(SessionError /\ SessionFails)
    /\ WF_vars(MainExits)

LiveSpec == Spec /\ Fairness

-----------------------------------------------------------------------------
(* Properties *)

\* The candles a reconciliation can still reach: closed by the exchange and
\* among the newest HistoryLimit.
Recent(s) == {i \in Index : forming[s] - HistoryLimit < i /\ i < forming[s]}

\* The closing frame of candle i is on its way.
InFlight(s, i) == \E k \in 1..Len(wire) : wire[k] = Kline(s, i, TRUE)

GapFree ==
    \A s \in Range(streams) : \A i \in Recent(s) : IsClosed(store[s][i]) \/ InFlight(s, i)

\* A session that was reconciled after its subscription was verified never
\* loses a candle: whatever closes before, during or after the REST requests is
\* held closed or is still to be received.  (run: subscribe, then reconcile.)
ReconciledSessionHasNoGap == phase = "receiving" /\ link /\ resynced => GapFree

\* The strategy is given the closed candles of a stream in order of open time
\* and each at most once, whatever is sent twice, reconciled or reopened.
EvaluatedOnceInOrder ==
    \A s \in Streams : \A j, k \in 1..Len(evaluated[s]) :
        j < k => evaluated[s][j] < evaluated[s][k]

\* What the strategy was given as closed stays in the store as it was given:
\* no late frame or REST row puts an unfinished version back.
EvaluatedStaysFinal ==
    \A s \in Streams : \A k \in 1..Len(evaluated[s]) :
        store[s][evaluated[s][k]] = "final"

\* While the client reports an acknowledged subscription and the connection is
\* up, the exchange delivers every stream it reports.
AcknowledgedMeansDelivering ==
    health.acknowledged /\ link => delivering = Range(streams) /\ health.active = delivering

\* The database is closed only when the WebSocket task can no longer use it.
DatabaseOutlivesTask == main = "exited" => phase \in {"idle", "stopped", "dead"}

\* Once the strategy has seen a candle of a stream it sees the following ones:
\* of two evaluated candles, those in between were evaluated too.
NoEvaluationSkipped ==
    \A s \in Streams : \A k \in 1..Len(evaluated[s]) - 1 :
        evaluated[s][k + 1] <= evaluated[s][k] + 1

\* A requested shutdown completes, wherever the signal finds the client.
ShutdownCompletes == main = "joining" ~> main = "exited"

\* A lost session is followed by a receiving one, unless the engine is stopped
\* or an exception run() does not catch has ended the task.
ReconnectsUnlessTaskEnded ==
    (main = "waiting" /\ health.failed)
        ~> (phase \in {"receiving", "dead"} \/ main # "waiting")
=============================================================================
