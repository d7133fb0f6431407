------------------------- MODULE MarketFeed_proofs -------------------------
(***************************************************************************)
(* Theorems about MarketFeed, for any symbols, timeframes, history limit   *)
(* and bounds, and any of the failures: the strategy is given candles in   *)
(* order and once, what it was given stays final, an acknowledged session  *)
(* delivers what it reports, a session that was reconciled has no gap, and *)
(* the database is closed last.                                            *)
(***************************************************************************)
EXTENDS MarketFeed, SequenceTheorems, TLAPS

Versions == {"absent", "forming", "partial", "final"}
Frame == [kind : {"ack", "reject"}] \cup [kind : {"list"}, active : SUBSET Streams]
         \cup [kind : {"kline"}, stream : Streams, open : Index, closed : BOOLEAN]
Health == [running : BOOLEAN, connected : BOOLEAN, acknowledged : BOOLEAN,
           active : SUBSET Streams, failed : BOOLEAN, last_closed : [Streams -> 0..MaxCandle]]

Typed ==
    /\ forming \in [Streams -> Index]
    /\ delivering \subseteq Streams /\ wire \in Seq(Frame)
    /\ stopping \in BOOLEAN /\ link \in BOOLEAN /\ resynced \in BOOLEAN
    /\ streams \in Seq(Streams) /\ todo \in Seq(Streams) /\ rows \in 0..MaxCandle
    /\ health \in Health

-----------------------------------------------------------------------------
(* main, the task and the connection *)

InSession == {"awaiting_ack", "awaiting_list", "reconciling", "receiving"}
TaskPhases == InSession \cup {"idle", "connecting", "backoff", "stopped", "dead"}

\* The task has not begun before main waits, and is over when main has exited.
MainAndTask ==
    /\ main \in {"validating", "booting", "waiting", "joining", "exited"}
    /\ phase \in TaskPhases
    /\ main \in {"validating", "booting"} => phase = "idle"
    /\ DatabaseOutlivesTask

\* A connection belongs to a session.  Until SUBSCRIBE is served it delivers
\* nothing; a list of streams that comes over it is true.
Connection ==
    /\ link => phase \in InSession
    /\ ~link => request = "none" /\ delivering = {}
    /\ request = "SUBSCRIBE" => phase = "awaiting_ack" /\ delivering = {} /\ wire = <<>>
    /\ link => \A k \in 1..Len(wire) : wire[k].kind = "list" => wire[k].active = delivering

\* The subscription is acknowledged exactly after it was verified.
Acknowledgement ==
    /\ health.acknowledged <=> phase \in {"reconciling", "receiving"}
    /\ resynced => phase = "receiving"
    /\ AcknowledgedMeansDelivering

\* REST rows are in flight for the first of the streams to reconcile; they show
\* the candle that was forming then, and nothing is evaluated meanwhile.
RowsInFlight ==
    /\ Range(todo) \subseteq Range(streams)
    /\ rows # NoRows =>
          /\ Reconciling /\ todo # <<>> /\ rows <= forming[Head(todo)]
          /\ \A m \in 1..Len(evaluated[Head(todo)]) : evaluated[Head(todo)][m] < rows

-----------------------------------------------------------------------------
(* Frames in flight *)

IsKline(f) == f.kind = "kline"

\* A frame tells of a candle that is forming or, when it closes one, has closed.
FrameOfPast(f, fo) == f.open <= fo[f.stream] /\ (f.closed => f.open < fo[f.stream])

\* Frame f was sent before frame g: no candle is closed and then seen forming,
\* and candles close in order.
SentBefore(f, g) ==
    f.stream = g.stream /\ f.closed => f.open <= g.open /\ (~g.closed => f.open < g.open)

\* A frame does not go back behind what was evaluated.
NotBehind(f, ev) ==
    \A m \in 1..Len(ev[f.stream]) :
        ev[f.stream][m] <= f.open /\ (~f.closed => ev[f.stream][m] < f.open)

\* An intrabar frame of a candle that has closed is followed by the closing one.
CloseFollows(w, k, fo) ==
    ~w[k].closed /\ w[k].open < fo[w[k].stream] =>
        \E m \in (k + 1)..Len(w) : w[m] = Kline(w[k].stream, w[k].open, TRUE)

\* What holds of the frames w while fo are forming and ev were evaluated; over an
\* open connection they are of the streams dl.
FramesIn(w, fo, ev, dl, open) ==
    \A k \in 1..Len(w) : IsKline(w[k]) =>
        /\ FrameOfPast(w[k], fo) /\ NotBehind(w[k], ev)
        /\ open => w[k].stream \in dl /\ CloseFollows(w, k, fo)
        /\ \A m \in (k + 1)..Len(w) : IsKline(w[m]) => SentBefore(w[k], w[m])

Frames == FramesIn(wire, forming, evaluated, delivering, link)

\* Only closed candles were evaluated.
EvaluatedHaveClosed ==
    \A s \in Streams : \A m \in 1..Len(evaluated[s]) : evaluated[s][m] < forming[s]

-----------------------------------------------------------------------------
(* Reconciled streams *)

Held(s, i) == IsClosed(store[s][i]) \/ InFlight(s, i)

\* The streams this session has reconciled.
Reconciled ==
    IF phase = "reconciling" THEN Range(streams) \ Range(todo)
    ELSE IF phase = "receiving" /\ resynced THEN Range(streams) ELSE {}

\* No candle of a reconciled stream is missing, and none of those that closed
\* while the rows of a stream are in flight.
NothingMissed ==
    link =>
        /\ \A s \in Reconciled : \A i \in Recent(s) : Held(s, i)
        /\ phase = "reconciling" /\ rows # NoRows =>
              \A i \in Index : rows <= i /\ i < forming[Head(todo)] => InFlight(Head(todo), i)

\* What the strategy was given.
Evaluation ==
    /\ store \in [Streams -> [Index -> Versions]] /\ evaluated \in [Streams -> Seq(Index)]
    /\ EvaluatedHaveClosed /\ EvaluatedStaysFinal /\ EvaluatedOnceInOrder

FeedInv ==
    /\ Typed /\ MainAndTask /\ Connection /\ Acknowledgement /\ RowsInFlight
    /\ Frames /\ Evaluation /\ NothingMissed

-----------------------------------------------------------------------------
(* Lemmas about the operators *)

\* The k-th stream is a symbol with a timeframe.
LEMMA StreamsAreStreams ==
    ASSUME NEW valid \in Seq(Range(Symbols))
    PROVE  StreamsOf(valid) \in Seq(Streams)
  <1> DEFINE n == Len(Timeframes)
             m == Len(valid)
  <1>1. n \in Nat /\ m \in Nat /\ m * n \in Nat
    BY ConfigurationAssumption, LenProperties
  <1>2. ASSUME NEW k \in 1..(m * n)
        PROVE  ((k - 1) \div n) + 1 \in 1..m /\ ((k - 1) % n) + 1 \in 1..n
    <2>1. n > 0
      BY <1>1, <1>2
    <2> DEFINE q == (k - 1) \div n
               r == (k - 1) % n
    <2>2. q \in Int /\ r \in 0..(n - 1) /\ k - 1 = n * q + r
      BY <1>1, <2>1
    <2>3. q >= 0 /\ q < m
      BY <1>1, <2>1, <2>2
    <2> QED BY <1>1, <2>1, <2>2, <2>3
  <1>3. \A k \in 1..(m * n) :
           <<valid[((k - 1) \div n) + 1], Timeframes[((k - 1) % n) + 1]>> \in Streams
    BY <1>2, ConfigurationAssumption, ElementOfSeq DEF Streams
  <1> QED BY <1>1, <1>3 DEF StreamsOf

LEMMA FrameFields ==
    ASSUME NEW f \in Frame
    PROVE  /\ IsKline(f) => f.stream \in Streams /\ f.open \in Index /\ f.closed \in BOOLEAN
           /\ f.kind = "list" => f.active \subseteq Streams
  BY DEF Frame, IsKline

LEMMA KlineIsAFrame ==
    ASSUME NEW s \in Streams, NEW i \in Index, NEW c \in BOOLEAN
    PROVE  /\ Kline(s, i, c) \in Frame /\ IsKline(Kline(s, i, c))
           /\ Kline(s, i, c).stream = s /\ Kline(s, i, c).open = i /\ Kline(s, i, c).closed = c
           /\ Kline(s, i, c).kind # "list"
  BY DEF Kline, Frame, IsKline

\* Nothing is in flight on a closed session.
LEMMA NoFrames == ASSUME NEW fo, NEW ev, NEW dl, NEW open PROVE FramesIn(<<>>, fo, ev, dl, open)
  BY EmptySeq DEF FramesIn

\* The first frame is received.
LEMMA FramesTail ==
    ASSUME NEW w \in Seq(Frame), w # <<>>, NEW fo, NEW ev, NEW dl, NEW open,
           FramesIn(w, fo, ev, dl, open)
    PROVE  FramesIn(Tail(w), fo, ev, dl, open)
  <1> DEFINE t == Tail(w)
  <1>1. /\ Len(w) \in Nat /\ Len(t) = Len(w) - 1
        /\ \A k \in 1..Len(t) : t[k] = w[k + 1] /\ k + 1 \in 1..Len(w)
    BY HeadTailProperties, LenProperties
  <1>2. ASSUME NEW k \in 1..Len(t), IsKline(t[k])
        PROVE  /\ FrameOfPast(t[k], fo) /\ NotBehind(t[k], ev)
               /\ open => t[k].stream \in dl /\ CloseFollows(t, k, fo)
               /\ \A m \in (k + 1)..Len(t) : IsKline(t[m]) => SentBefore(t[k], t[m])
    <2> DEFINE h == k + 1
    <2>1. h \in 1..Len(w) /\ t[k] = w[h] /\ IsKline(w[h])
      BY <1>1, <1>2
    <2>2. /\ FrameOfPast(w[h], fo) /\ NotBehind(w[h], ev)
          /\ open => w[h].stream \in dl /\ CloseFollows(w, h, fo)
          /\ \A m \in (h + 1)..Len(w) : IsKline(w[m]) => SentBefore(w[h], w[m])
      BY <2>1 DEF FramesIn
    <2>3. \A m \in (k + 1)..Len(t) : t[m] = w[m + 1] /\ m + 1 \in (h + 1)..Len(w)
      BY <1>1
    <2>4. \A m \in (h + 1)..Len(w) : m - 1 \in (k + 1)..Len(t) /\ t[m - 1] = w[m]
      BY <1>1
    <2>5. CloseFollows(w, h, fo) => CloseFollows(t, k, fo)
      BY <2>1, <2>4 DEF CloseFollows
    <2> QED BY <2>1, <2>2, <2>3, <2>5
  <1> QED BY <1>2 DEF FramesIn

\* The connection breaks, and the frames after the n-th are lost.
LEMMA FramesPrefix ==
    ASSUME NEW w \in Seq(Frame), NEW n \in 0..Len(w), NEW fo, NEW ev, NEW dl, NEW open,
           FramesIn(w, fo, ev, dl, open), NEW none
    PROVE  SubSeq(w, 1, n) \in Seq(Frame) /\ FramesIn(SubSeq(w, 1, n), fo, ev, none, FALSE)
  <1> DEFINE t == SubSeq(w, 1, n)
  <1>1. Len(w) \in Nat /\ n \in Nat /\ \A i \in 1..n : w[i] \in Frame
    BY LenProperties, ElementOfSeq
  <1>2. /\ t \in Seq(Frame) /\ Len(t) = n /\ \A k \in 1..n : t[k] = w[k] /\ k \in 1..Len(w)
    BY <1>1, SubSeqProperties
  <1>3. \A k \in 1..n : \A m \in (k + 1)..n : m \in 1..n /\ m \in (k + 1)..Len(w)
    BY <1>1
  <1> HIDE DEF t
  <1>4. FramesIn(t, fo, ev, none, FALSE)
    BY <1>2, <1>3 DEF FramesIn
  <1> QED BY <1>2, <1>4 DEF t

\* A frame that is no kline is sent.
LEMMA FramesReply ==
    ASSUME NEW w \in Seq(Frame), NEW f \in Frame, ~IsKline(f),
           NEW fo, NEW ev, NEW dl, NEW open, FramesIn(w, fo, ev, dl, open)
    PROVE  FramesIn(Append(w, f), fo, ev, dl, open)
  <1> DEFINE t == Append(w, f)
             n == Len(w)
  <1>1. /\ n \in Nat /\ Len(t) = n + 1 /\ t[n + 1] = f /\ \A k \in 1..n : t[k] = w[k]
    BY AppendProperties, LenProperties
  <1>2. \A k \in 1..Len(t) : k \in 1..n \/ k = n + 1
    BY <1>1
  <1>3. \A k \in 1..n : \A m \in (k + 1)..n : m \in 1..n /\ m \in (k + 1)..Len(t)
    BY <1>1
  <1>4. \A k \in 1..n : \A m \in (k + 1)..Len(t) : m \in (k + 1)..n \/ m = n + 1
    BY <1>1
  <1>5. \A k \in 1..n : CloseFollows(w, k, fo) => CloseFollows(t, k, fo)
    BY <1>1, <1>3 DEF CloseFollows
  <1> HIDE DEF t
  <1>6. FramesIn(t, fo, ev, dl, open)
    BY <1>1, <1>2, <1>3, <1>4, <1>5 DEF FramesIn
  <1> QED BY <1>6 DEF t

\* A kline is sent while candles may close: it belongs to a delivered stream, is
\* not overtaken by the others, and closes the candle that closed if one did.
LEMMA FramesKline ==
    ASSUME NEW w \in Seq(Frame), NEW f \in Frame, IsKline(f),
           NEW fo, NEW fp, NEW ev, NEW dl, FramesIn(w, fo, ev, dl, TRUE),
           FrameOfPast(f, fp), NotBehind(f, ev), f.stream \in dl,
           ~f.closed => f.open >= fp[f.stream],
           \A g \in Frame : IsKline(g) /\ FrameOfPast(g, fo) => FrameOfPast(g, fp) /\ SentBefore(g, f),
           \A g \in Frame : IsKline(g) /\ FrameOfPast(g, fo) /\ g.open < fp[g.stream] =>
               g.open < fo[g.stream] \/ f = Kline(g.stream, g.open, TRUE),
           f.open \in Int, fp[f.stream] \in Int
    PROVE  FramesIn(Append(w, f), fp, ev, dl, TRUE)
  <1> DEFINE t == Append(w, f)
             n == Len(w)
  <1>1. /\ n \in Nat /\ Len(t) = n + 1 /\ t[n + 1] = f /\ \A k \in 1..n : t[k] = w[k] /\ w[k] \in Frame
    BY AppendProperties, LenProperties, ElementOfSeq
  <1>2. \A k \in 1..Len(t) : k \in 1..n \/ k = n + 1
    BY <1>1
  <1>3. \A k \in 1..n : \A m \in (k + 1)..n : m \in 1..n /\ m \in (k + 1)..Len(t)
    BY <1>1
  <1>4. \A k \in 1..n : n + 1 \in (k + 1)..Len(t) /\ \A m \in (k + 1)..Len(t) : m \in (k + 1)..n \/ m = n + 1
    BY <1>1
  <1> HIDE DEF t
  <1>5. ASSUME NEW k \in 1..n, IsKline(w[k])
        PROVE  /\ FrameOfPast(t[k], fp) /\ NotBehind(t[k], ev)
               /\ t[k].stream \in dl /\ CloseFollows(t, k, fp)
               /\ \A m \in (k + 1)..Len(t) : IsKline(t[m]) => SentBefore(t[k], t[m])
    <2>1. /\ FrameOfPast(w[k], fo) /\ NotBehind(w[k], ev)
          /\ w[k].stream \in dl /\ CloseFollows(w, k, fo)
          /\ \A m \in (k + 1)..n : IsKline(w[m]) => SentBefore(w[k], w[m])
      BY <1>5 DEF FramesIn
    <2>2. CloseFollows(t, k, fp)
      BY <1>1, <1>3, <1>4, <1>5, <2>1 DEF CloseFollows
    <2> QED BY <1>1, <1>3, <1>4, <1>5, <2>1, <2>2
  <1>6. /\ FrameOfPast(t[n + 1], fp) /\ NotBehind(t[n + 1], ev) /\ t[n + 1].stream \in dl
        /\ CloseFollows(t, n + 1, fp)
    <2>1. f.closed \in BOOLEAN
      BY FrameFields
    <2>2. ~(~f.closed /\ f.open < fp[f.stream])
      BY <2>1
    <2> QED BY <1>1, <2>2 DEF CloseFollows
  <1>7. \A m \in ((n + 1) + 1)..Len(t) : FALSE
    BY <1>1
  <1>8. FramesIn(t, fp, ev, dl, TRUE)
    BY <1>1, <1>2, <1>5, <1>6, <1>7 DEF FramesIn
  <1> QED BY <1>8 DEF t

\* Candles close while no frame of their streams may be on its way.
LEMMA FramesElsewhere ==
    ASSUME NEW w \in Seq(Frame), NEW fo \in [Streams -> Int], NEW fp \in [Streams -> Int],
           NEW ev, NEW dl, NEW open, FramesIn(w, fo, ev, dl, open),
           \A s \in Streams : fo[s] <= fp[s] /\ (open /\ s \in dl => fo[s] = fp[s])
    PROVE  FramesIn(w, fp, ev, dl, open)
  <1> SUFFICES ASSUME NEW k \in 1..Len(w), IsKline(w[k])
               PROVE  FrameOfPast(w[k], fp) /\ (open => CloseFollows(w, k, fp))
    BY DEF FramesIn
  <1>1. w[k].stream \in Streams /\ w[k].open \in Int /\ w[k].closed \in BOOLEAN
    BY ElementOfSeq, FrameFields DEF Index
  <1>2. FrameOfPast(w[k], fo) /\ (open => w[k].stream \in dl /\ CloseFollows(w, k, fo))
    BY DEF FramesIn
  <1> DEFINE a == fo[w[k].stream]
             b == fp[w[k].stream]
  <1>3. a \in Int /\ b \in Int /\ a <= b /\ (open => a = b)
    BY <1>1, <1>2
  <1>4. FrameOfPast(w[k], fp)
    BY <1>1, <1>2, <1>3 DEF FrameOfPast
  <1>5. open => CloseFollows(w, k, fp)
    BY <1>2, <1>3 DEF CloseFollows
  <1> QED BY <1>4, <1>5

\* The streams still to reconcile are those behind the first.
LEMMA TailOfStreams ==
    ASSUME NEW q \in Seq(Streams), q # <<>>
    PROVE  /\ Head(q) \in Range(q) /\ Head(q) \in Streams
           /\ Tail(q) \in Seq(Streams) /\ Range(Tail(q)) \subseteq Range(q)
           /\ Range(q) \subseteq Range(Tail(q)) \cup {Head(q)}
  <1>1. /\ Len(q) \in Nat \ {0} /\ q[1] = Head(q) /\ Tail(q) \in Seq(Streams)
        /\ Head(q) \in Streams
        /\ Len(Tail(q)) = Len(q) - 1 /\ \A i \in 1..Len(Tail(q)) : Tail(q)[i] = q[i + 1]
    BY HeadTailProperties, EmptySeq, LenProperties
  <1>2. /\ Range(q) = {q[i] : i \in 1..Len(q)}
        /\ Range(Tail(q)) = {Tail(q)[i] : i \in 1..Len(Tail(q))}
    BY <1>1, RangeEquality
  <1>3. \A i \in 1..Len(q) : i = 1 \/ (i - 1 \in 1..Len(Tail(q)) /\ Tail(q)[i - 1] = q[i])
    BY <1>1
  <1>4. Head(q) \in Range(q)
    BY <1>1, <1>2
  <1>5. Range(Tail(q)) \subseteq Range(q)
    BY <1>1, <1>2
  <1>6. Range(q) \subseteq Range(Tail(q)) \cup {Head(q)}
    <2>1. ASSUME NEW i \in 1..Len(q)
          PROVE  q[i] = Head(q) \/ \E j \in 1..Len(Tail(q)) : q[i] = Tail(q)[j]
      BY <1>1, <1>3
    <2> QED BY <1>2, <2>1
  <1> QED BY <1>1, <1>4, <1>5, <1>6

LEMMA NothingToReconcile == <<>> \in Seq(Streams) /\ Range(<<>>) = {}
  <1>1. <<>> \in Seq(Streams) /\ Len(<<>>) = 0
    BY EmptySeq
  <1>2. Range(<<>>) = {<<>>[i] : i \in 1..Len(<<>>)}
    BY <1>1, RangeEquality
  <1> QED BY <1>1, <1>2

LEMMA StreamsInRange == ASSUME NEW q \in Seq(Streams) PROVE Range(q) \subseteq Streams
  BY RangeOfSeq

-----------------------------------------------------------------------------
(* The invariant holds initially, and over the end of a session *)

LEMMA FeedInit == Init => FeedInv
  <1> SUFFICES ASSUME Init PROVE FeedInv
    OBVIOUS
  <1>0. MaxCandle \in Nat \ {0}
    BY BoundsAssumption
  <1>1. /\ wire = <<>> /\ todo = <<>> /\ streams = <<>> /\ rows = 0 /\ link = FALSE
        /\ request = "none" /\ phase = "idle" /\ main = "validating" /\ delivering = {}
        /\ resynced = FALSE /\ health.acknowledged = FALSE /\ NoRows = 0
    BY DEF Init, NoRows
  <1>2. /\ wire \in Seq(Frame) /\ todo \in Seq(Streams) /\ streams \in Seq(Streams)
    BY <1>1, EmptySeq
  <1>3. forming \in [Streams -> Index]
    BY <1>0 DEF Init, Index
  <1>4. health \in Health
    BY <1>0 DEF Init, Health, NoRows
  <1>5. Typed
    <2>1. stopping = FALSE /\ rows \in 0..MaxCandle
      BY <1>0, <1>1 DEF Init
    <2> QED BY <1>1, <1>2, <1>3, <1>4, <2>1 DEF Typed
  <1>6. MainAndTask /\ Acknowledgement
    BY <1>1 DEF MainAndTask, Acknowledgement, TaskPhases, DatabaseOutlivesTask,
                AcknowledgedMeansDelivering
  <1>7. Connection
    BY <1>1 DEF Connection
  <1>8. RowsInFlight
    BY <1>1 DEF RowsInFlight
  <1>9. Frames
    BY <1>1, NoFrames DEF Frames
  <1>10. Evaluation
    <2>1. \A s \in Streams : evaluated[s] = <<>> /\ Len(<<>>) = 0 /\ <<>> \in Seq(Index)
      BY EmptySeq DEF Init
    <2>2. evaluated \in [Streams -> Seq(Index)] /\ store \in [Streams -> [Index -> Versions]]
      BY EmptySeq DEF Init, Versions
    <2> QED BY <2>1, <2>2 DEF Evaluation, EvaluatedHaveClosed, EvaluatedStaysFinal, EvaluatedOnceInOrder
  <1>11. NothingMissed
    BY <1>1 DEF NothingMissed
  <1> QED BY <1>5, <1>6, <1>7, <1>8, <1>9, <1>10, <1>11 DEF FeedInv

\* How a session ends, whatever ends it.
Over ==
    /\ NoSession /\ phase' \in {"backoff", "stopped", "dead"} /\ resynced' = FALSE
    /\ health' \in Health /\ health'.acknowledged = FALSE

LEMMA SessionOver ==
    ASSUME NEW h \in Health, NEW failed \in BOOLEAN, stopping \in BOOLEAN,
           EndSession(h, failed) \/ TaskDies(h)
    PROVE  Over
  <1>1. NoSession /\ phase' \in {"backoff", "stopped", "dead"} /\ resynced' = FALSE
    BY DEF EndSession, TaskDies
  <1>2. ClosedDown(h) \in Health /\ ClosedDown(h).acknowledged = FALSE
    BY DEF ClosedDown, Health
  <1>3. [ClosedDown(h) EXCEPT !.failed = @ \/ (failed /\ ~stopping)] \in Health
    BY DEF ClosedDown, Health
  <1>4. [ClosedDown(h) EXCEPT !.failed = @ \/ (failed /\ ~stopping)].acknowledged = FALSE
    BY DEF ClosedDown, Health
  <1>5. health' \in Health /\ health'.acknowledged = FALSE
    BY <1>2, <1>3, <1>4 DEF EndSession, TaskDies
  <1> QED BY <1>1, <1>5 DEF Over

\* Nothing is in flight any more; what was evaluated, the step itself kept.
LEMMA OverKeeps ==
    ASSUME FeedInv, Over, phase \in InSession \cup {"connecting"}, Evaluation',
           UNCHANGED <<forming, main, stopping, streams>>,
           rows' = NoRows, todo' \in {todo, <<>>}
    PROVE  FeedInv'
  <1>1. /\ link' = FALSE /\ request' = "none" /\ delivering' = {} /\ wire' = <<>>
        /\ phase' \in {"backoff", "stopped", "dead"} /\ phase' \in TaskPhases
        /\ health'.acknowledged = FALSE /\ resynced' = FALSE /\ health' \in Health
    BY DEF Over, NoSession, TaskPhases
  <1>2. main \notin {"validating", "booting"} /\ main # "exited"
    BY DEF FeedInv, MainAndTask, DatabaseOutlivesTask, InSession
  <1>3. Typed'
    <2>1. wire' \in Seq(Frame)
      BY <1>1, EmptySeq
    <2>2. todo' \in Seq(Streams)
      BY NothingToReconcile DEF FeedInv, Typed
    <2>3. rows' \in 0..MaxCandle
      BY BoundsAssumption DEF NoRows
    <2> QED BY <1>1, <2>1, <2>2, <2>3 DEF FeedInv, Typed
  <1>4. MainAndTask' /\ Acknowledgement'
    BY <1>1, <1>2 DEF FeedInv, MainAndTask, DatabaseOutlivesTask, Acknowledgement,
                      AcknowledgedMeansDelivering
  <1>5. Connection' /\ NothingMissed'
    BY <1>1 DEF Connection, NothingMissed
  <1>6. RowsInFlight'
    BY NothingToReconcile DEF FeedInv, RowsInFlight
  <1>7. Frames'
    BY <1>1, NoFrames DEF Frames
  <1> QED BY <1>3, <1>4, <1>5, <1>6, <1>7 DEF FeedInv

\* REST rows are in flight only while streams are reconciled.
LEMMA NoRowsInSession ==
    ASSUME FeedInv, phase \in TaskPhases \ {"idle", "reconciling"}
    PROVE  rows = NoRows /\ ~Reconciling
  BY DEF FeedInv, RowsInFlight, Reconciling, MainAndTask

LEMMA EvaluationUntouched ==
    ASSUME FeedInv, UNCHANGED <<forming, store, evaluated>>
    PROVE  Evaluation'
  BY DEF FeedInv, Evaluation, EvaluatedHaveClosed, EvaluatedStaysFinal, EvaluatedOnceInOrder

-----------------------------------------------------------------------------
(* A frame or the rows of a response are added to the store *)

LEMMA TheFrame ==
    ASSUME FeedInv, KlineArrives
    PROVE  /\ wire # <<>> /\ wire \in Seq(Frame) /\ wire[1] = Head(wire) /\ 1 \in 1..Len(wire)
           /\ IsKline(Head(wire)) /\ Head(wire) \in Frame
           /\ Head(wire).stream \in Streams /\ Head(wire).open \in Index
           /\ Head(wire).closed \in BOOLEAN
           /\ FrameOfPast(Head(wire), forming) /\ NotBehind(Head(wire), evaluated)
           /\ phase \in {"awaiting_ack", "awaiting_list", "receiving"} /\ rows = NoRows
  <1>1. wire # <<>> /\ wire \in Seq(Frame) /\ IsKline(Head(wire))
    BY DEF KlineArrives, Arrived, IsKline, FeedInv, Typed
  <1>2. wire[1] = Head(wire) /\ 1 \in 1..Len(wire) /\ Head(wire) \in Frame
    BY <1>1, HeadTailProperties, EmptySeq
  <1>3. phase \in {"awaiting_ack", "awaiting_list", "receiving"}
    BY DEF KlineArrives, Awaiting
  <1>4. rows = NoRows
    BY <1>3, NoRowsInSession DEF TaskPhases, InSession
  <1> QED BY <1>1, <1>2, <1>3, <1>4, FrameFields DEF FeedInv, Frames, FramesIn

\* The candle of the frame is stored, and no other.
LEMMA AddFrameStores ==
    ASSUME FeedInv, KlineArrives, store' = AddFrame(Head(wire))
    PROVE  LET f == Head(wire)
           IN  /\ store' \in [Streams -> [Index -> Versions]]
               /\ store'[f.stream][f.open] = IF f.closed THEN "final" ELSE "forming"
               /\ \A t \in Streams, j \in Index :
                     t # f.stream \/ j # f.open => store'[t][j] = store[t][j]
  <1> DEFINE f == Head(wire)
             s == f.stream
             i == f.open
             v == IF f.closed THEN "final" ELSE "forming"
  <1>1. s \in Streams /\ i \in Index /\ store \in [Streams -> [Index -> Versions]]
    BY TheFrame DEF FeedInv, Evaluation
  <1>2. store' = [store EXCEPT ![s][i] = v]
    BY DEF AddFrame, AddCandle
  <1> HIDE DEF f, s, i
  <1>3. v \in Versions /\ store[s] \in [Index -> Versions]
    BY <1>1 DEF Versions
  <1> DEFINE candles == [store[s] EXCEPT ![i] = v]
  <1>4. /\ candles \in [Index -> Versions] /\ candles[i] = v
        /\ \A j \in Index : j # i => candles[j] = store[s][j]
    BY <1>1, <1>3
  <1>5. store' = [store EXCEPT ![s] = candles]
    BY <1>1, <1>2
  <1> HIDE DEF candles, v
  <1>6. /\ store' \in [Streams -> [Index -> Versions]] /\ store'[s][i] = v
        /\ \A t \in Streams, j \in Index : t # s \/ j # i => store'[t][j] = store[t][j]
    BY <1>1, <1>4, <1>5
  <1> QED BY <1>6 DEF f, s, i, v

\* The store keeps final what was evaluated, the candle published now is later
\* than those before, and the frames behind do not go back.
LEMMA AddFrameKeeps ==
    ASSUME FeedInv, KlineArrives, forming' = forming, store' = AddFrame(Head(wire)),
           \/ evaluated' = evaluated
           \/ Publishes(Head(wire)) /\ evaluated' = Published(Head(wire))
    PROVE  Evaluation' /\ FramesIn(Tail(wire), forming, evaluated', delivering, link)
  <1> DEFINE f == Head(wire)
             s == f.stream
             i == f.open
             v == IF f.closed THEN "final" ELSE "forming"
  <1>1. /\ s \in Streams /\ i \in Index /\ f.closed \in BOOLEAN /\ i \in Int
        /\ FrameOfPast(f, forming) /\ NotBehind(f, evaluated) /\ IsKline(f)
        /\ wire \in Seq(Frame) /\ wire # <<>> /\ wire[1] = f /\ 1 \in 1..Len(wire)
    BY TheFrame DEF Index
  <1>2. /\ store \in [Streams -> [Index -> Versions]] /\ evaluated \in [Streams -> Seq(Index)]
        /\ forming \in [Streams -> Index]
        /\ EvaluatedHaveClosed /\ EvaluatedStaysFinal /\ EvaluatedOnceInOrder
    BY DEF FeedInv, Evaluation, Typed
  <1>4. /\ store' \in [Streams -> [Index -> Versions]] /\ store'[s][i] = v
        /\ \A t \in Streams, j \in Index : t # s \/ j # i => store'[t][j] = store[t][j]
    BY AddFrameStores
  <1> HIDE DEF f, s, i
  <1>5. \A t \in Streams : \A m \in 1..Len(evaluated[t]) :
           /\ evaluated[t][m] \in Index /\ evaluated[t][m] \in Int /\ evaluated[t][m] < forming[t]
           /\ store[t][evaluated[t][m]] = "final"
    <2> SUFFICES ASSUME NEW t \in Streams, NEW m \in 1..Len(evaluated[t])
                 PROVE  /\ evaluated[t][m] \in Index /\ evaluated[t][m] \in Int
                        /\ evaluated[t][m] < forming[t] /\ store[t][evaluated[t][m]] = "final"
      OBVIOUS
    <2>1. evaluated[t][m] \in Index
      BY <1>2, ElementOfSeq
    <2> QED BY <1>2, <2>1 DEF EvaluatedHaveClosed, EvaluatedStaysFinal, Index
  <1>6. \A m \in 1..Len(evaluated[s]) : evaluated[s][m] <= i /\ (~f.closed => evaluated[s][m] < i)
    BY <1>1 DEF NotBehind, s, i
  <1>7. \A t \in Streams : \A m \in 1..Len(evaluated[t]) : store'[t][evaluated[t][m]] = "final"
    <2> SUFFICES ASSUME NEW t \in Streams, NEW m \in 1..Len(evaluated[t])
                 PROVE  store'[t][evaluated[t][m]] = "final"
      OBVIOUS
    <2>1. CASE t = s /\ evaluated[t][m] = i
      <3>1. f.closed
        BY <1>1, <1>6, <2>1
      <3> QED BY <1>4, <2>1, <3>1
    <2>2. CASE t # s \/ evaluated[t][m] # i
      BY <1>4, <1>5, <2>2
    <2> QED BY <2>1, <2>2
  <1>8. FramesIn(Tail(wire), forming, evaluated, delivering, link)
    BY <1>1, FramesTail DEF FeedInv, Frames
  <1>9. CASE evaluated' = evaluated
    BY <1>2, <1>4, <1>7, <1>8, <1>9 DEF Evaluation, EvaluatedHaveClosed, EvaluatedStaysFinal,
                                        EvaluatedOnceInOrder
  <1>10. CASE Publishes(f) /\ evaluated' = Published(f)
    <2> DEFINE n == Len(evaluated[s])
    <2>1. f.closed /\ ~IsClosed(store[s][i]) /\ evaluated' = [evaluated EXCEPT ![s] = Append(@, i)]
      BY <1>10 DEF Publishes, Published, s, i
    <2>2. /\ evaluated' \in [Streams -> Seq(Index)] /\ evaluated'[s] = Append(evaluated[s], i)
          /\ \A t \in Streams : t # s => evaluated'[t] = evaluated[t]
      BY <1>1, <1>2, <2>1, AppendProperties
    <2>3. /\ n \in Nat /\ Len(evaluated'[s]) = n + 1 /\ evaluated'[s][n + 1] = i
          /\ \A m \in 1..n : evaluated'[s][m] = evaluated[s][m]
      BY <1>1, <1>2, <2>2, AppendProperties, LenProperties
    <2>4. \A m \in 1..(n + 1) : m \in 1..n \/ m = n + 1
      BY <2>3
    <2>5. \A m \in 1..n : evaluated[s][m] < i
      <3> SUFFICES ASSUME NEW m \in 1..n PROVE evaluated[s][m] < i
        OBVIOUS
      <3>1. evaluated[s][m] # i
        BY <1>1, <1>5, <2>1 DEF IsClosed
      <3> QED BY <1>1, <1>5, <1>6, <3>1
    <2>6. i < forming[s]
      BY <1>1, <2>1 DEF FrameOfPast, s, i
    <2>7. EvaluatedHaveClosed'
      BY <1>5, <2>2, <2>3, <2>4, <2>6 DEF EvaluatedHaveClosed
    <2>8. EvaluatedStaysFinal'
      BY <1>4, <1>7, <2>1, <2>2, <2>3, <2>4 DEF EvaluatedStaysFinal
    <2>9. EvaluatedOnceInOrder'
      <3> SUFFICES ASSUME NEW t \in Streams, NEW j \in 1..Len(evaluated'[t]),
                          NEW k \in 1..Len(evaluated'[t]), j < k
                   PROVE  evaluated'[t][j] < evaluated'[t][k]
        BY DEF EvaluatedOnceInOrder
      <3>1. CASE t # s
        BY <1>2, <2>2, <3>1 DEF EvaluatedOnceInOrder
      <3>2. CASE t = s
        <4>1. j \in 1..n
          BY <2>3, <3>2
        <4>2. k \in 1..n => evaluated[s][j] < evaluated[s][k]
          BY <1>1, <1>2, <4>1 DEF EvaluatedOnceInOrder
        <4> QED BY <2>3, <2>4, <2>5, <3>2, <4>1, <4>2
      <3> QED BY <3>1, <3>2
    <2>10. FramesIn(Tail(wire), forming, evaluated', delivering, link)
      <3> SUFFICES ASSUME NEW k \in 1..Len(Tail(wire)), IsKline(Tail(wire)[k])
                   PROVE  NotBehind(Tail(wire)[k], evaluated')
        BY <1>8 DEF FramesIn
      <3> DEFINE g == Tail(wire)[k]
      <3>1. NotBehind(g, evaluated) /\ g = wire[k + 1] /\ k + 1 \in 2..Len(wire)
        <4>1. NotBehind(g, evaluated)
          BY <1>8 DEF FramesIn
        <4>2. Len(Tail(wire)) = Len(wire) - 1 /\ g = wire[k + 1] /\ Len(wire) \in Nat
          BY <1>1, HeadTailProperties, LenProperties
        <4> QED BY <4>1, <4>2
      <3>2. g \in Frame /\ g.stream \in Streams /\ g.open \in Int /\ g.closed \in BOOLEAN
        BY <1>1, <3>1, ElementOfSeq, FrameFields DEF Index
      <3>3. SentBefore(f, g)
        <4>1. \A m \in (1 + 1)..Len(wire) : IsKline(wire[m]) => SentBefore(wire[1], wire[m])
          BY <1>1 DEF FeedInv, Frames, FramesIn
        <4> QED BY <1>1, <3>1, <4>1
      <3> HIDE DEF g
      <3>4. CASE g.stream # s
        BY <2>2, <3>1, <3>2, <3>4 DEF NotBehind
      <3>5. CASE g.stream = s
        <4>1. i <= g.open /\ (~g.closed => i < g.open)
          BY <2>1, <3>3, <3>5 DEF SentBefore, s, i
        <4> QED BY <2>3, <2>4, <3>1, <3>5, <4>1 DEF NotBehind
      <3> QED BY <3>4, <3>5 DEF g
    <2> QED BY <1>4, <2>2, <2>7, <2>8, <2>9, <2>10 DEF Evaluation
  <1> QED BY <1>9, <1>10 DEF f

\* REST rows overwrite what was evaluated with final versions only; every closed
\* candle they reach is held closed afterwards.
LEMMA AddRowsKeep ==
    ASSUME FeedInv, rows # NoRows, NEW last \in Int, AddRows(Head(todo), last),
           UNCHANGED <<forming, evaluated>>
    PROVE  /\ Evaluation' /\ Head(todo) \in Streams
           /\ \A t \in Streams : t # Head(todo) => store'[t] = store[t]
           /\ \A i \in Recent(Head(todo)) : i < rows /\ i <= last => IsClosed(store'[Head(todo)][i])
  <1> DEFINE s == Head(todo)
             row(i) == IF i \in RowsFrom(rows) /\ i <= last THEN RowVersion(s, rows, i) ELSE store[s][i]
  <1>1. /\ s \in Streams /\ rows \in Int /\ rows <= forming[s] /\ forming \in [Streams -> Index]
        /\ \A m \in 1..Len(evaluated[s]) : evaluated[s][m] < rows
    BY TailOfStreams DEF FeedInv, Typed, RowsInFlight
  <1>2. /\ store \in [Streams -> [Index -> Versions]] /\ evaluated \in [Streams -> Seq(Index)]
        /\ EvaluatedHaveClosed /\ EvaluatedStaysFinal /\ EvaluatedOnceInOrder
    BY DEF FeedInv, Evaluation
  <1>3. \A i \in Index : row(i) \in Versions
    BY <1>1, <1>2 DEF RowVersion, Versions
  <1>4. store' = [store EXCEPT ![s] = [i \in Index |-> row(i)]]
    BY <1>1, <1>2 DEF AddRows
  <1>5. /\ store' \in [Streams -> [Index -> Versions]]
        /\ \A i \in Index : store'[s][i] = row(i)
        /\ \A t \in Streams : t # s => store'[t] = store[t]
    <2>1. [i \in Index |-> row(i)] \in [Index -> Versions]
      BY <1>3
    <2> QED BY <1>1, <1>2, <1>4, <2>1
  <1>6. \A i \in Index : i < rows /\ i \in RowsFrom(rows) => RowVersion(s, rows, i) = "final"
    BY DEF RowVersion
  <1>7. EvaluatedStaysFinal'
    <2> SUFFICES ASSUME NEW t \in Streams, NEW m \in 1..Len(evaluated[t])
                 PROVE  store'[t][evaluated[t][m]] = "final"
      BY DEF EvaluatedStaysFinal
    <2>1. store[t][evaluated[t][m]] = "final" /\ evaluated[t][m] \in Index
      BY <1>2, ElementOfSeq DEF EvaluatedStaysFinal
    <2>2. CASE t # s
      BY <1>5, <2>1, <2>2
    <2>3. CASE t = s
      BY <1>1, <1>5, <1>6, <2>1, <2>3
    <2> QED BY <2>2, <2>3
  <1>8. Evaluation'
    BY <1>2, <1>5, <1>7 DEF Evaluation, EvaluatedHaveClosed, EvaluatedOnceInOrder
  <1>9. ASSUME NEW i \in Recent(s), i < rows, i <= last PROVE IsClosed(store'[s][i])
    <2>1. i \in Index /\ i \in Int /\ forming[s] \in Int /\ HistoryLimit \in Int
          /\ forming[s] - HistoryLimit < i
      BY <1>1, BoundsAssumption DEF Recent, Index
    <2>2. i \in RowsFrom(rows)
      BY <1>1, <1>9, <2>1 DEF RowsFrom
    <2> QED BY <1>5, <1>6, <1>9, <2>1, <2>2 DEF IsClosed
  <1> QED BY <1>1, <1>5, <1>8, <1>9

\* Recording a candle changes nothing else of the health record.
LEMMA HealthRecords ==
    ASSUME NEW h \in Health, NEW s \in Streams, NEW i \in 0..MaxCandle
    PROVE  /\ [h EXCEPT !.last_closed[s] = i] \in Health
           /\ [h EXCEPT !.last_closed[s] = i].acknowledged = h.acknowledged
           /\ [h EXCEPT !.last_closed[s] = i].active = h.active
  BY DEF Health

-----------------------------------------------------------------------------
(* Steps that end a session, or the boot *)

LEMMA SessionFailsKeeps ==
    ASSUME FeedInv, SessionFails \/ SessionEnds
    PROVE  FeedInv'
  <1>1. phase \in {"connecting", "awaiting_ack", "awaiting_list", "receiving"}
    BY DEF SessionFails, SessionFault, SessionError, SessionEnds, Awaiting
  <1>2. Over
    BY SessionOver DEF SessionFails, SessionEnds, FeedInv, Typed
  <1>3. /\ UNCHANGED <<forming, main, stopping, streams, store, evaluated>>
        /\ rows' = rows /\ todo' = todo
    BY DEF SessionFails, SessionEnds, sessionFrame, restVars, marketVars
  <1>4. rows = NoRows
    BY <1>1, NoRowsInSession DEF TaskPhases, InSession
  <1>5. Evaluation'
    BY <1>3, EvaluationUntouched
  <1>6. phase \in InSession \cup {"connecting"}
    BY <1>1 DEF InSession
  <1> QED BY <1>2, <1>3, <1>4, <1>5, <1>6, OverKeeps

\* The handler of a candle, or SQLite, raises while a frame is handled.
LEMMA HandlerRaisesKeeps ==
    ASSUME FeedInv, StrategyRaises \/ UpsertFails
    PROVE  FeedInv'
  <1>1. /\ KlineArrives /\ store' = AddFrame(Head(wire))
        /\ UNCHANGED <<forming, main, stopping, streams>> /\ rows' = rows /\ todo' = todo
    BY DEF StrategyRaises, UpsertFails, sessionFrame, restVars
  <1>2. Evaluation'
    BY <1>1, AddFrameKeeps DEF StrategyRaises, UpsertFails
  <1>3. Recorded(Head(wire)) \in Health
    <2>1. Head(wire).stream \in Streams /\ Head(wire).open \in 0..MaxCandle
      BY <1>1, TheFrame DEF Index
    <2>2. health \in Health
      BY DEF FeedInv, Typed
    <2> QED BY <2>1, <2>2, HealthRecords DEF Recorded
  <1>4. Over
    BY <1>3, SessionOver DEF StrategyRaises, UpsertFails, FeedInv, Typed
  <1>5. phase \in InSession \cup {"connecting"} /\ rows = NoRows
    BY <1>1, TheFrame DEF InSession
  <1> QED BY <1>1, <1>2, <1>4, <1>5, OverKeeps

\* reconcile() raises: at boot the engine exits, later the session is over.
LEMMA ReconcileRaisesKeeps ==
    ASSUME FeedInv, Reconciling, NEW caught \in BOOLEAN, ReconcileRaises(caught), Evaluation'
    PROVE  FeedInv'
  <1>1. /\ todo' = <<>> /\ rows' = NoRows
        /\ UNCHANGED <<forming, stopping, first, streams, evaluated>>
    BY DEF ReconcileRaises
  <1>2. CASE main = "booting"
    <2>1. /\ main' = "exited" /\ health' = [health EXCEPT !.running = FALSE]
          /\ UNCHANGED <<link, request, delivering, wire, phase, resynced>>
      BY <1>2 DEF ReconcileRaises, connVars
    <2>2. phase = "idle" /\ ~link /\ phase \notin InSession
      BY <1>2 DEF FeedInv, MainAndTask, Connection, InSession
    <2>3. /\ health' \in Health /\ health'.acknowledged = health.acknowledged
          /\ health'.active = health.active
      BY <2>1 DEF FeedInv, Typed, Health
    <2>4. Typed'
      <3>1. todo' \in Seq(Streams) /\ rows' \in 0..MaxCandle
        BY <1>1, NothingToReconcile, BoundsAssumption DEF NoRows
      <3> QED BY <1>1, <2>1, <2>3, <3>1 DEF FeedInv, Typed
    <2>5. MainAndTask' /\ Acknowledgement'
      BY <2>1, <2>2, <2>3 DEF FeedInv, MainAndTask, DatabaseOutlivesTask, Acknowledgement,
                              AcknowledgedMeansDelivering
    <2>6. Connection' /\ NothingMissed'
      BY <2>1, <2>2 DEF FeedInv, Connection, NothingMissed
    <2>7. RowsInFlight'
      BY <1>1, NothingToReconcile DEF RowsInFlight
    <2>8. Frames'
      BY <1>1, <2>1, <2>2 DEF FeedInv, Frames
    <2> QED BY <2>4, <2>5, <2>6, <2>7, <2>8 DEF FeedInv
  <1>3. CASE main # "booting"
    <2>1. phase = "reconciling" /\ main' = main
      BY <1>3 DEF Reconciling, ReconcileRaises
    <2>2. EndSession(health, TRUE) \/ TaskDies(health)
      BY <1>3 DEF ReconcileRaises
    <2>3. Over
      BY <2>2, SessionOver DEF FeedInv, Typed
    <2> QED BY <1>1, <2>1, <2>3, OverKeeps DEF InSession
  <1> QED BY <1>2, <1>3

LEMMA RestFailsKeeps ==
    ASSUME FeedInv, FetchFails \/ PayloadInvalid \/ UpsertRowFails
    PROVE  FeedInv'
  <1>1. CASE FetchFails \/ PayloadInvalid
    <2>1. Evaluation'
      BY <1>1, EvaluationUntouched DEF FetchFails, PayloadInvalid, ReconcileRaises
    <2> QED BY <1>1, <2>1, ReconcileRaisesKeeps DEF FetchFails, PayloadInvalid
  <1>2. CASE UpsertRowFails
    <2>1. PICK last \in RowsFrom(rows) : AddRows(Head(todo), last)
      BY <1>2 DEF UpsertRowFails
    <2>2. last \in Int /\ rows # NoRows /\ UNCHANGED <<forming, evaluated>>
      BY <1>2, <2>1 DEF UpsertRowFails, RowsFrom, Index, ReconcileRaises
    <2>3. Evaluation'
      BY <2>1, <2>2, AddRowsKeep
    <2> QED BY <1>2, <2>3, ReconcileRaisesKeeps DEF UpsertRowFails
  <1> QED BY <1>1, <1>2

-----------------------------------------------------------------------------
(* Steps of the exchange *)

\* The streams of a verified session are those the connection delivers.
LEMMA ReconciledAreDelivered ==
    ASSUME FeedInv, link
    PROVE  /\ Reconciled \subseteq delivering
           /\ phase = "reconciling" /\ rows # NoRows => Head(todo) \in delivering
  <1>1. ASSUME phase \in {"reconciling", "receiving"} PROVE delivering = Range(streams)
    BY <1>1 DEF FeedInv, Acknowledgement, AcknowledgedMeansDelivering
  <1>2. rows # NoRows => Head(todo) \in Range(streams)
    BY TailOfStreams DEF FeedInv, Typed, RowsInFlight
  <1> QED BY <1>1, <1>2 DEF Reconciled

LEMMA InFlightGrows ==
    ASSUME wire \in Seq(Frame), NEW f \in Frame, wire' = Append(wire, f),
           NEW t, NEW i, InFlight(t, i) \/ f = Kline(t, i, TRUE)
    PROVE  InFlight(t, i)'
  <1>1. /\ Len(wire) \in Nat /\ Len(wire') = Len(wire) + 1 /\ wire'[Len(wire) + 1] = f
        /\ \A k \in 1..Len(wire) : wire'[k] = wire[k]
    BY AppendProperties, LenProperties
  <1>2. 1..Len(wire) \subseteq 1..Len(wire') /\ Len(wire) + 1 \in 1..Len(wire')
    BY <1>1
  <1> QED BY <1>1, <1>2 DEF InFlight

\* Time goes on for some streams; everything that compares with it stays true.
LEMMA LaterIsFine ==
    ASSUME FeedInv, UNCHANGED <<link, request, delivering, engineVars>>,
           forming' \in [Streams -> Index], \A t \in Streams : forming[t] <= forming'[t],
           wire' \in Seq(Frame),
           link => \A k \in 1..Len(wire') : wire'[k].kind = "list" => wire'[k].active = delivering,
           request = "SUBSCRIBE" => wire' = <<>>
    PROVE  /\ Typed' /\ MainAndTask' /\ Connection' /\ Acknowledgement' /\ RowsInFlight'
           /\ Evaluation' /\ Reconciled' = Reconciled
           /\ UNCHANGED <<phase, streams, todo, rows, store, evaluated>>
  <1>1. UNCHANGED <<main, phase, stopping, streams, todo, rows, store, evaluated, resynced, health>>
    BY DEF engineVars, restVars, marketVars
  <1>2. Typed' /\ MainAndTask' /\ Connection' /\ Acknowledgement' /\ Reconciled' = Reconciled
    BY <1>1 DEF FeedInv, Typed, MainAndTask, DatabaseOutlivesTask, Connection, Acknowledgement,
                AcknowledgedMeansDelivering, Reconciled
  <1>3. forming \in [Streams -> Int] /\ forming' \in [Streams -> Int]
    BY DEF FeedInv, Typed, Index
  <1>4. RowsInFlight'
    <2>1. rows # NoRows => Head(todo) \in Streams /\ rows \in Int
      BY TailOfStreams DEF FeedInv, Typed, RowsInFlight
    <2>2. rows # NoRows => rows <= forming'[Head(todo)]
      BY <1>3, <2>1 DEF FeedInv, RowsInFlight
    <2> QED BY <1>1, <2>2 DEF FeedInv, RowsInFlight, Reconciling
  <1>5. Evaluation'
    <2>1. ASSUME NEW t \in Streams, NEW m \in 1..Len(evaluated[t]) PROVE evaluated[t][m] < forming'[t]
      <3>1. evaluated[t][m] \in Index
        BY ElementOfSeq DEF FeedInv, Evaluation
      <3>2. evaluated[t][m] < forming[t]
        BY DEF FeedInv, Evaluation, EvaluatedHaveClosed
      <3> QED BY <1>3, <3>1, <3>2 DEF Index
    <2> QED BY <1>1, <2>1 DEF FeedInv, Evaluation, EvaluatedHaveClosed, EvaluatedStaysFinal,
                              EvaluatedOnceInOrder
  <1> QED BY <1>1, <1>2, <1>4, <1>5

\* A frame is sent: an intrabar one, the closing one as the candle closes, or the
\* last closing one again.
LEMMA SentKeeps ==
    ASSUME FeedInv, link, NEW s \in delivering, NEW i \in Index, NEW c \in BOOLEAN,
           wire' = Append(wire, Kline(s, i, c)),
           \/ forming' = forming /\ ~c /\ i = forming[s]
           \/ forming' = forming /\ c /\ i = forming[s] - 1
           \/ /\ forming[s] < MaxCandle /\ forming' = [forming EXCEPT ![s] = @ + 1]
              /\ c /\ i = forming[s],
           UNCHANGED <<link, request, delivering, engineVars>>
    PROVE  FeedInv'
  <1> DEFINE f == Kline(s, i, c)
  <1>0. s \in Streams /\ forming \in [Streams -> Index] /\ wire \in Seq(Frame) /\ MaxCandle \in Nat
    BY BoundsAssumption DEF FeedInv, Typed
  <1>1. /\ f \in Frame /\ IsKline(f) /\ f.stream = s /\ f.open = i /\ f.closed = c
        /\ f.kind # "list"
    BY <1>0, KlineIsAFrame
  <1>2. /\ forming' \in [Streams -> Index] /\ \A t \in Streams : t # s => forming'[t] = forming[t]
        /\ forming'[s] \in {forming[s], forming[s] + 1}
        /\ (forming'[s] = forming[s] + 1 => f = Kline(s, forming[s], TRUE))
        /\ (c => i < forming'[s] /\ i >= forming[s] - 1) /\ (~c => i = forming'[s] /\ i = forming[s])
    <2>1. forming[s] \in Int /\ i \in Int
      BY <1>0 DEF Index
    <2>2. CASE forming' = forming /\ (IF c THEN i = forming[s] - 1 ELSE i = forming[s])
      <3>1. forming'[s] = forming[s] /\ forming'[s] # forming[s] + 1
        BY <2>1, <2>2
      <3>2. forming' \in [Streams -> Index] /\ \A t \in Streams : t # s => forming'[t] = forming[t]
        BY <1>0, <2>2
      <3>3. (c => i < forming'[s] /\ i >= forming[s] - 1) /\ (~c => i = forming'[s] /\ i = forming[s])
        BY <2>1, <2>2, <3>1
      <3> QED BY <3>1, <3>2, <3>3
    <2>3. CASE forming[s] < MaxCandle /\ forming' = [forming EXCEPT ![s] = @ + 1] /\ c /\ i = forming[s]
      <3>1. forming[s] + 1 \in Index
        BY <1>0, <2>3 DEF Index
      <3>2. forming' \in [Streams -> Index] /\ forming'[s] = forming[s] + 1
            /\ \A t \in Streams : t # s => forming'[t] = forming[t]
        BY <1>0, <2>3, <3>1
      <3>3. c = TRUE
        BY <2>3
      <3> QED BY <2>1, <2>3, <3>2, <3>3
    <2> QED BY <2>2, <2>3
  <1>3. \A t \in Streams : /\ forming[t] \in Int /\ forming'[t] \in Int /\ forming[t] <= forming'[t]
                            /\ (t # s => forming'[t] = forming[t])
    BY <1>0, <1>2 DEF Index
  <1> HIDE DEF f
  <1>4. /\ Len(wire) \in Nat /\ wire' \in Seq(Frame) /\ Len(wire') = Len(wire) + 1
        /\ wire'[Len(wire) + 1] = f /\ \A k \in 1..Len(wire) : wire'[k] = wire[k]
    BY <1>0, <1>1, AppendProperties, LenProperties DEF f
  <1>5. \A k \in 1..Len(wire') : wire'[k].kind = "list" => wire'[k].active = delivering
    <2>1. \A k \in 1..Len(wire') : k \in 1..Len(wire) \/ k = Len(wire) + 1
      BY <1>4
    <2> QED BY <1>1, <1>4, <2>1 DEF FeedInv, Connection
  <1>6. request # "SUBSCRIBE"
    BY DEF FeedInv, Connection
  <1>7. /\ Typed' /\ MainAndTask' /\ Connection' /\ Acknowledgement' /\ RowsInFlight'
        /\ Evaluation' /\ Reconciled' = Reconciled
        /\ UNCHANGED <<phase, streams, todo, rows, store, evaluated>>
    BY <1>2, <1>3, <1>4, <1>5, <1>6, LaterIsFine
  <1>8. Frames'
    <2>1. NotBehind(f, evaluated)
      <3> SUFFICES ASSUME NEW m \in 1..Len(evaluated[s])
                   PROVE  evaluated[s][m] <= i /\ (~c => evaluated[s][m] < i)
        BY <1>1 DEF NotBehind
      <3>1. evaluated[s][m] \in Int /\ evaluated[s][m] < forming[s]
        BY <1>0, ElementOfSeq DEF FeedInv, Evaluation, EvaluatedHaveClosed, Index
      <3> QED BY <1>0, <1>2, <1>3, <3>1 DEF Index
    <2>2. FrameOfPast(f, forming') /\ (~f.closed => f.open >= forming'[f.stream])
      BY <1>0, <1>1, <1>2, <1>3 DEF FrameOfPast, Index
    <2>3. ASSUME NEW g \in Frame, IsKline(g), FrameOfPast(g, forming)
          PROVE  /\ FrameOfPast(g, forming') /\ SentBefore(g, f)
                 /\ g.open < forming'[g.stream] =>
                       g.open < forming[g.stream] \/ f = Kline(g.stream, g.open, TRUE)
      <3>1. g.stream \in Streams /\ g.open \in Int /\ g.closed \in BOOLEAN
        BY <2>3, FrameFields DEF Index
      <3>2. FrameOfPast(g, forming')
        BY <1>3, <2>3, <3>1 DEF FrameOfPast
      <3>3. SentBefore(g, f)
        BY <1>0, <1>1, <1>2, <1>3, <2>3, <3>1 DEF FrameOfPast, SentBefore, Index
      <3>4. g.open < forming'[g.stream] =>
                g.open < forming[g.stream] \/ f = Kline(g.stream, g.open, TRUE)
        <4>1. CASE g.stream # s
          BY <1>3, <3>1, <4>1
        <4>2. CASE g.stream = s
          <5>1. ASSUME g.open < forming'[s], ~(g.open < forming[s])
                PROVE  g.open = forming[s] /\ forming'[s] = forming[s] + 1
            BY <1>0, <1>2, <1>3, <3>1, <5>1
          <5> QED BY <1>2, <4>2, <5>1
        <4> QED BY <4>1, <4>2
      <3> QED BY <3>2, <3>3, <3>4
    <2>4. FramesIn(wire, forming, evaluated, delivering, TRUE)
      BY DEF FeedInv, Frames
    <2>5. f.open \in Int /\ forming'[f.stream] \in Int /\ f.stream \in delivering
      BY <1>0, <1>1, <1>3 DEF Index
    <2>6. FramesIn(Append(wire, f), forming', evaluated, delivering, TRUE)
      BY <1>0, <1>1, <2>1, <2>2, <2>3, <2>4, <2>5, FramesKline
    <2> QED BY <1>7, <2>6 DEF Frames, f
  <1>9. NothingMissed'
    <2>1. \A t, j : InFlight(t, j) \/ f = Kline(t, j, TRUE) => InFlight(t, j)'
      BY <1>0, <1>1, InFlightGrows DEF f
    <2>2. ASSUME NEW t \in Streams, NEW j \in Index, ~(j < forming[t]), j < forming'[t]
          PROVE  f = Kline(t, j, TRUE)
      <3>1. t = s /\ j = forming[s] /\ forming'[s] = forming[s] + 1
        BY <1>2, <1>3, <2>2 DEF Index
      <3> QED BY <1>2, <3>1
    <2>3. Reconciled \subseteq Streams /\ (rows # NoRows => Head(todo) \in Streams)
      BY ReconciledAreDelivered, TailOfStreams DEF FeedInv, Typed, RowsInFlight
    <2>4. ASSUME NEW t \in Reconciled, NEW j \in Recent(t)' PROVE Held(t, j)'
      <3>1. j \in Index /\ j \in Int /\ j < forming'[t] /\ forming'[t] - HistoryLimit < j
            /\ HistoryLimit \in Int /\ t \in Streams
        BY <2>3, <2>4, BoundsAssumption DEF Recent, Index
      <3>2. CASE j < forming[t]
        <4>1. j \in Recent(t)
          BY <1>3, <3>1, <3>2 DEF Recent
        <4> QED BY <1>7, <2>1, <2>4, <4>1 DEF FeedInv, NothingMissed, Held
      <3>3. CASE ~(j < forming[t])
        BY <2>1, <2>2, <3>1, <3>3 DEF Held
      <3> QED BY <3>2, <3>3
    <2>5. ASSUME phase = "reconciling", rows # NoRows, NEW j \in Index, rows <= j,
                 j < forming'[Head(todo)]
          PROVE  InFlight(Head(todo), j)'
      <3> DEFINE t == Head(todo)
      <3>1. t \in Streams
        BY <2>3, <2>5
      <3> HIDE DEF t
      <3>2. InFlight(t, j) \/ f = Kline(t, j, TRUE)
        BY <2>2, <2>5, <3>1 DEF FeedInv, NothingMissed, t
      <3>3. \A u : u = t => InFlight(u, j)'
        BY <2>1, <3>2
      <3> QED BY <1>7, <3>3 DEF t
    <2> QED BY <1>7, <2>4, <2>5 DEF NothingMissed
  <1> QED BY <1>7, <1>8, <1>9 DEF FeedInv

LEMMA CandleClosesKeeps ==
    ASSUME FeedInv, NEW s \in Streams, CandleCloses(s)
    PROVE  FeedInv'
  <1>1. /\ forming \in [Streams -> Index] /\ forming[s] \in Index /\ forming[s] < MaxCandle
        /\ forming' = [forming EXCEPT ![s] = @ + 1] /\ wire \in Seq(Frame) /\ MaxCandle \in Nat
        /\ UNCHANGED <<link, request, delivering, engineVars>>
    BY BoundsAssumption DEF CandleCloses, FeedInv, Typed
  <1>2. CASE link /\ s \in delivering
    <2>1. Kline(s, forming[s], TRUE).stream = s
      BY DEF Kline
    <2>2. wire' = Append(wire, Kline(s, forming[s], TRUE))
      BY <1>2, <2>1 DEF CandleCloses, Push
    <2> QED BY <1>1, <1>2, <2>2, SentKeeps
  <1>3. CASE ~(link /\ s \in delivering)
    <2>1. wire' = wire
      BY <1>3 DEF CandleCloses, Push, Kline
    <2>2. forming' \in [Streams -> Index] /\ \A t \in Streams : t # s => forming'[t] = forming[t]
      <3>1. forming[s] + 1 \in Index
        BY <1>1 DEF Index
      <3> QED BY <1>1, <3>1
    <2>3. \A t \in Streams : /\ forming[t] \in Int /\ forming'[t] \in Int /\ forming[t] <= forming'[t]
                              /\ (t # s => forming'[t] = forming[t])
      BY <1>1, <2>2 DEF Index
    <2>4. /\ Typed' /\ MainAndTask' /\ Connection' /\ Acknowledgement' /\ RowsInFlight'
          /\ Evaluation' /\ Reconciled' = Reconciled
          /\ UNCHANGED <<phase, streams, todo, rows, store, evaluated>>
      BY <1>1, <2>1, <2>2, <2>3, LaterIsFine DEF FeedInv, Connection
    <2>5. Frames'
      <3>1. FramesIn(wire, forming', evaluated, delivering, link)
        BY <1>1, <1>3, <2>2, <2>3, FramesElsewhere DEF FeedInv, Frames, Index
      <3> QED BY <1>1, <2>1, <2>4, <3>1 DEF Frames
    <2>6. NothingMissed'
      <3> SUFFICES ASSUME link PROVE NothingMissed'
        BY <1>1 DEF NothingMissed
      <3>1. /\ Reconciled \subseteq delivering /\ delivering \subseteq Streams /\ s \notin delivering
            /\ (phase = "reconciling" /\ rows # NoRows => Head(todo) \in delivering)
        BY <1>3, ReconciledAreDelivered DEF FeedInv, Typed
      <3>2. \A t \in delivering : forming'[t] = forming[t]
        BY <2>3, <3>1
      <3>3. \A t \in Reconciled : \A j \in Recent(t)' : Held(t, j)'
        BY <2>1, <2>4, <3>1, <3>2 DEF FeedInv, NothingMissed, Recent, Held, InFlight
      <3>4. phase = "reconciling" /\ rows # NoRows =>
              \A j \in Index : rows <= j /\ j < forming'[Head(todo)] => InFlight(Head(todo), j)'
        BY <2>1, <2>4, <3>1, <3>2 DEF FeedInv, NothingMissed, InFlight
      <3> QED BY <2>4, <3>3, <3>4 DEF NothingMissed
    <2> QED BY <2>4, <2>5, <2>6 DEF FeedInv
  <1> QED BY <1>2, <1>3

LEMMA TicksKeep ==
    ASSUME FeedInv, NEW s \in Streams, FormingTick(s) \/ DuplicateClose(s)
    PROVE  FeedInv'
  <1>1. /\ link /\ s \in delivering /\ forming' = forming /\ forming[s] \in Index /\ MaxCandle \in Nat
        /\ UNCHANGED <<link, request, delivering, engineVars>>
    BY BoundsAssumption DEF FormingTick, DuplicateClose, FeedInv, Typed
  <1>2. \A i, c : Kline(s, i, c).stream = s
    BY DEF Kline
  <1>3. CASE FormingTick(s)
    <2>1. wire' = Append(wire, Kline(s, forming[s], FALSE))
      BY <1>1, <1>2, <1>3 DEF FormingTick, Push
    <2> QED BY <1>1, <2>1, SentKeeps
  <1>4. CASE DuplicateClose(s)
    <2>1. wire' = Append(wire, Kline(s, forming[s] - 1, TRUE)) /\ forming[s] > 1
      BY <1>1, <1>2, <1>4 DEF DuplicateClose, Push
    <2>2. forming[s] - 1 \in Index
      BY <1>1, <2>1 DEF Index
    <2> QED BY <1>1, <2>1, <2>2, SentKeeps
  <1> QED BY <1>3, <1>4

\* A control request is served: what is delivered may change only before the
\* first frame, and the list of streams is the one that is delivered.
LEMMA ReplyKeeps ==
    ASSUME FeedInv, ServeSubscribe \/ ServeList
    PROVE  FeedInv'
  <1>1. /\ link /\ link' = link /\ request' = "none" /\ UNCHANGED <<forming, engineVars>>
        /\ wire \in Seq(Frame) /\ delivering \subseteq Streams /\ streams \in Seq(Streams)
    BY DEF ServeSubscribe, ServeList, FeedInv, Typed
  <1>2. UNCHANGED <<main, phase, stopping, streams, todo, rows, store, evaluated, resynced, health>>
    BY <1>1 DEF engineVars, restVars, marketVars
  <1>3. PICK f : /\ wire' = Append(wire, f) /\ f \in Frame /\ ~IsKline(f) /\ delivering' \subseteq Streams
                 /\ f.kind = "list" => f.active = delivering'
                 /\ wire # <<>> => delivering' = delivering
                 /\ phase \in {"reconciling", "receiving"} => delivering' = delivering
    <2>1. CASE ServeSubscribe
      <3>1. wire = <<>> /\ phase = "awaiting_ack"
        BY <2>1 DEF ServeSubscribe, FeedInv, Connection
      <3>2. Range(streams) \subseteq Streams
        BY <1>1, StreamsInRange
      <3>3. PICK k \in {"ack", "reject"} : wire' = Append(wire, [kind |-> k]) /\ delivering' \subseteq Streams
        BY <2>1, <3>2 DEF ServeSubscribe
      <3> DEFINE f == [kind |-> k]
      <3>4. f \in Frame /\ ~IsKline(f) /\ f.kind # "list"
        BY DEF Frame, IsKline
      <3> QED BY <3>1, <3>3, <3>4
    <2>2. CASE ServeList
      <3> DEFINE f == [kind |-> "list", active |-> delivering]
      <3>1. wire' = Append(wire, f) /\ delivering' = delivering
        BY <2>2 DEF ServeList
      <3>2. f \in Frame /\ ~IsKline(f) /\ f.active = delivering
        BY <1>1 DEF Frame, IsKline
      <3> QED BY <1>1, <3>1, <3>2
    <2> QED BY <2>1, <2>2
  <1>4. /\ Len(wire) \in Nat /\ wire' \in Seq(Frame) /\ Len(wire') = Len(wire) + 1
        /\ wire'[Len(wire) + 1] = f /\ \A k \in 1..Len(wire) : wire'[k] = wire[k]
    BY <1>1, <1>3, AppendProperties, LenProperties
  <1>5. Typed' /\ MainAndTask' /\ RowsInFlight' /\ Evaluation' /\ Reconciled' = Reconciled
    BY <1>1, <1>2, <1>3, <1>4 DEF FeedInv, Typed, MainAndTask, DatabaseOutlivesTask, RowsInFlight,
        Reconciling, Evaluation, EvaluatedHaveClosed, EvaluatedStaysFinal, EvaluatedOnceInOrder,
        Reconciled
  <1>6. Acknowledgement'
    BY <1>1, <1>2, <1>3 DEF FeedInv, Acknowledgement, AcknowledgedMeansDelivering
  <1>7. Connection'
    <2>1. \A k \in 1..Len(wire') : k \in 1..Len(wire) \/ k = Len(wire) + 1
      BY <1>4
    <2>2. \A k \in 1..Len(wire) : wire[k].kind = "list" => wire[k].active = delivering'
      <3>1. wire = <<>> => Len(wire) = 0
        BY <1>1, EmptySeq
      <3> QED BY <1>1, <1>3, <1>4, <3>1 DEF FeedInv, Connection
    <2> QED BY <1>1, <1>2, <1>3, <1>4, <2>1, <2>2 DEF FeedInv, Connection
  <1>8. Frames'
    <2>1. FramesIn(wire, forming, evaluated, delivering', link)
      <3>1. wire = <<>> => FramesIn(wire, forming, evaluated, delivering', link)
        BY NoFrames
      <3> QED BY <1>3, <3>1 DEF FeedInv, Frames
    <2>2. FramesIn(Append(wire, f), forming, evaluated, delivering', link)
      BY <1>1, <1>3, <2>1, FramesReply
    <2> QED BY <1>1, <1>2, <1>3, <2>2 DEF Frames
  <1>9. NothingMissed'
    <2>1. \A t, i : InFlight(t, i) => InFlight(t, i)'
      BY <1>1, <1>3, InFlightGrows
    <2>2. \A t, i : Held(t, i) => Held(t, i)'
      BY <1>2, <2>1 DEF Held
    <2>3. \A t : Recent(t)' = Recent(t)
      BY <1>1 DEF Recent
    <2>4. \A t \in Reconciled : \A i \in Recent(t) : Held(t, i)
      BY <1>1 DEF FeedInv, NothingMissed
    <2>5. phase = "reconciling" /\ rows # NoRows =>
             \A i \in Index : rows <= i /\ i < forming[Head(todo)] => InFlight(Head(todo), i)
      BY <1>1 DEF FeedInv, NothingMissed
    <2>6. \A t, i : t = Head(todo) /\ InFlight(t, i) => InFlight(t, i)'
      BY <2>1
    <2> QED BY <1>1, <1>2, <1>5, <2>2, <2>3, <2>4, <2>5, <2>6 DEF NothingMissed
  <1> QED BY <1>5, <1>6, <1>7, <1>8, <1>9 DEF FeedInv

\* The connection breaks: nothing is claimed of it any more.
LEMMA DropKeeps ==
    ASSUME FeedInv, Drop
    PROVE  FeedInv'
  <1>1. /\ link' = FALSE /\ request' = "none" /\ delivering' = {} /\ UNCHANGED <<forming, engineVars>>
    BY DEF Drop
  <1>2. UNCHANGED <<main, phase, stopping, streams, todo, rows, store, evaluated, resynced, health>>
    BY <1>1 DEF engineVars, restVars, marketVars
  <1>3. PICK n \in 0..Len(wire) : wire' = SubSeq(wire, 1, n)
    BY DEF Drop
  <1>4. wire' \in Seq(Frame) /\ FramesIn(wire', forming, evaluated, {}, FALSE)
    BY <1>3, FramesPrefix DEF FeedInv, Typed, Frames
  <1>5. Typed'
    BY <1>1, <1>2, <1>4 DEF FeedInv, Typed
  <1>6. MainAndTask' /\ RowsInFlight' /\ Evaluation'
    BY <1>1, <1>2 DEF FeedInv, MainAndTask, DatabaseOutlivesTask, RowsInFlight, Reconciling,
        Evaluation, EvaluatedHaveClosed, EvaluatedStaysFinal, EvaluatedOnceInOrder
  <1>7. Acknowledgement' /\ Connection' /\ NothingMissed'
    BY <1>1, <1>2 DEF FeedInv, Acknowledgement, AcknowledgedMeansDelivering, Connection, NothingMissed
  <1>8. Frames'
    BY <1>1, <1>2, <1>4 DEF Frames
  <1> QED BY <1>5, <1>6, <1>7, <1>8 DEF FeedInv

-----------------------------------------------------------------------------
(* Steps of main, and of the task outside a session *)

LEMMA ValidateKeeps ==
    ASSUME FeedInv, ValidateSymbols
    PROVE  FeedInv'
  <1>1. /\ main = "validating" /\ phase = "idle" /\ ~link /\ rows = NoRows
        /\ UNCHANGED <<forming, link, request, delivering, wire, stopping, rows, store, evaluated,
                       resynced, health>>
    BY DEF ValidateSymbols, FeedInv, MainAndTask, Connection, InSession, RowsInFlight, Reconciling,
           connVars, marketVars
  <1>2. streams' \in Seq(Streams)
    <2>1. StreamsOf(Symbols) \in Seq(Streams)
      BY StreamsAreStreams, ConfigurationAssumption
    <2>2. ASSUME NEW n \in 0..(Len(Symbols) - 1), NEW pick \in [1..n -> 1..Len(Symbols)]
          PROVE  StreamsOf([k \in 1..n |-> Symbols[pick[k]]]) \in Seq(Streams)
      <3>1. n \in Nat
        BY ConfigurationAssumption, LenProperties
      <3>2. \A k \in 1..n : Symbols[pick[k]] \in Range(Symbols)
        BY ConfigurationAssumption, ElementOfSeq
      <3>3. [k \in 1..n |-> Symbols[pick[k]]] \in Seq(Range(Symbols))
        BY <3>1, <3>2, IsASeq
      <3> QED BY <3>3, StreamsAreStreams
    <2> QED BY <2>1, <2>2 DEF ValidateSymbols
  <1>3. todo' = streams' /\ \/ main' = "waiting" /\ phase' = "stopped"
                            \/ main' = "booting" /\ phase' = "idle"
    BY <1>1 DEF ValidateSymbols
  <1>4. Typed'
    BY <1>1, <1>2, <1>3 DEF FeedInv, Typed
  <1>5. MainAndTask' /\ Acknowledgement'
    BY <1>1, <1>3 DEF FeedInv, MainAndTask, TaskPhases, DatabaseOutlivesTask, Acknowledgement,
                      AcknowledgedMeansDelivering
  <1>6. Connection' /\ NothingMissed' /\ RowsInFlight'
    BY <1>1, <1>3 DEF FeedInv, Connection, NothingMissed, RowsInFlight
  <1>7. Frames' /\ Evaluation'
    BY <1>1, EvaluationUntouched DEF FeedInv, Frames
  <1> QED BY <1>4, <1>5, <1>6, <1>7 DEF FeedInv

\* Shutdown is requested: the connection of a session goes with what it carried.
LEMMA ShutdownKeeps ==
    ASSUME FeedInv, RequestShutdown
    PROVE  FeedInv'
  <1>1. /\ main = "waiting" /\ main' = "joining" /\ stopping' = TRUE
        /\ UNCHANGED <<forming, phase, streams, todo, rows, store, evaluated, resynced, health>>
    BY DEF RequestShutdown, restVars, marketVars
  <1>2. /\ link' = FALSE /\ request' = "none" /\ delivering' = {} /\ wire' \in Seq(Frame)
        /\ \/ wire' = <<>>
           \/ wire' = wire /\ delivering' = delivering /\ link' = link
    <2>1. CASE phase \in InSession
      <3>1. NoSession
        BY <2>1 DEF RequestShutdown, InSession
      <3> QED BY <3>1, EmptySeq DEF NoSession
    <2>2. CASE phase \notin InSession
      BY <2>2 DEF RequestShutdown, InSession, connVars, FeedInv, Connection, Typed
    <2> QED BY <2>1, <2>2
  <1>3. Typed'
    BY <1>1, <1>2 DEF FeedInv, Typed
  <1>4. MainAndTask' /\ Acknowledgement' /\ Connection' /\ NothingMissed'
    BY <1>1, <1>2 DEF FeedInv, MainAndTask, DatabaseOutlivesTask, Acknowledgement,
        AcknowledgedMeansDelivering, Connection, NothingMissed
  <1>5. RowsInFlight'
    BY <1>1 DEF FeedInv, RowsInFlight, Reconciling
  <1>6. Frames'
    BY <1>1, <1>2, NoFrames DEF FeedInv, Frames
  <1>7. Evaluation'
    BY <1>1, EvaluationUntouched
  <1> QED BY <1>3, <1>4, <1>5, <1>6, <1>7 DEF FeedInv

\* main exits once the task is over; a backoff ends in a new connection or in
\* the end of the task.
LEMMA QuietStepsKeep ==
    ASSUME FeedInv, MainExits \/ BackoffEnds
    PROVE  FeedInv'
  <1>1. /\ UNCHANGED <<forming, link, request, delivering, wire, stopping, streams, todo, rows,
                       store, evaluated, resynced>>
        /\ health' \in {health, [health EXCEPT !.running = FALSE]}
    BY DEF MainExits, BackoffEnds, sessionFrame, connVars, restVars, marketVars
  <1>2. \/ phase \in {"stopped", "dead"} /\ phase' = phase /\ main' = "exited"
        \/ /\ phase = "backoff" /\ phase' \in {"stopped", "connecting"}
           /\ main' = main /\ main \notin {"validating", "booting", "exited"}
    <2>1. CASE MainExits
      BY <2>1 DEF MainExits
    <2>2. CASE BackoffEnds
      BY <2>2 DEF BackoffEnds, sessionFrame, FeedInv, MainAndTask, DatabaseOutlivesTask
    <2> QED BY <2>1, <2>2
  <1>3. ~link /\ rows = NoRows /\ ~resynced /\ ~health.acknowledged
    BY <1>2, NoRowsInSession DEF FeedInv, Connection, InSession, Acknowledgement, TaskPhases
  <1>4. health' \in Health /\ health'.acknowledged = health.acknowledged
    BY <1>1 DEF FeedInv, Typed, Health
  <1>5. Typed' /\ MainAndTask' /\ Acknowledgement'
    BY <1>1, <1>2, <1>3, <1>4 DEF FeedInv, Typed, MainAndTask, TaskPhases, InSession,
        DatabaseOutlivesTask, Acknowledgement, AcknowledgedMeansDelivering
  <1>6. Connection' /\ NothingMissed' /\ RowsInFlight'
    BY <1>1, <1>2, <1>3 DEF FeedInv, Connection, NothingMissed, RowsInFlight
  <1>7. Frames' /\ Evaluation'
    BY <1>1, EvaluationUntouched DEF FeedInv, Frames
  <1> QED BY <1>5, <1>6, <1>7 DEF FeedInv

\* A connection opens and SUBSCRIBE is sent.
LEMMA ConnectKeeps ==
    ASSUME FeedInv, Connect
    PROVE  FeedInv'
  <1>1. /\ phase = "connecting" /\ phase' = "awaiting_ack" /\ link' = TRUE
        /\ delivering' = {} /\ wire' = <<>> /\ request' = "SUBSCRIBE"
        /\ health' = [health EXCEPT !.connected = TRUE]
        /\ UNCHANGED <<forming, main, stopping, streams, todo, rows, store, evaluated, resynced>>
    BY DEF Connect, sessionFrame, restVars, marketVars
  <1>2. /\ wire' \in Seq(Frame) /\ health' \in Health /\ health'.acknowledged = health.acknowledged
        /\ Len(wire') = 0
    BY <1>1, EmptySeq DEF FeedInv, Typed, Health
  <1>3. rows = NoRows /\ ~resynced /\ ~health.acknowledged
    BY <1>1, NoRowsInSession DEF FeedInv, Acknowledgement, TaskPhases
  <1>4. Typed' /\ MainAndTask' /\ Acknowledgement'
    BY <1>1, <1>2, <1>3 DEF FeedInv, Typed, MainAndTask, TaskPhases, InSession,
        DatabaseOutlivesTask, Acknowledgement, AcknowledgedMeansDelivering
  <1>5. Connection'
    BY <1>1, <1>2 DEF Connection, InSession
  <1>6. NothingMissed' /\ RowsInFlight'
    BY <1>1, <1>3 DEF FeedInv, NothingMissed, Reconciled, RowsInFlight
  <1>7. Frames' /\ Evaluation'
    BY <1>1, EvaluationUntouched, NoFrames DEF Frames
  <1> QED BY <1>4, <1>5, <1>6, <1>7 DEF FeedInv

-----------------------------------------------------------------------------
(* Steps that receive a frame *)

LEMMA Received ==
    ASSUME wire \in Seq(Frame), wire # <<>>, wire' = Tail(wire)
    PROVE  /\ wire' \in Seq(Frame) /\ wire[1] = Head(wire) /\ 1 \in 1..Len(wire)
           /\ \A k \in 1..Len(wire') : wire'[k] = wire[k + 1] /\ k + 1 \in 1..Len(wire)
           /\ \A t, i : InFlight(t, i) /\ Head(wire) # Kline(t, i, TRUE) => InFlight(t, i)'
  <1>1. /\ wire' \in Seq(Frame) /\ wire[1] = Head(wire) /\ Len(wire) \in Nat \ {0}
        /\ Len(wire') = Len(wire) - 1 /\ \A k \in 1..Len(wire') : wire'[k] = wire[k + 1]
    BY HeadTailProperties, LenProperties, EmptySeq
  <1>2. \A k \in 1..Len(wire) : k = 1 \/ (k - 1 \in 1..Len(wire') /\ wire'[k - 1] = wire[k])
    BY <1>1
  <1>3. \A t, i : InFlight(t, i) /\ Head(wire) # Kline(t, i, TRUE) => InFlight(t, i)'
    BY <1>1, <1>2 DEF InFlight
  <1>4. 1 \in 1..Len(wire) /\ \A k \in 1..Len(wire') : k + 1 \in 1..Len(wire)
    BY <1>1
  <1> QED BY <1>1, <1>3, <1>4

\* A control reply is received.  The list of a verified subscription is what the
\* connection delivers; no stream is reconciled yet.
LEMMA ControlReplyKeeps ==
    ASSUME FeedInv, ReceiveAck \/ ReceiveList
    PROVE  FeedInv'
  <1>1. /\ wire # <<>> /\ wire' = Tail(wire) /\ wire \in Seq(Frame) /\ streams \in Seq(Streams)
        /\ phase \in {"awaiting_ack", "awaiting_list"}
        /\ UNCHANGED <<forming, link, delivering, main, stopping, streams, rows, store, evaluated,
                       resynced>>
    BY DEF ReceiveAck, ReceiveList, Arrived, sessionFrame, restVars, marketVars, FeedInv, Typed
  <1>2. /\ wire' \in Seq(Frame) /\ wire[1] = Head(wire) /\ 1 \in 1..Len(wire)
        /\ \A k \in 1..Len(wire') : wire'[k] = wire[k + 1] /\ k + 1 \in 1..Len(wire)
    BY <1>1, Received
  <1>3. rows = NoRows /\ ~resynced /\ ~health.acknowledged /\ request # "SUBSCRIBE"
    BY <1>1, NoRowsInSession DEF FeedInv, Acknowledgement, TaskPhases, InSession, Connection
  <1>4. /\ request' # "SUBSCRIBE" /\ (~link => request' = "none")
        /\ todo' \in {todo, streams} /\ phase' \in {"awaiting_list", "receiving", "reconciling"}
        /\ (phase' = "reconciling" => todo' = streams)
        /\ health'.acknowledged <=> phase' \in {"receiving", "reconciling"}
        /\ health' \in Health
        /\ link /\ health'.acknowledged => delivering = Range(streams) /\ health'.active = delivering
    <2>1. CASE ReceiveAck
      BY <1>3, <2>1 DEF ReceiveAck, sessionFrame, restVars, FeedInv, Typed
    <2>2. CASE ReceiveList
      <3>1. /\ Head(wire).kind = "list" /\ Head(wire).active = Range(streams)
            /\ health' = [health EXCEPT !.acknowledged = TRUE, !.active = Head(wire).active]
        BY <2>2 DEF ReceiveList, Arrived, Verified
      <3>2. Range(streams) \subseteq Streams /\ health \in Health
        BY <1>1, StreamsInRange DEF FeedInv, Typed
      <3>3. /\ health' \in Health /\ health'.acknowledged = TRUE
            /\ health'.active = Range(streams)
        BY <3>1, <3>2 DEF Health
      <3>4. link => delivering = Range(streams)
        BY <1>2, <3>1 DEF FeedInv, Connection
      <3>5. /\ UNCHANGED request
            /\ \/ phase' = "receiving" /\ todo' = todo
               \/ phase' = "reconciling" /\ todo' = streams
        BY <2>2 DEF ReceiveList
      <3>6. request' # "SUBSCRIBE" /\ (~link => request' = "none")
        BY <1>3, <3>5 DEF FeedInv, Connection
      <3> QED BY <3>3, <3>4, <3>5, <3>6
    <2> QED BY <2>1, <2>2
  <1>5. Typed'
    BY <1>1, <1>2, <1>4 DEF FeedInv, Typed
  <1>6. MainAndTask' /\ Acknowledgement'
    BY <1>1, <1>3, <1>4 DEF FeedInv, MainAndTask, TaskPhases, InSession, DatabaseOutlivesTask,
        Acknowledgement, AcknowledgedMeansDelivering
  <1>7. Connection'
    BY <1>1, <1>2, <1>4 DEF FeedInv, Connection, InSession
  <1>8. RowsInFlight' /\ NothingMissed'
    BY <1>1, <1>3, <1>4 DEF FeedInv, RowsInFlight, NothingMissed, Reconciled
  <1>9. Frames'
    BY <1>1, FramesTail DEF FeedInv, Frames
  <1>10. Evaluation'
    BY <1>1, EvaluationUntouched
  <1> QED BY <1>5, <1>6, <1>7, <1>8, <1>9, <1>10 DEF FeedInv

\* A kline is handled.  What was held stays held: the closing frame makes its
\* candle final, and behind a late intrabar frame the closing one still comes.
LEMMA ProcessKeeps ==
    ASSUME FeedInv, ProcessMessage
    PROVE  FeedInv'
  <1> DEFINE f == Head(wire)
  <1>1. /\ KlineArrives /\ wire' = Tail(wire) /\ store' = AddFrame(f)
        /\ \/ evaluated' = evaluated /\ health' = health
           \/ Publishes(f) /\ evaluated' = Published(f) /\ health' = Recorded(f)
        /\ UNCHANGED <<forming, main, stopping, streams, todo, rows, link, request, delivering,
                       phase, resynced>>
    BY DEF ProcessMessage, sessionFrame, restVars
  <1>2. Evaluation' /\ FramesIn(Tail(wire), forming, evaluated', delivering, link)
    BY <1>1, AddFrameKeeps
  <1>3. /\ wire # <<>> /\ wire \in Seq(Frame) /\ wire[1] = f /\ IsKline(f)
        /\ f.stream \in Streams /\ f.open \in Index /\ f.closed \in BOOLEAN
        /\ phase \in {"awaiting_ack", "awaiting_list", "receiving"} /\ rows = NoRows
    BY <1>1, TheFrame
  <1>4. /\ wire' \in Seq(Frame) /\ 1 \in 1..Len(wire)
        /\ \A k \in 1..Len(wire') : wire'[k] = wire[k + 1] /\ k + 1 \in 1..Len(wire)
        /\ \A t, i : InFlight(t, i) /\ f # Kline(t, i, TRUE) => InFlight(t, i)'
    BY <1>1, <1>3, Received
  <1>5. /\ store'[f.stream][f.open] = IF f.closed THEN "final" ELSE "forming"
        /\ \A t \in Streams, j \in Index :
              t # f.stream \/ j # f.open => store'[t][j] = store[t][j]
    BY <1>1, AddFrameStores
  <1>6. health' \in Health /\ health'.acknowledged = health.acknowledged
        /\ health'.active = health.active
    <2>1. health \in Health /\ f.open \in 0..MaxCandle
      BY <1>3 DEF FeedInv, Typed, Index
    <2>2. /\ Recorded(f) \in Health /\ Recorded(f).acknowledged = health.acknowledged
          /\ Recorded(f).active = health.active
      BY <1>3, <2>1, HealthRecords DEF Recorded
    <2> QED BY <1>1, <2>1, <2>2
  <1> HIDE DEF f
  <1>7. Typed' /\ MainAndTask' /\ Acknowledgement' /\ RowsInFlight'
    BY <1>1, <1>3, <1>4, <1>6 DEF FeedInv, Typed, MainAndTask, DatabaseOutlivesTask, Acknowledgement,
        AcknowledgedMeansDelivering, RowsInFlight
  <1>8. Connection'
    BY <1>1, <1>3, <1>4 DEF FeedInv, Connection
  <1>9. Frames'
    BY <1>1, <1>2 DEF Frames
  <1>10. NothingMissed'
    <2> SUFFICES ASSUME link, NEW t \in Reconciled, NEW i \in Recent(t) PROVE Held(t, i)'
      BY <1>1, <1>3 DEF NothingMissed, Reconciled, Recent
    <2>1. Held(t, i) /\ t \in Streams /\ i \in Index /\ i < forming[t]
      BY ReconciledAreDelivered DEF FeedInv, NothingMissed, Typed, Recent
    <2>2. CASE f = Kline(t, i, TRUE)
      <3>1. f.stream = t /\ f.open = i /\ f.closed = TRUE
        BY <2>2 DEF Kline
      <3> QED BY <1>5, <3>1 DEF Held, IsClosed
    <2>3. CASE f # Kline(t, i, TRUE) /\ InFlight(t, i)
      BY <1>4, <2>3 DEF Held
    <2>4. CASE ~InFlight(t, i)
      <3>1. f.stream = t /\ f.open = i => f.closed
        <4> SUFFICES ASSUME f.stream = t, f.open = i, ~f.closed PROVE FALSE
          OBVIOUS
        <4>1. CloseFollows(wire, 1, forming)
          BY <1>3, <1>4 DEF FeedInv, Frames, FramesIn
        <4>2. PICK m \in (1 + 1)..Len(wire) : wire[m] = Kline(t, i, TRUE)
          BY <1>3, <2>1, <4>1 DEF CloseFollows
        <4>3. m \in 1..Len(wire)
          BY <1>4
        <4> QED BY <2>4, <4>2, <4>3 DEF InFlight
      <3>2. IsClosed(store[t][i])
        BY <2>1, <2>4 DEF Held
      <3>3. IsClosed(store'[t][i])
        BY <1>5, <2>1, <3>1, <3>2 DEF IsClosed
      <3> QED BY <3>3 DEF Held
    <2> QED BY <2>2, <2>3, <2>4
  <1> QED BY <1>2, <1>7, <1>8, <1>9, <1>10 DEF FeedInv

-----------------------------------------------------------------------------
(* Steps of a reconciliation *)

\* The exchange answers with the candle that is forming: from now on the frames
\* carry what closes.
LEMMA FetchKeeps ==
    ASSUME FeedInv, FetchRows
    PROVE  FeedInv'
  <1>1. /\ Reconciling /\ todo # <<>> /\ rows = NoRows /\ rows' = forming[Head(todo)]
        /\ UNCHANGED <<forming, link, request, delivering, wire, main, phase, stopping, streams,
                       todo, store, evaluated, resynced, health>>
    BY DEF FetchRows, connVars, marketVars
  <1>2. Head(todo) \in Streams /\ rows' \in Index
    BY <1>1, TailOfStreams DEF FeedInv, Typed
  <1>3. rows' \in 0..MaxCandle /\ rows' \in Int
    BY <1>2 DEF Index
  <1>4. Typed' /\ MainAndTask' /\ Acknowledgement' /\ Connection'
    BY <1>1, <1>3 DEF FeedInv, Typed, MainAndTask, DatabaseOutlivesTask, Acknowledgement,
        AcknowledgedMeansDelivering, Connection
  <1>5. RowsInFlight'
    <2>1. \A m \in 1..Len(evaluated[Head(todo)]) : evaluated[Head(todo)][m] < rows'
      BY <1>1, <1>2 DEF FeedInv, Evaluation, EvaluatedHaveClosed
    <2> QED BY <1>1, <1>3, <2>1 DEF FeedInv, RowsInFlight, Reconciling
  <1>6. NothingMissed'
    <2>1. \A i \in Index : ~(rows' <= i /\ i < forming[Head(todo)])
      BY <1>1, <1>3 DEF Index
    <2> QED BY <1>1, <2>1 DEF FeedInv, NothingMissed, Reconciled, Recent, Held, InFlight
  <1>7. Frames' /\ Evaluation'
    BY <1>1, EvaluationUntouched DEF FeedInv, Frames
  <1> QED BY <1>4, <1>5, <1>6, <1>7 DEF FeedInv

\* The rows are added: the stream is reconciled now.  Up to the rows its candles
\* are held closed, and those that closed since are in flight.
LEMMA ApplyKeeps ==
    ASSUME FeedInv, ApplyRows
    PROVE  FeedInv'
  <1> DEFINE s == Head(todo)
  <1>1. /\ Reconciling /\ rows # NoRows /\ AddRows(s, rows) /\ rows' = NoRows /\ todo' = Tail(todo)
        /\ health' = [health EXCEPT !.last_closed[s] = LastClosedRow(s, rows)]
        /\ UNCHANGED <<forming, link, request, delivering, wire, stopping, streams, evaluated>>
    BY DEF ApplyRows, connVars
  <1>2. /\ todo \in Seq(Streams) /\ todo # <<>> /\ rows \in Int /\ rows \in Index
        /\ forming \in [Streams -> Index] /\ health \in Health
    BY <1>1, BoundsAssumption DEF FeedInv, Typed, RowsInFlight, NoRows, Index
  <1>3. /\ Evaluation' /\ s \in Streams /\ \A t \in Streams : t # s => store'[t] = store[t]
        /\ \A i \in Recent(s) : i < rows => IsClosed(store'[s][i])
    <2>1. \A i \in Recent(s) : i < rows => i <= rows
      BY <1>2 DEF Recent, Index
    <2> QED BY <1>1, <1>2, <2>1, AddRowsKeep
  <1>4. /\ s \in Range(todo) /\ Tail(todo) \in Seq(Streams)
        /\ Range(Tail(todo)) \subseteq Range(todo) /\ Range(todo) \subseteq Range(Tail(todo)) \cup {s}
    BY <1>2, TailOfStreams
  <1>5. health' \in Health /\ health'.acknowledged = health.acknowledged
        /\ health'.active = health.active
    <2>1. LastClosedRow(s, rows) \in 0..MaxCandle
      <3>1. \A n \in RowsFrom(rows) : n \in 0..MaxCandle
        BY BoundsAssumption DEF RowsFrom, Index
      <3>2. rows \in 0..MaxCandle /\ health.last_closed[s] \in 0..MaxCandle
        BY <1>2, <1>3 DEF Index, Health
      <3> QED BY <3>1, <3>2 DEF LastClosedRow
    <2> QED BY <1>1, <1>2, <1>3, <2>1, HealthRecords
  <1>6. \/ /\ main = "booting" /\ phase = "idle" /\ ~link /\ ~health.acknowledged
           /\ ~resynced /\ resynced' = resynced
           /\ \/ main' = main /\ phase' = phase
              \/ main' = "waiting" /\ phase' = "connecting"
        \/ /\ main # "booting" /\ phase = "reconciling" /\ main' = main /\ ~resynced
           /\ \/ phase' = phase /\ resynced' = resynced
              \/ phase' = "receiving" /\ Tail(todo) = <<>> /\ resynced' = TRUE
    <2>1. main = "booting" => phase = "idle" /\ ~link
      BY DEF FeedInv, MainAndTask, Connection, InSession
    <2>2. main # "booting" => phase = "reconciling"
      BY <1>1 DEF Reconciling
    <2>3. phase # "receiving" => ~resynced /\ (phase = "idle" => ~health.acknowledged)
      BY DEF FeedInv, Acknowledgement
    <2>4. CASE Tail(todo) # <<>>
      <3>1. UNCHANGED <<main, phase, resynced>>
        BY <2>4 DEF ApplyRows
      <3> QED BY <2>1, <2>2, <2>3, <3>1
    <2>5. CASE Tail(todo) = <<>> /\ main = "booting"
      <3>1. main' = "waiting" /\ phase' = "connecting" /\ UNCHANGED resynced
        BY <2>5 DEF ApplyRows
      <3> QED BY <2>1, <2>3, <2>5, <3>1
    <2>6. CASE Tail(todo) = <<>> /\ main # "booting"
      <3>1. main' = main /\ phase' = "receiving" /\ resynced' = TRUE
        BY <2>6 DEF ApplyRows
      <3> QED BY <2>2, <2>3, <2>6, <3>1
    <2> QED BY <2>4, <2>5, <2>6
  <1> HIDE DEF s
  <1>7. Typed'
    <2>1. rows' \in 0..MaxCandle
      BY <1>1, BoundsAssumption DEF NoRows
    <2>2. resynced' \in BOOLEAN
      <3>1. resynced \in BOOLEAN /\ (resynced' = resynced \/ resynced' = TRUE)
        BY <1>6 DEF FeedInv, Typed
      <3> QED BY <3>1
    <2> QED BY <1>1, <1>4, <1>5, <2>1, <2>2 DEF FeedInv, Typed
  <1>8. MainAndTask' /\ Acknowledgement'
    BY <1>1, <1>5, <1>6 DEF FeedInv, MainAndTask, TaskPhases, InSession, DatabaseOutlivesTask,
        Acknowledgement, AcknowledgedMeansDelivering
  <1>9. Connection' /\ RowsInFlight'
    BY <1>1, <1>4, <1>6 DEF FeedInv, Connection, RowsInFlight, InSession
  <1>10. Frames'
    BY <1>1 DEF FeedInv, Frames
  <1>11. NothingMissed'
    <2> SUFFICES ASSUME link, NEW t \in Reconciled', NEW i \in Recent(t) PROVE Held(t, i)'
      BY <1>1 DEF NothingMissed, Recent
    <2>1. phase = "reconciling" /\ Reconciled = Range(streams) \ Range(todo)
      BY <1>6 DEF Reconciled
    <2>2. t = s \/ t \in Reconciled
      BY <1>1, <1>4, <1>6, <2>1, NothingToReconcile DEF Reconciled
    <2>3. CASE t = s
      <3>1. i < rows => IsClosed(store'[t][i])
        BY <1>3, <2>3
      <3>2. ASSUME ~(i < rows) PROVE InFlight(t, i)
        <4>1. i \in Index /\ rows <= i /\ i < forming[t]
          BY <1>2, <3>2 DEF Recent, Index
        <4> QED BY <1>1, <2>1, <2>3, <4>1 DEF FeedInv, NothingMissed, s
      <3> QED BY <1>1, <3>1, <3>2 DEF Held, InFlight
    <2>4. CASE t # s /\ t \in Reconciled
      <3>1. Held(t, i) /\ t \in Streams
        BY <2>4, ReconciledAreDelivered DEF FeedInv, NothingMissed, Typed
      <3>2. store'[t] = store[t]
        BY <1>3, <2>4, <3>1
      <3> QED BY <1>1, <3>1, <3>2 DEF Held, InFlight
    <2> QED BY <2>2, <2>3, <2>4
  <1> QED BY <1>3, <1>7, <1>8, <1>9, <1>10, <1>11 DEF FeedInv

-----------------------------------------------------------------------------
(* The invariant, and what follows from it *)

LEMMA FeedNext == FeedInv /\ [Next]_vars => FeedInv'
  <1> SUFFICES ASSUME FeedInv, [Next]_vars PROVE FeedInv'
    OBVIOUS
  <1>1. CASE Exchange
    BY <1>1, CandleClosesKeeps, TicksKeep, ReplyKeeps, DropKeeps DEF Exchange
  <1>2. CASE Rest
    BY <1>2, ValidateKeeps, FetchKeeps, ApplyKeeps, RestFailsKeeps DEF Rest
  <1>3. CASE Session
    BY <1>3, ConnectKeeps, ControlReplyKeeps, SessionFailsKeeps, ProcessKeeps, HandlerRaisesKeeps,
       QuietStepsKeep DEF Session
  <1>4. CASE RequestShutdown \/ MainExits
    BY <1>4, ShutdownKeeps, QuietStepsKeep
  <1>5. CASE UNCHANGED vars
    <2>1. UNCHANGED <<forming, link, request, delivering, wire, main, phase, stopping, streams, todo,
                      rows, store, evaluated, resynced, health>>
      BY <1>5 DEF vars, connVars, engineVars, restVars, marketVars
    <2>2. Typed' /\ MainAndTask' /\ Connection' /\ Acknowledgement'
      BY <2>1 DEF FeedInv, Typed, MainAndTask, DatabaseOutlivesTask, Connection, Acknowledgement,
                  AcknowledgedMeansDelivering
    <2>3. RowsInFlight' /\ Frames' /\ NothingMissed'
      BY <2>1 DEF FeedInv, RowsInFlight, Reconciling, Frames, NothingMissed, Reconciled, Recent, Held,
                  InFlight
    <2>4. Evaluation'
      BY <2>1, EvaluationUntouched
    <2> QED BY <2>2, <2>3, <2>4 DEF FeedInv
  <1> QED BY <1>1, <1>2, <1>3, <1>4, <1>5 DEF Next, Terminated

LEMMA FeedInvariant == Spec => []FeedInv
  BY FeedInit, FeedNext, PTL DEF Spec

\* A session that was reconciled after its subscription was verified misses no
\* candle that closes before, during or after the REST requests.  (run, after
\* the first connection; main.run's reconcile and add_candle.)
THEOREM SessionHasNoGap == Spec => []ReconciledSessionHasNoGap
  <1>1. FeedInv => ReconciledSessionHasNoGap
    BY DEF FeedInv, NothingMissed, Reconciled, Held, ReconciledSessionHasNoGap, GapFree
  <1> QED BY <1>1, FeedInvariant, PTL

\* The strategy is given the closed candles of a stream in order of open time and
\* each at most once.  (process_message publishes a candle that was not closed.)
THEOREM EvaluationInOrder == Spec => []EvaluatedOnceInOrder
  <1>1. FeedInv => EvaluatedOnceInOrder
    BY DEF FeedInv, Evaluation
  <1> QED BY <1>1, FeedInvariant, PTL

\* A candle the strategy was given as closed stays final in the store: no late
\* frame and no REST row puts an unfinished version back.  (CandleStore.add_candle
\* replaces whatever it holds.)
THEOREM EvaluationIsFinal == Spec => []EvaluatedStaysFinal
  <1>1. FeedInv => EvaluatedStaysFinal
    BY DEF FeedInv, Evaluation
  <1> QED BY <1>1, FeedInvariant, PTL

\* While the connection is up, an acknowledged subscription names the streams the
\* exchange delivers, and they are those configured.  (_subscribe, and the finally
\* block of run, which clears the flags.)
THEOREM AcknowledgedIsDelivered == Spec => []AcknowledgedMeansDelivering
  <1>1. FeedInv => AcknowledgedMeansDelivering
    BY DEF FeedInv, Acknowledgement
  <1> QED BY <1>1, FeedInvariant, PTL

\* main closes the database only when the task can no longer use it.  (main.run
\* awaits the task before its finally block.)
THEOREM DatabaseIsClosedLast == Spec => []DatabaseOutlivesTask
  <1>1. FeedInv => DatabaseOutlivesTask
    BY DEF FeedInv, MainAndTask
  <1> QED BY <1>1, FeedInvariant, PTL
=============================================================================
