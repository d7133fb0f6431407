----------------------- MODULE SignalDelivery_proofs -----------------------
(***************************************************************************)
(* Theorems about SignalDelivery, for any signals, providers, number of    *)
(* attempts and restarts: alerts are bounded over all runs, the table      *)
(* notifications tells what happened, and no provider is left out.         *)
(***************************************************************************)
EXTENDS SignalDelivery, SequenceTheorems, TLAPS

Row == [signal : Signals, position : Positions, success : BOOLEAN, attempts : Nat]

Typed ==
    /\ process \in {"up", "joining", "down"}
    /\ phase \in {"idle", "sending", "waiting", "dead"}
    /\ calls \in Seq(Signals) /\ stored \subseteq Signals /\ accepted \in BOOLEAN
    /\ rows \in Seq(Row)
    /\ delivered \in [Signals \X Positions -> Nat]

\* The dispatch under way is of a stored signal; without one there is no signal.
DispatchTyped ==
    IF Dispatching
    THEN /\ process # "down" /\ current \in stored /\ position \in Positions
         /\ attempt \in 1..MaxAttempts /\ (phase = "waiting" => attempt < MaxAttempts)
    ELSE current = NoSignal

\* The channel of the provider at hand got at most one message per attempt, and
\* the providers after it none.
CursorBound ==
    Dispatching =>
        /\ delivered[<<current, position>>] <= attempt
        /\ phase = "sending" /\ ~accepted => delivered[<<current, position>>] < attempt
        /\ phase = "sending" /\ accepted => delivered[<<current, position>>] > 0
        /\ \A i \in Positions : i > position => delivered[<<current, i>>] = 0

\* Nothing is sent and nothing recorded for a signal that is not stored.
OnlyStored ==
    /\ \A s \in Signals \ stored : \A i \in Positions : delivered[<<s, i>>] = 0
    /\ \A j \in 1..Len(rows) : rows[j].signal \in stored

HasRow(s, i) == \E j \in 1..Len(rows) : rows[j].signal = s /\ rows[j].position = i

\* The providers before the one at hand have their row, it and the later ones not.
CursorRows ==
    Dispatching =>
        \A i \in Positions : HasRow(current, i) <=> i < position

\* A signal whose dispatch was not cut off is with every provider, or under way.
TriedOrUnderWay ==
    \A s \in stored \ (observed \cup aborted) :
        ~(Dispatching /\ current = s) => \A i \in Positions : HasRow(s, i)

DeliveryInv ==
    /\ Typed /\ DispatchTyped /\ CursorBound /\ OnlyStored /\ CursorRows
    /\ AlertsAreBounded /\ RowsTellTheTruth /\ TriedOrUnderWay

-----------------------------------------------------------------------------
(* Lemmas *)

LEMMA PositionsAreNumbers ==
    /\ Len(Providers) \in Nat /\ MaxAttempts \in Nat \ {0}
    /\ Positions = 1..Len(Providers)
    /\ Providers = <<>> <=> Len(Providers) = 0
  BY DeliveryAssumption, EmptySeq DEF Positions

LEMMA DeliveryInit == Init => DeliveryInv
  <1> SUFFICES ASSUME Init PROVE DeliveryInv
    OBVIOUS
  <1>1. Typed
    <2>1. calls \in Seq(Signals) /\ rows \in Seq(Row)
      BY EmptySeq DEF Init
    <2>2. delivered \in [Signals \X Positions -> Nat]
      BY DEF Init
    <2> QED BY <2>1, <2>2 DEF Init, Typed
  <1>2. DispatchTyped /\ CursorBound /\ OnlyStored /\ CursorRows /\ TriedOrUnderWay
    BY DEF Init, DispatchTyped, CursorBound, OnlyStored, CursorRows, TriedOrUnderWay, Dispatching
  <1>3. AlertsAreBounded /\ RowsTellTheTruth
    BY PositionsAreNumbers DEF Init, AlertsAreBounded, RowsTellTheTruth
  <1> QED BY <1>1, <1>2, <1>3 DEF DeliveryInv

\* The task is given up or comes to rest: no dispatch is under way any more, and
\* the signal of one that was is counted as cut off.
LEMMA TaskRests ==
    ASSUME DeliveryInv, UNCHANGED <<stored, rows, delivered, observed>>,
           process' \in {"up", "joining", "down"}, calls' \in Seq(Signals),
           phase' \in {"idle", "dead"}, Rest(phase'),
           aborted' = IF Dispatching THEN aborted \cup {current} ELSE aborted
    PROVE  DeliveryInv'
  <1>1. Typed'
    BY DEF DeliveryInv, Typed, Rest
  <1>2. ~Dispatching' /\ current' = NoSignal
    BY DEF Dispatching, Rest
  <1>3. DispatchTyped' /\ CursorBound' /\ CursorRows'
    BY <1>2 DEF DispatchTyped, CursorBound, CursorRows
  <1>4. OnlyStored' /\ AlertsAreBounded' /\ RowsTellTheTruth'
    BY DEF DeliveryInv, OnlyStored, AlertsAreBounded, RowsTellTheTruth
  <1>5. TriedOrUnderWay'
    BY DEF DeliveryInv, TriedOrUnderWay, HasRow
  <1> QED BY <1>1, <1>3, <1>4, <1>5 DEF DeliveryInv

\* Steps that leave the tables, the channels and the dispatch alone.
LEMMA DispatchUntouched ==
    ASSUME DeliveryInv, UNCHANGED <<taskVars, stored, rows, delivered, observed, aborted>>,
           process' \in {"up", "joining", "down"}, process' = "down" => ~Dispatching,
           calls' \in Seq(Signals)
    PROVE  DeliveryInv'
  <1>1. Dispatching' = Dispatching /\ UNCHANGED <<phase, current, position, attempt, accepted>>
    BY DEF Dispatching, taskVars
  <1>2. Typed' /\ DispatchTyped'
    BY <1>1 DEF DeliveryInv, Typed, DispatchTyped
  <1>3. CursorBound' /\ OnlyStored' /\ CursorRows' /\ TriedOrUnderWay'
    BY <1>1 DEF DeliveryInv, CursorBound, OnlyStored, CursorRows, TriedOrUnderWay, HasRow
  <1>4. AlertsAreBounded' /\ RowsTellTheTruth'
    BY DEF DeliveryInv, AlertsAreBounded, RowsTellTheTruth
  <1> QED BY <1>2, <1>3, <1>4 DEF DeliveryInv

\* A signal is stored once; the dispatch of a new one starts with no message and
\* no row of it anywhere.
LEMMA PersistKeeps ==
    ASSUME DeliveryInv, PersistSignal
    PROVE  DeliveryInv'
  <1> DEFINE s == Head(calls)
  <1>1. /\ ~Dispatching /\ phase = "idle" /\ process # "down" /\ calls # <<>>
        /\ stored' = stored \cup {s} /\ calls' = Tail(calls)
        /\ UNCHANGED <<process, rows, delivered, aborted>>
    BY DEF PersistSignal, Handing, Dispatching, outside
  <1>2. s \in Signals /\ calls' \in Seq(Signals)
    BY <1>1, HeadTailProperties DEF DeliveryInv, Typed
  <1>3. OnlyStored' /\ AlertsAreBounded' /\ RowsTellTheTruth'
    BY <1>1, <1>2 DEF DeliveryInv, OnlyStored, AlertsAreBounded, RowsTellTheTruth
  <1>4. CASE UNCHANGED taskVars /\ (s \notin stored => s \in observed' \/ Positions = {})
             /\ observed \subseteq observed'
    <2>1. Typed' /\ DispatchTyped' /\ ~Dispatching'
      BY <1>1, <1>2, <1>4 DEF DeliveryInv, Typed, DispatchTyped, taskVars, Dispatching
    <2>2. CursorBound' /\ CursorRows'
      BY <2>1 DEF CursorBound, CursorRows
    <2>3. TriedOrUnderWay'
      BY <1>1, <1>4 DEF DeliveryInv, TriedOrUnderWay, HasRow
    <2> QED BY <1>3, <2>1, <2>2, <2>3 DEF DeliveryInv
  <1>5. CASE s \notin stored /\ Providers # <<>> /\ FirstAttempt(s, 1) /\ observed' = observed
    <2>1. /\ phase' = "sending" /\ current' = s /\ position' = 1 /\ attempt' = 1
          /\ accepted' = FALSE /\ 1 \in Positions /\ Dispatching'
      BY <1>5, PositionsAreNumbers DEF FirstAttempt, Dispatching
    <2>2. /\ \A i \in Positions : delivered[<<s, i>>] = 0
          /\ \A j \in 1..Len(rows) : rows[j].signal # s
      BY <1>2, <1>5 DEF DeliveryInv, OnlyStored
    <2>3. Typed'
      BY <1>1, <1>2, <2>1 DEF DeliveryInv, Typed
    <2>7. DispatchTyped'
      BY <1>1, <2>1, PositionsAreNumbers DEF DispatchTyped
    <2>4. CursorBound'
      BY <1>1, <2>1, <2>2 DEF CursorBound
    <2>5. CursorRows'
      BY <1>1, <2>1, <2>2, PositionsAreNumbers DEF CursorRows, HasRow
    <2>6. TriedOrUnderWay'
      BY <1>1, <1>5, <2>1 DEF DeliveryInv, TriedOrUnderWay, HasRow
    <2> QED BY <1>3, <2>3, <2>4, <2>5, <2>6, <2>7 DEF DeliveryInv
  <1> QED BY <1>4, <1>5, PositionsAreNumbers DEF PersistSignal, Dispatch

\* The channel takes the one message of this attempt.
LEMMA ChannelAcceptsKeeps ==
    ASSUME DeliveryInv, ChannelAccepts
    PROVE  DeliveryInv'
  <1>1. /\ phase = "sending" /\ ~accepted /\ accepted' = TRUE /\ Dispatching /\ Dispatching'
        /\ UNCHANGED <<process, calls, phase, current, position, attempt, stored, rows, observed, aborted>>
    BY DEF ChannelAccepts, outside, Dispatching
  <1>2. /\ current \in Signals /\ current \in stored /\ position \in Positions
        /\ attempt \in 1..MaxAttempts /\ process # "down"
        /\ <<current, position>> \in Signals \X Positions
    BY <1>1 DEF DeliveryInv, Typed, DispatchTyped
  <1>3. /\ delivered' \in [Signals \X Positions -> Nat]
        /\ delivered'[<<current, position>>] = delivered[<<current, position>>] + 1
        /\ \A t \in Signals, i \in Positions :
               t # current \/ i # position => delivered'[<<t, i>>] = delivered[<<t, i>>]
        /\ delivered[<<current, position>>] < attempt
    BY <1>1, <1>2 DEF ChannelAccepts, DeliveryInv, Typed, CursorBound
  <1>4. Typed' /\ DispatchTyped'
    BY <1>1, <1>2, <1>3 DEF DeliveryInv, Typed, DispatchTyped
  <1>5. delivered[<<current, position>>] \in Nat /\ delivered'[<<current, position>>] \in Nat
    BY <1>2, <1>3 DEF DeliveryInv, Typed
  <1>6. CursorBound'
    BY <1>1, <1>2, <1>3, <1>5, PositionsAreNumbers DEF DeliveryInv, CursorBound
  <1>7. OnlyStored'
    BY <1>1, <1>2, <1>3 DEF DeliveryInv, OnlyStored
  <1>8. CursorRows' /\ TriedOrUnderWay'
    BY <1>1 DEF DeliveryInv, CursorRows, TriedOrUnderWay, HasRow
  <1>9. AlertsAreBounded'
    <2> SUFFICES ASSUME NEW t \in Signals, NEW i \in Positions
                 PROVE  delivered'[<<t, i>>] <= MaxAttempts
      BY DEF AlertsAreBounded
    <2>1. CASE t = current /\ i = position
      BY <1>2, <1>3, <1>5, <2>1, PositionsAreNumbers
    <2>2. CASE t # current \/ i # position
      BY <1>3, <2>2 DEF DeliveryInv, AlertsAreBounded
    <2> QED BY <2>1, <2>2
  <1>10. RowsTellTheTruth'
    <2>1. ASSUME NEW j \in 1..Len(rows), rows[j].success
          PROVE  delivered'[<<rows[j].signal, rows[j].position>>] > 0
      <3>1. rows[j] \in Row
        BY ElementOfSeq DEF DeliveryInv, Typed
      <3>2. rows[j].signal \in Signals /\ rows[j].position \in Positions
        BY <3>1 DEF Row
      <3>3. delivered[<<rows[j].signal, rows[j].position>>] > 0
        BY <2>1 DEF DeliveryInv, RowsTellTheTruth
      <3> QED BY <1>3, <1>5, <3>2, <3>3
    <2> QED BY <1>1, <2>1 DEF DeliveryInv, RowsTellTheTruth
  <1> QED BY <1>4, <1>6, <1>7, <1>8, <1>9, <1>10 DEF DeliveryInv

\* The failed attempt is followed by a delay, or the delay by a new attempt.
LEMMA RetryKeeps ==
    ASSUME DeliveryInv, Dispatching,
           UNCHANGED <<process, calls, current, position, stored, rows, delivered, observed, aborted>>,
           \/ phase = "sending" /\ phase' = "waiting" /\ attempt < MaxAttempts
              /\ UNCHANGED <<attempt, accepted>>
           \/ phase = "waiting" /\ phase' = "sending" /\ attempt' = attempt + 1
              /\ accepted' = FALSE
    PROVE  DeliveryInv'
  <1>1. Dispatching' /\ position \in Positions /\ attempt \in 1..MaxAttempts
        /\ current \in Signals
    BY DEF Dispatching, DeliveryInv, DispatchTyped, Typed
  <1>2. Typed'
    BY DEF DeliveryInv, Typed
  <1>3. DispatchTyped'
    BY <1>1, PositionsAreNumbers DEF DeliveryInv, DispatchTyped
  <1>4. CursorBound'
    <2>1. delivered[<<current, position>>] \in Nat
      BY <1>1 DEF DeliveryInv, Typed
    <2> QED BY <1>1, <2>1, PositionsAreNumbers DEF DeliveryInv, CursorBound
  <1>5. OnlyStored' /\ CursorRows' /\ TriedOrUnderWay'
    BY <1>1 DEF DeliveryInv, OnlyStored, CursorRows, TriedOrUnderWay, HasRow
  <1>6. AlertsAreBounded' /\ RowsTellTheTruth'
    BY DEF DeliveryInv, AlertsAreBounded, RowsTellTheTruth
  <1> QED BY <1>2, <1>3, <1>4, <1>5, <1>6 DEF DeliveryInv

\* A row is added for the provider at hand, which had none: the rows stay true
\* and the signal now has one with every provider up to this one.
LEMMA RowAdded ==
    ASSUME DeliveryInv, phase = "sending", NEW success \in BOOLEAN,
           success => accepted, ~success => attempt = MaxAttempts,
           rows' = Append(rows, [signal |-> current, position |-> position,
                                 success |-> success, attempts |-> attempt]),
           UNCHANGED <<stored, delivered>>
    PROVE  /\ rows' \in Seq(Row) /\ RowsTellTheTruth' /\ OnlyStored'
           /\ \A t, i : HasRow(t, i)' <=> HasRow(t, i) \/ (t = current /\ i = position)
  <1> DEFINE r == [signal |-> current, position |-> position,
                   success |-> success, attempts |-> attempt]
             n == Len(rows)
  <1>1. /\ Dispatching /\ current \in stored /\ current \in Signals /\ position \in Positions
        /\ attempt \in Nat
    BY PositionsAreNumbers DEF Dispatching, DeliveryInv, Typed, DispatchTyped
  <1>2. r \in Row /\ rows \in Seq(Row) /\ n \in Nat
    BY <1>1, LenProperties DEF Row, DeliveryInv, Typed
  <1>3. /\ rows' \in Seq(Row) /\ Len(rows') = n + 1 /\ rows'[n + 1] = r
        /\ \A j \in 1..n : rows'[j] = rows[j]
    BY <1>2, AppendProperties
  <1>4. \A j \in 1..Len(rows') : j \in 1..n \/ j = n + 1
    BY <1>2, <1>3
  <1>5. 1..n \subseteq 1..Len(rows') /\ n + 1 \in 1..Len(rows') /\ n + 1 \notin 1..n
    BY <1>2, <1>3
  <1>6. \A j \in 1..n : ~(rows[j].signal = current /\ rows[j].position = position)
    <2>1. ~HasRow(current, position)
      BY <1>1, PositionsAreNumbers DEF DeliveryInv, CursorRows
    <2> QED BY <2>1 DEF HasRow
  <1>7. RowsTellTheTruth'
    <2>1. ASSUME NEW j \in 1..n
          PROVE  /\ rows'[j].success => delivered'[<<rows'[j].signal, rows'[j].position>>] > 0
                 /\ ~rows'[j].success => rows'[j].attempts = MaxAttempts
      BY <1>3 DEF DeliveryInv, RowsTellTheTruth
    <2>2. /\ r.success => delivered'[<<r.signal, r.position>>] > 0
          /\ ~r.success => r.attempts = MaxAttempts
      BY <1>1 DEF DeliveryInv, CursorBound
    <2>3. \A j, k \in 1..n : rows[j].signal = rows[k].signal /\ rows[j].position = rows[k].position
                                  => j = k
      BY DEF DeliveryInv, RowsTellTheTruth
    <2>4. \A j, k \in 1..Len(rows') :
             rows'[j].signal = rows'[k].signal /\ rows'[j].position = rows'[k].position => j = k
      BY <1>3, <1>4, <1>6, <2>3
    <2>5. ASSUME NEW j \in 1..Len(rows')
          PROVE  /\ rows'[j].success => delivered'[<<rows'[j].signal, rows'[j].position>>] > 0
                 /\ ~rows'[j].success => rows'[j].attempts = MaxAttempts
      <3>1. CASE j \in 1..n
        BY <2>1, <3>1
      <3>2. CASE j = n + 1
        BY <1>3, <2>2, <3>2
      <3> QED BY <1>4, <3>1, <3>2
    <2> HIDE DEF n
    <2> QED BY <2>4, <2>5 DEF RowsTellTheTruth
  <1>8. OnlyStored'
    BY <1>1, <1>3, <1>4 DEF DeliveryInv, OnlyStored
  <1>9. \A t, i : HasRow(t, i)' <=> HasRow(t, i) \/ (t = current /\ i = position)
    BY <1>3, <1>4, <1>5 DEF HasRow
  <1> QED BY <1>3, <1>7, <1>8, <1>9

\* A provider is done with: its row is saved and the next one is tried, or SQLite
\* fails and the task ends.
LEMMA SettleKeeps ==
    ASSUME DeliveryInv, phase = "sending", NEW success \in BOOLEAN, Settle(success),
           success => accepted, ~success => attempt = MaxAttempts,
           UNCHANGED <<process, stored, delivered, observed>>
    PROVE  DeliveryInv'
  <1>1. /\ Dispatching /\ current \in stored /\ current \in Signals /\ position \in Positions
        /\ process # "down"
    BY DEF Dispatching, DeliveryInv, Typed, DispatchTyped
  <1>2. CASE rows' = rows /\ TaskDies /\ aborted' = aborted \cup {current}
    <2>1. Rest("dead") /\ calls' \in Seq(Signals) /\ phase' = "dead"
      BY <1>2, EmptySeq DEF TaskDies, Rest
    <2> QED BY <1>1, <1>2, <2>1, TaskRests DEF DeliveryInv, Typed
  <1>3. CASE /\ rows' = Append(rows, [signal |-> current, position |-> position,
                                      success |-> success, attempts |-> attempt])
             /\ NextProvider /\ UNCHANGED <<calls, aborted>>
    <2>1. /\ rows' \in Seq(Row) /\ RowsTellTheTruth' /\ OnlyStored'
          /\ \A t, i : HasRow(t, i)' <=> HasRow(t, i) \/ (t = current /\ i = position)
      BY <1>3, RowAdded
    <2>2. AlertsAreBounded'
      BY DEF DeliveryInv, AlertsAreBounded
    <2>3. CASE position < Len(Providers) /\ FirstAttempt(current, position + 1)
      <3>1. /\ phase' = "sending" /\ current' = current /\ position' = position + 1
            /\ attempt' = 1 /\ accepted' = FALSE /\ Dispatching' /\ position' \in Positions
        BY <1>1, <2>3, PositionsAreNumbers DEF FirstAttempt, Dispatching
      <3>2. Typed'
        BY <1>3, <2>1, <3>1 DEF DeliveryInv, Typed
      <3>3. DispatchTyped'
        BY <1>1, <3>1, PositionsAreNumbers DEF DispatchTyped
      <3>4. CursorBound'
        BY <1>1, <3>1, PositionsAreNumbers DEF DeliveryInv, CursorBound
      <3>5. CursorRows'
        BY <1>1, <2>1, <3>1, PositionsAreNumbers DEF DeliveryInv, CursorRows
      <3>6. TriedOrUnderWay'
        BY <1>1, <1>3, <2>1, <3>1 DEF DeliveryInv, TriedOrUnderWay
      <3> QED BY <2>1, <2>2, <3>2, <3>3, <3>4, <3>5, <3>6 DEF DeliveryInv
    <2>4. CASE ~(position < Len(Providers)) /\ Rest("idle")
      <3>1. phase' = "idle" /\ current' = NoSignal /\ ~Dispatching' /\ accepted' = FALSE
        BY <2>4 DEF Rest, Dispatching
      <3>2. Typed' /\ DispatchTyped' /\ CursorBound' /\ CursorRows'
        BY <1>3, <2>1, <3>1 DEF DeliveryInv, Typed, DispatchTyped, CursorBound, CursorRows
      <3>3. \A t \in stored, i \in Positions : t = current => HasRow(t, i)'
        <4> SUFFICES ASSUME NEW t \in stored, NEW i \in Positions, t = current
                     PROVE  HasRow(t, i)'
          OBVIOUS
        <4>1. i < position \/ i = position
          BY <1>1, <2>4, PositionsAreNumbers
        <4>2. HasRow(t, i) <=> i < position
          BY <1>1 DEF DeliveryInv, CursorRows
        <4> QED BY <2>1, <4>1, <4>2
      <3>4. TriedOrUnderWay'
        <4> SUFFICES ASSUME NEW t \in stored \ (observed \cup aborted), NEW i \in Positions
                     PROVE  HasRow(t, i)'
          BY <1>3 DEF TriedOrUnderWay
        <4>1. CASE t = current
          BY <3>3, <4>1
        <4>2. CASE t # current
          BY <2>1, <4>2 DEF DeliveryInv, TriedOrUnderWay
        <4> QED BY <4>1, <4>2
      <3> QED BY <2>1, <2>2, <3>2, <3>4 DEF DeliveryInv
    <2> QED BY <1>3, <2>3, <2>4 DEF NextProvider
  <1> QED BY <1>2, <1>3 DEF Settle

\* Every step of the process, the task and the channels.
LEMMA DeliveryNext ==
    ASSUME DeliveryInv, [Next]_vars
    PROVE  DeliveryInv'
  <1>0. process \in {"up", "joining", "down"} /\ calls \in Seq(Signals)
        /\ (Dispatching => attempt \in 1..MaxAttempts)
        /\ phase \in {"idle", "sending", "waiting", "dead"}
    BY DEF DeliveryInv, Typed, DispatchTyped
  <1>1. CASE CandleClosed
    <2>1. calls' \in Seq(Signals)
      <3>1. \A s \in Signals : <<s>> \in Seq(Signals)
        OBVIOUS
      <3>2. \A p \in Signals \X Signals : <<p[1], p[2]>> \in Seq(Signals)
        OBVIOUS
      <3> QED BY <1>1, <3>1, <3>2 DEF CandleClosed
    <2> QED BY <1>0, <1>1, <2>1, DispatchUntouched DEF CandleClosed, outside
  <1>2. CASE PersistSignal
    BY <1>2, PersistKeeps
  <1>3. CASE PersistFails
    <2>1. Rest("dead") /\ phase' = "dead" /\ calls' \in Seq(Signals) /\ ~Dispatching
      BY <1>3, EmptySeq DEF PersistFails, TaskDies, Rest, Handing, Dispatching
    <2> QED BY <1>0, <1>3, <2>1, TaskRests DEF PersistFails, outside
  <1>4. CASE ChannelAccepts
    BY <1>4, ChannelAcceptsKeeps
  <1>5. CASE SendSucceeds
    BY <1>5, SettleKeeps DEF SendSucceeds, outside
  <1>6. CASE SendFails
    <2>1. CASE Retry
      BY <1>6, <2>1, RetryKeeps DEF SendFails, outside, Dispatching, Retry
    <2>2. CASE ~Retry
      <3>1. phase = "sending" /\ Settle(FALSE) /\ UNCHANGED <<process, stored, delivered, observed>>
        BY <1>6, <2>2 DEF SendFails, outside
      <3>2. attempt = MaxAttempts
        BY <1>0, <2>2, <3>1, PositionsAreNumbers DEF Retry, Dispatching
      <3> QED BY <3>1, <3>2, SettleKeeps
    <2> QED BY <2>1, <2>2
  <1>7. CASE DelayEnds
    BY <1>7, RetryKeeps DEF DelayEnds, outside, Dispatching
  <1>8. CASE RequestShutdown
    BY <1>0, <1>8, DispatchUntouched DEF RequestShutdown
  <1>9. CASE JoinEnds
    <2>1. Rest("idle") /\ phase' = "idle" /\ ~Dispatching
      BY <1>9 DEF JoinEnds, Rest
    <2> QED BY <1>0, <1>9, <2>1, TaskRests DEF JoinEnds
  <1>10. CASE Kill
    <2>1. Rest("idle") /\ phase' = "idle" /\ calls' \in Seq(Signals)
      BY <1>10, EmptySeq DEF Kill, Rest
    <2> QED BY <1>10, <2>1, TaskRests DEF Kill
  <1>11. CASE Start
    BY <1>0, <1>11, DispatchUntouched DEF Start
  <1>12. CASE UNCHANGED vars
    <2>1. process = "down" => ~Dispatching
      BY DEF DeliveryInv, DispatchTyped
    <2> QED BY <1>0, <1>12, <2>1, DispatchUntouched DEF vars
  <1> QED BY <1>1, <1>2, <1>3, <1>4, <1>5, <1>6, <1>7, <1>8, <1>9, <1>10, <1>11, <1>12
          DEF Next, Over

LEMMA DeliveryInvariant == Spec => []DeliveryInv
  BY DeliveryInit, DeliveryNext, PTL DEF Spec

-----------------------------------------------------------------------------
(* Theorems *)

\* A user gets a signal from one provider at most MaxAttempts times, over any
\* number of runs, kills, retries and repeated ids.
THEOREM AlertsBounded == Spec => []AlertsAreBounded
  <1>1. DeliveryInv => AlertsAreBounded
    BY DEF DeliveryInv
  <1> QED BY DeliveryInvariant, <1>1, PTL

\* A row reports success only of a delivered message and failure only after every
\* attempt, and no provider is reported twice for a signal.
THEOREM RowsAreTrue == Spec => []RowsTellTheTruth
  <1>1. DeliveryInv => RowsTellTheTruth
    BY DEF DeliveryInv
  <1> QED BY DeliveryInvariant, <1>1, PTL

\* Whatever fails or shuts down, a signal stored while live is tried with every
\* provider, unless the process was killed or SQLite failed in between.
THEOREM NoProviderSkipped == Spec => []EveryProviderTried
  <1>1. DeliveryInv => EveryProviderTried
    BY DEF DeliveryInv, TriedOrUnderWay, HasRow, EveryProviderTried
  <1> QED BY DeliveryInvariant, <1>1, PTL
=============================================================================
