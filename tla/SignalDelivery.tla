--------------------------- MODULE SignalDelivery ---------------------------
(***************************************************************************)
(* From a risk analysis to the alerts on the user's channels: the          *)
(* persist_signal handler of main.run, SignalRepository.save, the          *)
(* NotificationDispatcher with its retries, and the notifications table,   *)
(* over runs of the process that are shut down or killed at any moment.    *)
(*                                                                         *)
(* Everything here runs in the WebSocket task, inside on_candle_closed, so *)
(* one signal is handled at a time.  A signal stands for its stable id: a  *)
(* run of the engine may produce the id of an earlier run again            *)
(* (CsdStrategy, Restart).  SQLite statements and the commit that follows  *)
(* them have no await between them; a killed process leaves all or nothing *)
(* of a transaction, so each is one step.  A provider's channel is outside *)
(* the process: it may accept a message whose send() fails or is cut off.  *)
(***************************************************************************)
EXTENDS Naturals, Sequences, FiniteSets

CONSTANTS
    Signals,       \* stable signal ids
    Providers,     \* configured_providers(), in order
    MaxAttempts,   \* NotificationDispatcher.max_attempts
    RunBound       \* bound: how often the process is started again

ASSUME DeliveryAssumption ==
    /\ Providers \in Seq(STRING)
    /\ \A i, j \in 1..Len(Providers) : Providers[i] = Providers[j] => i = j
    /\ MaxAttempts \in Nat \ {0}
    /\ RunBound \in Nat

Positions == 1..Len(Providers)

VARIABLES
    process,     \* "up", "joining" (shutdown requested), "down"
    observation, \* observation_mode of this run
    calls,       \* the analyses on_candle_closed has still to hand over
    phase,       \* the task: "idle", "sending", "waiting" (retry delay), "dead"
    current,     \* the signal being dispatched, and to which provider
    position,
    attempt,     \* attempt in _deliver
    accepted,    \* the channel took the message of this attempt
    stored,      \* table signals (with its signal_evidence row)
    rows,        \* table notifications, in order of id
    delivered,   \* the channels: messages a provider's user got for a signal
    observed,    \* history: signals first stored in observation mode
    aborted,     \* history: signals whose dispatch an abort or a kill cut off
    runs         \* how often the process was started again

taskVars == <<phase, current, position, attempt, accepted>>
outside == <<process, observation, runs>>
vars == <<process, observation, calls, taskVars, stored, rows, delivered, observed,
          aborted, runs>>

NoSignal == "none"
Dispatching == phase \in {"sending", "waiting"}

-----------------------------------------------------------------------------
(* The task *)

Rest(state) == /\ phase' = state
               /\ current' = NoSignal
               /\ position' = 0 /\ attempt' = 0
               /\ accepted' = FALSE

FirstAttempt(s, i) == /\ phase' = "sending"
                      /\ current' = s
                      /\ position' = i /\ attempt' = 1
                      /\ accepted' = FALSE

\* The except clause of websocket.run names no sqlite3 error: the task ends.
TaskDies == /\ Rest("dead")
            /\ calls' = <<>>

\* on_candle_closed: the retest of one setup and the immediate entry of the next
\* may both give an analysis.  No candle is handled once _stop is set.
CandleClosed ==
    /\ process = "up" /\ phase = "idle" /\ calls = <<>>
    /\ calls' \in {<<s>> : s \in Signals} \cup
                  {<<p[1], p[2]>> : p \in {q \in Signals \X Signals : q[1] # q[2]}}
    /\ UNCHANGED <<outside, taskVars, stored, rows, delivered, observed, aborted>>

Handing == process # "down" /\ phase = "idle" /\ calls # <<>>

\* dispatch: the first provider, or nothing when none is configured.
Dispatch(s) == IF Providers = <<>> THEN UNCHANGED taskVars ELSE FirstAttempt(s, 1)

\* save() inserts nothing for a known id; a new signal is dispatched unless the
\* run only observes.
PersistSignal ==
    /\ Handing
    /\ LET s == Head(calls)
       IN  /\ stored' = stored \cup {s}
           /\ IF s \in stored
              THEN observed' = observed /\ UNCHANGED taskVars
              ELSE IF observation
              THEN observed' = observed \cup {s} /\ UNCHANGED taskVars
              ELSE observed' = observed /\ Dispatch(s)
    /\ calls' = Tail(calls)
    /\ UNCHANGED <<outside, rows, delivered, aborted>>

\* save() raises, and so does what awaits it; the transaction is rolled back
\* when the connection is closed.
PersistFails ==
    /\ Handing
    /\ TaskDies
    /\ UNCHANGED <<outside, stored, rows, delivered, observed, aborted>>

-----------------------------------------------------------------------------
(* NotificationDispatcher *)

\* The channel takes the message; send() has not returned.
ChannelAccepts ==
    /\ process # "down" /\ phase = "sending" /\ ~accepted
    /\ accepted' = TRUE
    /\ delivered' = [delivered EXCEPT ![<<current, position>>] = @ + 1]
    /\ UNCHANGED <<outside, calls, phase, current, position, attempt, stored, rows, observed,
                   aborted>>

\* dispatch goes on to the next provider, or returns.
NextProvider ==
    IF position < Len(Providers) THEN FirstAttempt(current, position + 1) ELSE Rest("idle")

\* _deliver returned: save_attempt, which may raise.
Settle(success) ==
    \/ /\ rows' = Append(rows, [signal |-> current, position |-> position,
                                success |-> success, attempts |-> attempt])
       /\ NextProvider
       /\ UNCHANGED <<calls, aborted>>
    \/ /\ rows' = rows
       /\ TaskDies
       /\ aborted' = aborted \cup {current}

SendSucceeds ==
    /\ process # "down" /\ phase = "sending" /\ accepted
    /\ Settle(TRUE)
    /\ UNCHANGED <<outside, stored, delivered, observed>>

\* Mutant of Retry: attempts are counted from the first retry.
RetryOnceMore == attempt <= MaxAttempts

Retry == attempt < MaxAttempts

\* An error answer, an exception or a timeout, whether or not the message
\* arrived: the delay before the next attempt, or the failure is recorded.
SendFails ==
    /\ process # "down" /\ phase = "sending"
    /\ IF Retry
       THEN /\ phase' = "waiting"
            /\ UNCHANGED <<calls, current, position, attempt, accepted, rows, aborted>>
       ELSE Settle(FALSE)
    /\ UNCHANGED <<outside, stored, delivered, observed>>

\* Mutant of DelayEnds: the failed attempt is not counted.
DelayEndsUncounted ==
    /\ process # "down" /\ phase = "waiting"
    /\ phase' = "sending"
    /\ accepted' = FALSE
    /\ UNCHANGED <<outside, calls, current, position, attempt, stored, rows, delivered,
                   observed, aborted>>

DelayEnds ==
    /\ process # "down" /\ phase = "waiting"
    /\ phase' = "sending"
    /\ attempt' = attempt + 1
    /\ accepted' = FALSE
    /\ UNCHANGED <<outside, calls, current, position, stored, rows, delivered, observed,
                   aborted>>

-----------------------------------------------------------------------------
(* The process *)

\* websocket.stop(): main now awaits the task.
RequestShutdown ==
    /\ process = "up"
    /\ process' = "joining"
    /\ UNCHANGED <<observation, runs, calls, taskVars, stored, rows, delivered, observed,
                   aborted>>

\* Mutant of JoinEnds: main does not await the task.
JoinEndsAtOnce ==
    /\ process = "joining"
    /\ process' = "down"
    /\ Rest("idle")
    /\ calls' = <<>>
    /\ UNCHANGED <<observation, runs, stored, rows, delivered, observed, aborted>>

\* Mutant of JoinEnds: main waits for the task to be idle.
JoinEndsWhenIdle ==
    /\ process = "joining"
    /\ phase = "idle" /\ calls = <<>>
    /\ process' = "down"
    /\ UNCHANGED <<observation, runs, calls, taskVars, stored, rows, delivered, observed,
                   aborted>>

\* The task returned after the candle it was handling, or had raised.
JoinEnds ==
    /\ process = "joining"
    /\ ~Dispatching /\ calls = <<>>
    /\ process' = "down"
    /\ Rest("idle")
    /\ UNCHANGED <<observation, runs, calls, stored, rows, delivered, observed, aborted>>

\* The process is killed.
Kill ==
    /\ process # "down"
    /\ process' = "down"
    /\ Rest("idle")
    /\ calls' = <<>>
    /\ aborted' = IF Dispatching THEN aborted \cup {current} ELSE aborted
    /\ UNCHANGED <<observation, runs, stored, rows, delivered, observed>>

\* The validation report may have changed, or --force-live been given.
Start ==
    /\ process = "down" /\ runs < RunBound
    /\ process' = "up"
    /\ runs' = runs + 1
    /\ observation' \in BOOLEAN
    /\ UNCHANGED <<calls, taskVars, stored, rows, delivered, observed, aborted>>

\* Nobody starts the process again.
Over == process = "down" /\ runs = RunBound /\ UNCHANGED vars

Init ==
    /\ process = "up"
    /\ observation \in BOOLEAN
    /\ calls = <<>>
    /\ phase = "idle" /\ current = NoSignal /\ position = 0 /\ attempt = 0
    /\ accepted = FALSE
    /\ stored = {}
    /\ rows = <<>>
    /\ delivered = [x \in Signals \X Positions |-> 0]
    /\ observed = {} /\ aborted = {}
    /\ runs = 0

Next ==
    \/ CandleClosed \/ PersistSignal \/ PersistFails
    \/ ChannelAccepts \/ SendSucceeds \/ SendFails \/ DelayEnds
    \/ RequestShutdown \/ JoinEnds \/ Kill \/ Start
    \/ Over

Spec == Init /\ [][Next]_vars

\* The event loop runs what is ready; send() returns, since every provider has a
\* timeout of 15 seconds; the retry delay is a timer.
Fairness == /\ WF_vars(PersistSignal)
            /\ WF_vars(SendSucceeds \/ SendFails)
            /\ WF_vars(DelayEnds)
            /\ WF_vars(JoinEnds)
LiveSpec == Spec /\ Fairness

-----------------------------------------------------------------------------
(* Properties *)

\* Over all runs of the process a user gets a signal from one provider at most
\* MaxAttempts times: retries are bounded and a signal of an earlier run is not
\* announced again.
AlertsAreBounded ==
    \A s \in Signals, i \in Positions : delivered[<<s, i>>] <= MaxAttempts

\* A row that reports success belongs to a delivered message, one that reports
\* failure to a provider that was tried as often as allowed; and no provider is
\* reported twice for a signal.
RowsTellTheTruth ==
    \A j \in 1..Len(rows) :
        /\ rows[j].success => delivered[<<rows[j].signal, rows[j].position>>] > 0
        /\ ~rows[j].success => rows[j].attempts = MaxAttempts
        /\ \A k \in 1..Len(rows) :
              (rows[j].signal = rows[k].signal /\ rows[j].position = rows[k].position) => j = k

\* A failing provider blocks no other one, and a shutdown waits for the dispatch
\* under way: a signal stored while live was tried with every provider, unless
\* the process was killed or SQLite failed in between.
EveryProviderTried ==
    \A s \in stored \ (observed \cup aborted) :
        current # s =>
            \A i \in Positions : \E j \in 1..Len(rows) :
                rows[j].signal = s /\ rows[j].position = i

\* A shutdown requested in the middle of a dispatch completes: dead channels do
\* not keep the task for ever.
ShutdownEnds == (process = "joining") ~> (process = "down")
=============================================================================
