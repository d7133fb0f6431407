---------------------------- MODULE HistoryFetch ----------------------------
(***************************************************************************)
(* The acquisition of historical candles: scripts/fetch_historical.py      *)
(* goes through pairs of a symbol and a timeframe, downloads the range of  *)
(* each page by page (BinanceRestClient.fetch_candles_range), and stores   *)
(* the closed candles in batches (CandleRepository.upsert_many).           *)
(*                                                                         *)
(* A candle is the millisecond it opens at; its values are abstracted to   *)
(* how far it had formed when the exchange took them.                      *)
(***************************************************************************)
EXTENDS Integers, Sequences, FiniteSets

CONSTANTS
    Pairs,          \* sequence of the configured pairs
    Opens,          \* when candles may open
    Width,          \* duration of a candle
    Years,          \* how far back a range begins
    Limit,          \* rows of a full page (1500)
    Batch,          \* candles of one transaction (5000)
    MaxFailures,    \* refusals in a row that end a fetch (5)
    MaxMissingGap,  \* largest gap that is accepted
    Overlap,        \* bound: candles before the cursor that a page may begin with
    FirstClock,     \* when the first run may begin
    ClockBound,     \* bound: time
    RunBound        \* bound: runs of the script

ASSUME RangeAssumption ==
    /\ Pairs \in Seq(STRING) /\ Opens \subseteq Int
    /\ \A S \in SUBSET Opens : S # {} => \E last \in S : \A o \in S : o <= last
    /\ \A o, p \in Opens : o < p => o + Width <= p
    /\ Width \in Nat /\ Width > 1
    /\ Years \in Nat \ {0} /\ Limit \in Nat \ {0} /\ Batch \in Nat \ {0}
    /\ MaxFailures \in Nat \ {0} /\ MaxMissingGap \in Nat /\ Overlap \in Nat
    /\ FirstClock \in Int /\ ClockBound \in Int /\ RunBound \in Nat

VARIABLES
    listed,      \* the candles the exchange has, the coming ones included
    clock,       \* the time, of the exchange and of the script
    phase,       \* where the script is
    queue,       \* pairs still to fetch, the first of them now
    end,         \* end of the range being fetched
    cursor,      \* startTime of the next request
    failures,    \* refusals since the last page
    page,        \* the rows of the response and when the exchange took them
    collected,   \* candles of the range downloaded so far
    unsaved,     \* closed candles that are not in a committed batch
    working,     \* the candles table as the connection sees it
    table,       \* the candles table that survives
    outcome,     \* outcome[p]: how the pair ended in this run, and its range
    exit,        \* exit code of the last run
    runs         \* counter for the bound

fetch == <<end, cursor, failures, page, collected>>
store == <<unsaved, working, table>>
vars == <<listed, clock, phase, queue, fetch, store, outcome, exit, runs>>

-----------------------------------------------------------------------------
(* Candles *)

Absent == "absent"
CloseTime(o) == o + Width - 1

\* What a row is once it is parsed: the exchange took its values at one time,
\* and the clock decides at another whether the candle is closed.
Row(o, taken) ==
    IF CloseTime(o) <= taken THEN "final"
    ELSE IF CloseTime(o) <= clock THEN "partial" ELSE "forming"

Start == end - Years
InRange(o) == Start <= o /\ o < end
Nothing == [o \in Opens |-> Absent]
EmptyPage == [opens |-> {}, taken |-> 0]

PairSet == {Pairs[k] : k \in 1..Len(Pairs)}
Pair == Head(queue)
Untouched == [status |-> "none", from |-> 0, to |-> 0]

-----------------------------------------------------------------------------
(* fetch_candles_range *)

\* GET /fapi/v1/klines: the first candles of the request's range, both ends
\* included.  Up to Overlap earlier candles may come with them.
Available(from) == {o \in listed : from <= o /\ o <= end}
Response(opens) ==
    \E before \in 0..Overlap :
        LET all == Available(cursor - before * Width)
        IN  /\ opens \subseteq all /\ Cardinality(opens) <= Limit
            /\ \A o \in opens, p \in all : p < o => p \in opens
            /\ Cardinality(opens) < Limit => opens = all

\* The pair is given up, and the script goes on with the next.
GiveUp ==
    /\ outcome' = [outcome EXCEPT ![Pair] = [status |-> "FAILED", from |-> Start, to |-> end]]
    /\ phase' = "next" /\ queue' = Tail(queue)

Answer(opens) ==
    /\ phase = "request" /\ Response(opens)
    /\ page' = [opens |-> opens, taken |-> clock]
    /\ phase' = "answered"
    /\ UNCHANGED <<listed, clock, queue, end, cursor, failures, collected, store, outcome, exit, runs>>

\* Mutant: the count starts over instead of ending the fetch.
RefusePatiently ==
    /\ phase = "request"
    /\ failures' = (failures + 1) % MaxFailures
    /\ UNCHANGED <<listed, clock, phase, queue, end, cursor, page, collected, store, outcome, exit, runs>>

\* 418, 429 or 5xx: the same page is asked for again after a delay.
Refuse ==
    /\ phase = "request"
    /\ failures' = failures + 1
    /\ IF failures' >= MaxFailures THEN GiveUp ELSE UNCHANGED <<outcome, phase, queue>>
    /\ UNCHANGED <<listed, clock, end, cursor, page, collected, store, exit, runs>>

\* Another error status, a transport failure, or a body that is no JSON.
RequestBreaks ==
    /\ phase = "request" /\ GiveUp
    /\ UNCHANGED <<listed, clock, fetch, store, exit, runs>>

LastOpen == CHOOSE o \in page.opens : \A p \in page.opens : p <= o
Closed == {o \in Opens : collected'[o] \in {"final", "partial"}}

\* Mutant: the next page begins one millisecond after the close.
LateCursor == CloseTime(LastOpen) + 2
NextCursor == CloseTime(LastOpen) + 1

FullPage == ~(Cardinality(page.opens) < Limit)
RangeCovered == FullPage => (NextCursor > cursor /\ NextCursor >= end)
Stuck == FullPage /\ NextCursor <= cursor

\* The page is parsed and taken, and the loop ends, fails or goes on.
TakePage ==
    /\ phase = "answered"
    /\ collected' = [o \in Opens |-> IF o \in page.opens /\ InRange(o)
                                     THEN Row(o, page.taken) ELSE collected[o]]
    /\ failures' = 0 /\ page' = EmptyPage
    /\ \/ /\ RangeCovered
          /\ phase' = "saving" /\ unsaved' = Closed
          /\ UNCHANGED <<cursor, outcome, queue>>
       \/ /\ Stuck /\ GiveUp
          /\ UNCHANGED <<cursor, unsaved>>
       \/ /\ ~RangeCovered /\ ~Stuck
          /\ cursor' = NextCursor /\ phase' = "request"
          /\ UNCHANGED <<unsaved, outcome, queue>>
    /\ UNCHANGED <<listed, clock, end, working, table, exit, runs>>

-----------------------------------------------------------------------------
(* CandleRepository.upsert_many *)

\* The oldest unsaved candles.
NextBatch == {o \in unsaved : Cardinality({p \in unsaved : p < o}) < Batch}

Upsert(opens) ==
    [working EXCEPT ![Pair] = [o \in Opens |-> IF o \in opens THEN collected[o] ELSE @[o]]]

\* Mutant: the transaction is left open.
StoreUncommitted(opens) == working' = Upsert(opens) /\ UNCHANGED table

\* executemany and commit
Store(opens) == working' = Upsert(opens) /\ table' = working'

SaveBatch ==
    /\ phase = "saving" /\ unsaved # {}
    /\ Store(NextBatch)
    /\ unsaved' = unsaved \ NextBatch
    /\ UNCHANGED <<listed, clock, phase, queue, fetch, outcome, exit, runs>>

\* A statement raises: the rows before it stay in the open transaction, which
\* nothing rolls back while the script runs.
SaveFails(o) ==
    /\ phase = "saving" /\ o \in NextBatch
    /\ working' = Upsert({p \in NextBatch : p < o})
    /\ GiveUp
    /\ UNCHANGED <<listed, clock, fetch, unsaved, table, exit, runs>>

-----------------------------------------------------------------------------
(* The script *)

Fetched == {o \in Opens : collected[o] \in {"final", "partial"}}

\* Candles missing between a candle and the next one (check_integrity).
MissingAfter(o, opens) ==
    LET later == {p \in opens : p > o}
    IN  IF later = {} THEN 0
        ELSE ((CHOOSE p \in later : \A q \in later : p <= q) - o - Width) \div Width

\* Mutant: an empty series is clean.
CleanIfEmpty == \A o \in Fetched : MissingAfter(o, Fetched) <= MaxMissingGap
Clean == Fetched # {} /\ \A o \in Fetched : MissingAfter(o, Fetched) <= MaxMissingGap

FinishPair ==
    /\ phase = "saving" /\ unsaved = {}
    /\ outcome' = [outcome EXCEPT ![Pair] =
           [status |-> IF Clean THEN "CLEAN" ELSE "ISSUES", from |-> Start, to |-> end]]
    /\ phase' = "next" /\ queue' = Tail(queue)
    /\ UNCHANGED <<listed, clock, fetch, store, exit, runs>>

Init ==
    /\ listed \in SUBSET Opens /\ clock = FirstClock
    /\ phase = "off" /\ queue = <<>>
    /\ end = 0 /\ cursor = 0 /\ failures = 0 /\ page = EmptyPage /\ collected = Nothing
    /\ unsaved = {} /\ working = [p \in PairSet |-> Nothing] /\ table = working
    /\ outcome = [p \in PairSet |-> Untouched] /\ exit = "none" /\ runs = 0

\* All pairs, or the one given with --symbol and --timeframe.
StartScript(pairs) ==
    /\ phase = "off" /\ runs < RunBound
    /\ runs' = runs + 1 /\ phase' = "next" /\ queue' = pairs /\ exit' = "none"
    /\ outcome' = [p \in PairSet |-> Untouched]
    /\ UNCHANGED <<listed, clock, fetch, store>>

StartPair ==
    /\ phase = "next" /\ queue # <<>>
    /\ end' = clock /\ cursor' = clock - Years
    /\ failures' = 0 /\ page' = EmptyPage /\ collected' = Nothing
    /\ phase' = "request"
    /\ UNCHANGED <<listed, clock, queue, store, outcome, exit, runs>>

\* Closing the connection rolls an open transaction back.
Finish ==
    /\ phase = "next" /\ queue = <<>>
    /\ exit' = IF \A p \in PairSet : outcome[p].status \in {"none", "CLEAN"} THEN "0" ELSE "1"
    /\ phase' = "off" /\ working' = table
    /\ UNCHANGED <<listed, clock, queue, fetch, unsaved, table, outcome, runs>>

Killed ==
    /\ phase # "off"
    /\ phase' = "off" /\ working' = table /\ queue' = <<>> /\ exit' = "killed"
    /\ UNCHANGED <<listed, clock, fetch, unsaved, table, outcome, runs>>

Tick ==
    /\ clock < ClockBound /\ clock' = clock + 1
    /\ UNCHANGED <<listed, phase, queue, fetch, store, outcome, exit, runs>>

Engine ==
    \/ StartPair \/ (\E opens \in SUBSET listed : Answer(opens)) \/ Refuse \/ RequestBreaks
    \/ TakePage \/ SaveBatch \/ (\E o \in unsaved : SaveFails(o)) \/ FinishPair \/ Finish

Next ==
    \/ \E pairs \in {Pairs} \cup {<<p>> : p \in PairSet} : StartScript(pairs)
    \/ Engine \/ Killed \/ Tick

Spec == Init /\ [][Next]_vars

\* A request is answered or times out, a delay ends, the loop goes on.
LiveSpec == Spec /\ WF_vars(Engine)

-----------------------------------------------------------------------------
(* Properties *)

\* When a range has been downloaded it is complete and nothing else: every
\* candle the exchange has from the start to before the end, whatever the gaps,
\* full pages, overlapping pages and refused requests (fetch_candles_range).
RangeIsComplete ==
    phase = "saving" =>
        \A o \in Opens : collected[o] # Absent <=> (o \in listed /\ InRange(o))

\* What the script reported of a pair survives: every candle that had closed
\* when its fetch began is in the database with its final values, also those
\* an earlier run stored unfinished, and whatever failed for the other pairs.
ReportedIsDurable ==
    \A p \in PairSet : outcome[p].status \in {"CLEAN", "ISSUES"} =>
        \A o \in listed : (outcome[p].from <= o /\ CloseTime(o) <= outcome[p].to) =>
            table[p][o] = "final"

\* There are candles, and no hole between two of them takes more than accepted.
HasNoWideHole(kept) ==
    /\ kept # {}
    /\ \A o, q \in kept : (o < q /\ \A r \in kept : r <= o \/ r >= q) =>
           q - (o + Width) < (MaxMissingGap + 1) * Width

\* Exit code 0 promises a series to work with for every pair that was asked
\* for: some candle, and no hole wider than accepted between two of its candles.
ExitZeroMeansUsable ==
    exit = "0" =>
        \A p \in PairSet : outcome[p].status # "none" =>
            HasNoWideHole({o \in Opens : /\ outcome[p].from <= o /\ o < outcome[p].to
                                         /\ table[p][o] # Absent})

\* The script ends, however often requests are refused or pages do not advance.
ScriptEnds == phase # "off" ~> phase = "off"
=============================================================================
