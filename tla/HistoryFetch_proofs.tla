------------------------ MODULE HistoryFetch_proofs ------------------------
(***************************************************************************)
(* Theorems about HistoryFetch, for any pairs, candles, page and batch     *)
(* sizes, and any gaps, refusals, failures and kills: a downloaded range   *)
(* is complete, what the script reported is in the database, and exit code *)
(* 0 leaves every pair with a series that has no unaccepted hole.          *)
(***************************************************************************)
EXTENDS HistoryFetch, SequenceTheorems, FiniteSetTheorems, TLAPS

Versions == {Absent, "final", "partial", "forming"}
Fetching == {"request", "answered", "saving"}

Typed ==
    /\ listed \subseteq Opens /\ clock \in Int /\ end \in Int /\ cursor \in Int
    /\ collected \in [Opens -> Versions]
    /\ page \in [opens : SUBSET Opens, taken : Int]
    /\ queue \in Seq(PairSet) /\ (phase \in Fetching => queue # <<>>)
    /\ unsaved \subseteq Opens
    /\ working \in [PairSet -> [Opens -> Versions]]
    /\ table \in [PairSet -> [Opens -> Versions]]
    /\ outcome \in [PairSet -> [status : {"none", "CLEAN", "ISSUES", "FAILED"}, from : Int, to : Int]]

\* The response that is being parsed is one the exchange may give.
PageIsAResponse ==
    phase = "answered" => Response(page.opens) /\ end <= page.taken /\ page.taken <= clock

\* Nothing but candles of the range is collected, and none before the cursor
\* is missing; when the pages are done, none at all.
CollectedInRange ==
    phase \in Fetching => \A o \in Opens : collected[o] # Absent => o \in listed /\ InRange(o)
NoneMissing ==
    phase \in Fetching =>
        \A o \in listed : InRange(o) /\ (o < cursor \/ phase = "saving") => collected[o] # Absent

RangeInv == Typed /\ PageIsAResponse /\ CollectedInRange /\ NoneMissing

\* A candle that had closed when the fetch began is collected as it closed.
ClosedAreFinal ==
    phase \in Fetching =>
        \A o \in Opens : collected[o] # Absent /\ CloseTime(o) <= end => collected[o] = "final"

\* A collected candle that is no longer to be saved is in the table.
SavedSoFar ==
    phase = "saving" =>
        \A o \in Opens : collected[o] = "final" /\ o \notin unsaved =>
            table[Pair][o] = "final" /\ working[Pair][o] = "final"

\* What is to be saved was collected.
UnsavedAreCollected == phase = "saving" => \A o \in unsaved : collected[o] # Absent

\* Ranges that were reported lie in the past.
RangesArePast ==
    \A p \in PairSet :
        /\ outcome[p].to <= clock \/ outcome[p] = Untouched
        /\ phase \in Fetching => outcome[p].to <= end \/ outcome[p] = Untouched

Reported(p) == outcome[p].status \in {"CLEAN", "ISSUES"}
HeldBy(t) ==
    \A p \in PairSet : Reported(p) =>
        \A o \in listed : outcome[p].from <= o /\ CloseTime(o) <= outcome[p].to => t[p][o] = "final"

DurableInv ==
    /\ ClosedAreFinal /\ SavedSoFar /\ UnsavedAreCollected /\ RangesArePast
    /\ (phase \in Fetching => end <= clock)
    /\ HeldBy(table) /\ HeldBy(working)

-----------------------------------------------------------------------------

LEMMA PairIsAPair ==
    ASSUME Typed, phase \in Fetching
    PROVE  Pair \in PairSet /\ Tail(queue) \in Seq(PairSet)
  <1>1. queue \in Seq(PairSet) /\ queue # <<>>
    BY DEF Typed
  <1> QED BY <1>1 DEF Pair

\* What giving a pair up leaves typed.
LEMMA GivenUp ==
    ASSUME Typed, phase \in Fetching, GiveUp
    PROVE  /\ phase' = "next" /\ queue' \in Seq(PairSet)
           /\ outcome' \in [PairSet -> [status : {"none", "CLEAN", "ISSUES", "FAILED"},
                                        from : Int, to : Int]]
           /\ \A p \in PairSet : outcome'[p] = outcome[p] \/
                  (outcome'[p].status = "FAILED" /\ outcome'[p].to = end)
  <1>1. Pair \in PairSet /\ Tail(queue) \in Seq(PairSet)
    BY PairIsAPair
  <1>2. Start \in Int
    BY RangeAssumption DEF Typed, Start
  <1> QED BY <1>1, <1>2 DEF GiveUp, Typed

\* Every candle of the range from the cursor on that the page should hold is in it.
LEMMA PageHolds ==
    ASSUME RangeInv, phase = "answered", NEW o \in listed, InRange(o), cursor <= o,
           ~FullPage \/ (\E q \in page.opens : o <= q)
    PROVE  o \in page.opens
  <1>1. PICK before \in 0..Overlap :
            LET all == Available(cursor - before * Width)
            IN  /\ page.opens \subseteq all /\ Cardinality(page.opens) <= Limit
                /\ \A q \in page.opens, p \in all : p < q => p \in page.opens
                /\ Cardinality(page.opens) < Limit => page.opens = all
    BY DEF RangeInv, PageIsAResponse, Response
  <1>2. before * Width \in Nat
    BY RangeAssumption
  <1>3. o \in Int /\ cursor \in Int /\ end \in Int
    BY RangeAssumption DEF RangeInv, Typed
  <1>4. o \in Available(cursor - before * Width)
    <2> DEFINE back == before * Width
    <2>1. back \in Nat
      BY <1>2
    <2> HIDE DEF back
    <2>2. cursor - back <= o /\ o <= end
      BY <1>3, <2>1 DEF InRange
    <2>3. o \in Available(cursor - back)
      BY <2>2 DEF Available
    <2> QED BY <2>3 DEF back
  <1>5. CASE ~FullPage
    BY <1>1, <1>4, <1>5 DEF FullPage
  <1>6. ASSUME NEW q \in page.opens, o <= q PROVE o \in page.opens
    <2>1. q \in Int
      BY RangeAssumption DEF RangeInv, Typed
    <2>2. o = q \/ o < q
      BY <1>3, <1>6, <2>1
    <2> QED BY <1>1, <1>4, <1>6, <2>2
  <1> QED BY <1>5, <1>6

\* The last candle of a full page.
LEMMA FullPageHasALast ==
    ASSUME Typed, FullPage
    PROVE  /\ LastOpen \in page.opens /\ LastOpen \in Int /\ \A p \in page.opens : p <= LastOpen
           /\ NextCursor = LastOpen + Width /\ NextCursor \in Int
  <1>1. page.opens \in SUBSET Opens
    BY DEF Typed
  <1>2. page.opens # {}
    <2>1. ASSUME page.opens = {} PROVE FALSE
      <3>1. Cardinality(page.opens) = 0
        BY <2>1, FS_EmptySet
      <3> QED BY <3>1, RangeAssumption DEF FullPage
    <2> QED BY <2>1
  <1>3. \E o \in page.opens : \A p \in page.opens : p <= o
    BY <1>1, <1>2, RangeAssumption
  <1>4. LastOpen \in page.opens /\ \A p \in page.opens : p <= LastOpen
    BY <1>3 DEF LastOpen
  <1>5. LastOpen \in Int
    BY <1>1, <1>4, RangeAssumption
  <1>6. NextCursor = LastOpen + Width
    BY <1>5, RangeAssumption DEF NextCursor, CloseTime
  <1> QED BY <1>4, <1>5, <1>6, RangeAssumption

\* After a page nothing is missing before the next one, or to the end.
LEMMA NothingSkipped ==
    ASSUME RangeInv, phase = "answered", NEW o \in listed, InRange(o), collected[o] = Absent,
           RangeCovered \/ (FullPage /\ o < NextCursor)
    PROVE  o \in page.opens
  <1>1. o \in Opens /\ o \in Int /\ cursor \in Int /\ end \in Int
    BY RangeAssumption DEF RangeInv, Typed
  <1>2. cursor <= o
    BY <1>1 DEF RangeInv, NoneMissing, Fetching
  <1>3. CASE ~FullPage
    BY <1>2, <1>3, PageHolds
  <1>4. CASE FullPage
    <2>1. o < NextCursor
      BY <1>1, <1>4, FullPageHasALast DEF RangeCovered, InRange, RangeInv
    <2>2. LastOpen \in page.opens /\ LastOpen \in Opens /\ LastOpen \in Int /\ o < LastOpen + Width
      BY <1>4, <2>1, FullPageHasALast DEF RangeInv, Typed
    <2>3. ~(LastOpen < o)
      BY <1>1, <2>2, RangeAssumption
    <2>4. o <= LastOpen
      BY <1>1, <2>2, <2>3
    <2> QED BY <1>2, <2>2, <2>4, PageHolds
  <1> QED BY <1>3, <1>4

LEMMA RowIsAVersion ==
    ASSUME NEW o, NEW taken
    PROVE  Row(o, taken) \in Versions /\ Row(o, taken) # Absent
  BY DEF Row, Versions, Absent

LEMMA RangeTakePage ==
    ASSUME RangeInv, TakePage
    PROVE  RangeInv'
  <1>1. /\ phase = "answered" /\ page' = EmptyPage
        /\ listed' = listed /\ clock' = clock /\ end' = end
        /\ working' = working /\ table' = table
        /\ \A o \in Opens : collected'[o] = IF o \in page.opens /\ InRange(o)
                                            THEN Row(o, page.taken) ELSE collected[o]
        /\ collected' \in [Opens -> Versions]
    BY RowIsAVersion DEF TakePage, RangeInv, Typed
  <1>2. page' \in [opens : SUBSET Opens, taken : Int]
    BY <1>1 DEF EmptyPage
  <1>3. \A o \in Opens : collected'[o] # Absent => o \in listed /\ InRange(o)
    <2>1. page.opens \subseteq listed
      BY <1>1 DEF RangeInv, PageIsAResponse, Response, Available
    <2>2. \A o \in Opens : collected[o] # Absent => o \in listed /\ InRange(o)
      BY <1>1 DEF RangeInv, CollectedInRange, Fetching
    <2> QED BY <1>1, <2>1, <2>2
  <1>4. \A o \in Opens : InRange(o)' <=> InRange(o)
    BY <1>1 DEF InRange, Start
  <1>5. CollectedInRange'
    BY <1>1, <1>3, <1>4 DEF CollectedInRange
  <1>6. listed \subseteq Opens /\ queue \in Seq(PairSet) /\ queue # <<>>
    BY <1>1 DEF RangeInv, Typed, Fetching
  <1>7. CASE RangeCovered /\ phase' = "saving" /\ unsaved' = Closed /\ UNCHANGED <<cursor, outcome, queue>>
    <2>1. \A o \in listed : InRange(o) => collected'[o] # Absent
      BY <1>1, <1>6, <1>7, NothingSkipped, RowIsAVersion
    <2>2. NoneMissing'
      BY <1>1, <1>4, <1>6, <2>1 DEF NoneMissing
    <2>3. Typed'
      BY <1>1, <1>2, <1>6, <1>7 DEF RangeInv, Typed, Closed
    <2> QED BY <1>5, <1>7, <2>2, <2>3 DEF RangeInv, PageIsAResponse
  <1>8. CASE GiveUp /\ UNCHANGED <<cursor, unsaved>>
    <2>1. /\ phase' = "next" /\ queue' \in Seq(PairSet)
          /\ outcome' \in [PairSet -> [status : {"none", "CLEAN", "ISSUES", "FAILED"},
                                       from : Int, to : Int]]
      BY <1>1, <1>8, GivenUp DEF RangeInv, Fetching
    <2>2. Typed'
      BY <1>1, <1>2, <1>8, <2>1 DEF RangeInv, Typed, Fetching
    <2> QED BY <1>5, <2>1, <2>2 DEF RangeInv, PageIsAResponse, NoneMissing, Fetching
  <1>9. CASE /\ ~RangeCovered /\ ~Stuck
             /\ cursor' = NextCursor /\ phase' = "request"
             /\ UNCHANGED <<unsaved, outcome, queue>>
    <2>1. FullPage /\ NextCursor \in Int
      BY <1>9, FullPageHasALast DEF RangeCovered, RangeInv
    <2>2. \A o \in listed : InRange(o) /\ o < NextCursor => collected'[o] # Absent
      BY <1>1, <1>6, <2>1, NothingSkipped, RowIsAVersion
    <2>3. NoneMissing'
      BY <1>1, <1>4, <1>6, <1>9, <2>2 DEF NoneMissing
    <2>4. Typed'
      BY <1>1, <1>2, <1>6, <1>9, <2>1 DEF RangeInv, Typed
    <2> QED BY <1>5, <1>9, <2>3, <2>4 DEF RangeInv, PageIsAResponse
  <1> QED BY <1>7, <1>8, <1>9 DEF TakePage

\* Nothing was fetched.
LEMMA RangeInit == Init => RangeInv
  BY RangeAssumption DEF Init, RangeInv, Typed, PageIsAResponse, CollectedInRange, NoneMissing,
     Fetching, Nothing, EmptyPage, Untouched, Versions, Absent

LEMMA RangeStartPair ==
    ASSUME RangeInv, StartPair
    PROVE  RangeInv'
  <1>1. Typed'
    BY RangeAssumption DEF RangeInv, Typed, StartPair, store, Nothing, EmptyPage, Versions, Absent
  <1>2. CollectedInRange' /\ PageIsAResponse'
    BY DEF StartPair, CollectedInRange, PageIsAResponse, Nothing
  <1>3. NoneMissing'
    <2> SUFFICES ASSUME NEW o \in listed, InRange(o)', o < clock - Years PROVE FALSE
      BY DEF StartPair, NoneMissing
    <2>1. o \in Int /\ clock \in Int
      BY RangeAssumption DEF RangeInv, Typed
    <2>2. clock - Years <= o
      BY DEF StartPair, InRange, Start
    <2> QED BY <2>1, <2>2, RangeAssumption
  <1> QED BY <1>1, <1>2, <1>3 DEF RangeInv

LEMMA RangeAnswer ==
    ASSUME RangeInv, NEW opens \in SUBSET listed, Answer(opens),
           phase \in Fetching => end <= clock
    PROVE  RangeInv'
  <1>1. Typed'
    BY DEF RangeInv, Typed, Answer, store, Fetching
  <1>2. PageIsAResponse'
    <2>1. Response(opens)'
      BY DEF Answer, Response, Available
    <2> QED BY <2>1 DEF PageIsAResponse, Answer, Fetching, RangeInv, Typed
  <1>3. CollectedInRange' /\ NoneMissing'
    BY DEF RangeInv, Typed, Answer, CollectedInRange, NoneMissing, Fetching, InRange, Start
  <1> QED BY <1>1, <1>2, <1>3 DEF RangeInv

\* A pair that is given up leaves no fetch.
LEMMA RangeGiveUp ==
    ASSUME RangeInv, phase \in Fetching, GiveUp,
           UNCHANGED <<listed, clock, end, cursor, page, collected, unsaved, table>>,
           working' \in [PairSet -> [Opens -> Versions]]
    PROVE  RangeInv'
  <1>1. /\ phase' = "next" /\ queue' \in Seq(PairSet)
        /\ outcome' \in [PairSet -> [status : {"none", "CLEAN", "ISSUES", "FAILED"},
                                     from : Int, to : Int]]
    BY GivenUp DEF RangeInv
  <1>2. Typed'
    BY <1>1 DEF RangeInv, Typed, Fetching
  <1> QED BY <1>1, <1>2 DEF RangeInv, PageIsAResponse, CollectedInRange, NoneMissing, Fetching

\* What the connection sees after some candles were written.
LEMMA UpsertTyped ==
    ASSUME Typed, phase = "saving", NEW opens
    PROVE  /\ Upsert(opens) \in [PairSet -> [Opens -> Versions]]
           /\ \A p \in PairSet, o \in Opens : Upsert(opens)[p][o] =
                  IF p = Pair /\ o \in opens THEN collected[o] ELSE working[p][o]
  <1>1. Pair \in PairSet
    BY PairIsAPair DEF Fetching
  <1>2. working \in [PairSet -> [Opens -> Versions]] /\ collected \in [Opens -> Versions]
    BY DEF Typed
  <1> QED BY <1>1, <1>2 DEF Upsert

LEMMA RangeSaveBatch ==
    ASSUME RangeInv, SaveBatch
    PROVE  RangeInv'
  <1>1. working' \in [PairSet -> [Opens -> Versions]] /\ table' = working'
    BY UpsertTyped DEF SaveBatch, Store, RangeInv
  <1>2. Typed'
    BY <1>1 DEF SaveBatch, RangeInv, Typed, fetch
  <1> QED BY <1>2 DEF SaveBatch, RangeInv, fetch, PageIsAResponse, CollectedInRange, NoneMissing,
                      InRange, Start

LEMMA RangeFinishPair ==
    ASSUME RangeInv, FinishPair
    PROVE  RangeInv'
  <1>1. Pair \in PairSet /\ Tail(queue) \in Seq(PairSet) /\ Start \in Int
    BY PairIsAPair, RangeAssumption DEF FinishPair, RangeInv, Fetching, Typed, Start
  <1>2. Typed'
    BY <1>1 DEF FinishPair, RangeInv, Typed, Fetching, fetch, store
  <1> QED BY <1>2 DEF FinishPair, RangeInv, PageIsAResponse, CollectedInRange, NoneMissing, Fetching

LEMMA RangeOffOrIdle ==
    ASSUME RangeInv, phase' \in {"next", "off"}, UNCHANGED <<listed, fetch, unsaved, table>>,
           clock' = clock, queue' \in Seq(PairSet), working' \in [PairSet -> [Opens -> Versions]],
           outcome' \in [PairSet -> [status : {"none", "CLEAN", "ISSUES", "FAILED"},
                                    from : Int, to : Int]]
    PROVE  RangeInv'
  BY DEF RangeInv, Typed, fetch, PageIsAResponse, CollectedInRange, NoneMissing, Fetching

LEMMA QueuesOfPairs ==
    ASSUME NEW pairs \in {Pairs} \cup {<<p>> : p \in PairSet}
    PROVE  pairs \in Seq(PairSet)
  <1>1. Pairs \in Seq(PairSet)
    BY RangeAssumption DEF PairSet
  <1>2. \A p \in PairSet : <<p>> \in Seq(PairSet)
    OBVIOUS
  <1> QED BY <1>1, <1>2

LEMMA RangeNext ==
    ASSUME RangeInv, phase \in Fetching => end <= clock, [Next]_vars
    PROVE  RangeInv'
  <1>1. ASSUME NEW pairs \in {Pairs} \cup {<<p>> : p \in PairSet}, StartScript(pairs)
        PROVE  RangeInv'
    <2>1. pairs \in Seq(PairSet)
      BY QueuesOfPairs
    <2>2. outcome' \in [PairSet -> [status : {"none", "CLEAN", "ISSUES", "FAILED"},
                                   from : Int, to : Int]]
      BY <1>1 DEF StartScript, Untouched
    <2> QED BY <1>1, <2>1, <2>2, RangeOffOrIdle DEF StartScript, store, RangeInv, Typed
  <1>2. CASE StartPair
    BY <1>2, RangeStartPair
  <1>3. ASSUME NEW opens \in SUBSET listed, Answer(opens) PROVE RangeInv'
    BY <1>3, RangeAnswer
  <1>4. CASE Refuse
    <2>1. CASE GiveUp
      BY <1>4, <2>1, RangeGiveUp DEF Refuse, store, Fetching, RangeInv, Typed
    <2>2. CASE UNCHANGED <<outcome, phase, queue>>
      BY <1>4, <2>2 DEF Refuse, store, RangeInv, Typed, PageIsAResponse, CollectedInRange,
                        NoneMissing, InRange, Start
    <2> QED BY <1>4, <2>1, <2>2 DEF Refuse
  <1>5. CASE RequestBreaks
    BY <1>5, RangeGiveUp DEF RequestBreaks, store, fetch, Fetching, RangeInv, Typed
  <1>6. CASE TakePage
    BY <1>6, RangeTakePage
  <1>7. CASE SaveBatch
    BY <1>7, RangeSaveBatch
  <1>8. ASSUME NEW o \in unsaved, SaveFails(o) PROVE RangeInv'
    <2>1. working' \in [PairSet -> [Opens -> Versions]]
      BY <1>8, UpsertTyped DEF SaveFails, RangeInv
    <2> QED BY <1>8, <2>1, RangeGiveUp DEF SaveFails, fetch, Fetching
  <1>9. CASE FinishPair
    BY <1>9, RangeFinishPair
  <1>10. CASE Finish
    BY <1>10, RangeOffOrIdle DEF Finish, RangeInv, Typed
  <1>11. CASE Killed
    <2>1. <<>> \in Seq(PairSet)
      OBVIOUS
    <2> QED BY <1>11, <2>1, RangeOffOrIdle DEF Killed, RangeInv, Typed
  <1>12. CASE Tick
    <2>1. clock \in Int /\ clock' = clock + 1
      BY <1>12 DEF Tick, RangeInv, Typed
    <2>2. Typed'
      BY <1>12, <2>1 DEF Tick, RangeInv, Typed, fetch, store
    <2>3. PageIsAResponse'
      BY <1>12, <2>1 DEF Tick, RangeInv, Typed, PageIsAResponse, Response, Available, fetch
    <2> QED BY <1>12, <2>2, <2>3 DEF Tick, RangeInv, fetch, CollectedInRange, NoneMissing, InRange, Start
  <1>13. CASE UNCHANGED vars
    BY <1>13 DEF vars, fetch, store, RangeInv, Typed, PageIsAResponse, Response, Available,
                 CollectedInRange, NoneMissing, InRange, Start
  <1> QED BY <1>1, <1>2, <1>3, <1>4, <1>5, <1>6, <1>7, <1>8, <1>9, <1>10, <1>11, <1>12, <1>13
          DEF Next, Engine

-----------------------------------------------------------------------------
(* What was reported stays *)

\* Before anything is reported there is nothing to hold.
LEMMA NothingReported ==
    ASSUME \A p \in PairSet : outcome[p] = Untouched
    PROVE  RangesArePast /\ HeldBy(table) /\ HeldBy(working)
  <1>1. \A p \in PairSet : ~Reported(p)
    BY DEF Reported, Untouched
  <1> QED BY <1>1 DEF RangesArePast, HeldBy

LEMMA DurableInit == Init => DurableInv
  <1> SUFFICES ASSUME Init PROVE DurableInv
    OBVIOUS
  <1>1. RangesArePast /\ HeldBy(table) /\ HeldBy(working)
    BY NothingReported DEF Init
  <1> QED BY <1>1 DEF Init, DurableInv, ClosedAreFinal, SavedSoFar, UnsavedAreCollected, Fetching

\* Writing collected candles over a table loses nothing that was reported.
LEMMA UpsertKeeps ==
    ASSUME RangeInv, DurableInv, phase = "saving", NEW opens \in SUBSET unsaved
    PROVE  HeldBy(Upsert(opens))
  <1> SUFFICES ASSUME NEW p \in PairSet, Reported(p), NEW o \in listed,
                      outcome[p].from <= o, CloseTime(o) <= outcome[p].to
               PROVE  Upsert(opens)[p][o] = "final"
    BY DEF HeldBy
  <1>1. o \in Opens /\ working[p][o] = "final"
    BY DEF RangeInv, Typed, DurableInv, HeldBy
  <1>2. ASSUME o \in opens PROVE collected[o] = "final"
    <2>1. outcome[p].to <= end
      BY DEF DurableInv, RangesArePast, Fetching, Reported, Untouched
    <2>2. CloseTime(o) \in Int /\ outcome[p].to \in Int /\ end \in Int
      BY <1>1, RangeAssumption DEF CloseTime, RangeInv, Typed
    <2>3. CloseTime(o) <= end
      BY <2>1, <2>2
    <2> QED BY <1>1, <1>2, <2>3 DEF DurableInv, UnsavedAreCollected, ClosedAreFinal, Fetching
  <1> QED BY <1>1, <1>2, UpsertTyped DEF RangeInv

\* A failed pair is not reported, and the others are as before.
LEMMA DurableGiveUp ==
    ASSUME RangeInv, DurableInv, phase \in Fetching, GiveUp, HeldBy(working'),
           UNCHANGED <<listed, clock, end, table>>
    PROVE  DurableInv'
  <1>1. /\ phase' = "next"
        /\ \A p \in PairSet : outcome'[p] = outcome[p] \/
               (outcome'[p].status = "FAILED" /\ outcome'[p].to = end)
    BY GivenUp DEF RangeInv
  <1>2. RangesArePast'
    BY <1>1 DEF DurableInv, RangesArePast, Fetching, Untouched
  <1>3. HeldBy(table)' /\ HeldBy(working)'
    BY <1>1 DEF DurableInv, HeldBy, Reported
  <1> QED BY <1>1, <1>2, <1>3 DEF DurableInv, ClosedAreFinal, SavedSoFar, UnsavedAreCollected, Fetching

\* Steps that touch neither the tables nor what was reported.
LEMMA DurableKept ==
    ASSUME DurableInv, UNCHANGED <<listed, outcome, table, working>>, clock' >= clock,
           clock \in Int, clock' \in Int, \A p \in PairSet : outcome[p].to \in Int,
           phase' \in Fetching => phase \in Fetching /\ end' = end
    PROVE  HeldBy(table)' /\ HeldBy(working)' /\ RangesArePast'
  BY DEF DurableInv, HeldBy, Reported, RangesArePast

LEMMA DurableStartPair ==
    ASSUME RangeInv, DurableInv, StartPair
    PROVE  DurableInv'
  <1>1. HeldBy(table)' /\ HeldBy(working)'
    BY DEF StartPair, store, DurableInv, HeldBy, Reported
  <1>2. RangesArePast' /\ end' <= clock'
    BY DEF StartPair, DurableInv, RangesArePast, RangeInv, Typed
  <1>3. ClosedAreFinal' /\ SavedSoFar' /\ UnsavedAreCollected'
    BY DEF StartPair, ClosedAreFinal, SavedSoFar, UnsavedAreCollected, Nothing
  <1> QED BY <1>1, <1>2, <1>3 DEF DurableInv

LEMMA DurableTakePage ==
    ASSUME RangeInv, DurableInv, TakePage
    PROVE  DurableInv'
  <1>1. /\ phase = "answered" /\ end <= page.taken
        /\ listed' = listed /\ clock' = clock /\ end' = end
        /\ working' = working /\ table' = table
        /\ \A o \in Opens : collected'[o] = IF o \in page.opens /\ InRange(o)
                                            THEN Row(o, page.taken) ELSE collected[o]
    BY DEF TakePage, RangeInv, PageIsAResponse
  <1>2. ASSUME GiveUp PROVE DurableInv'
    BY <1>1, <1>2, DurableGiveUp DEF Fetching, DurableInv
  <1>3. ASSUME outcome' = outcome, phase' \in {"saving", "request"},
               phase' = "saving" => unsaved' = Closed
        PROVE  DurableInv'
    <2>1. HeldBy(table)' /\ HeldBy(working)' /\ RangesArePast'
      <3>1. clock \in Int /\ \A p \in PairSet : outcome[p].to \in Int
        BY DEF RangeInv, Typed
      <3> QED BY <1>1, <1>3, <3>1, DurableKept DEF Fetching
    <2>2. ClosedAreFinal'
      <3> SUFFICES ASSUME NEW o \in Opens, collected'[o] # Absent, CloseTime(o) <= end
                   PROVE  collected'[o] = "final"
        BY <1>1 DEF ClosedAreFinal, CloseTime
      <3>1. CloseTime(o) \in Int /\ end \in Int /\ page.taken \in Int
        BY RangeAssumption DEF CloseTime, RangeInv, Typed
      <3>2. CloseTime(o) <= page.taken
        BY <1>1, <3>1
      <3>3. collected[o] # Absent => collected[o] = "final"
        BY <1>1 DEF DurableInv, ClosedAreFinal, Fetching
      <3> QED BY <1>1, <3>2, <3>3 DEF Row
    <2>3. SavedSoFar' /\ UnsavedAreCollected'
      BY <1>1, <1>3 DEF SavedSoFar, UnsavedAreCollected, Closed, Absent
    <2> QED BY <1>1, <1>3, <2>1, <2>2, <2>3 DEF DurableInv, Fetching
  <1> QED BY <1>2, <1>3 DEF TakePage

LEMMA DurableSaveBatch ==
    ASSUME RangeInv, DurableInv, SaveBatch
    PROVE  DurableInv'
  <1>1. /\ phase = "saving" /\ phase' = "saving" /\ working' = Upsert(NextBatch) /\ table' = working'
        /\ unsaved' = unsaved \ NextBatch /\ NextBatch \in SUBSET unsaved
        /\ UNCHANGED <<listed, clock, end, collected, outcome, queue>>
    BY DEF SaveBatch, Store, NextBatch, fetch
  <1>2. HeldBy(Upsert(NextBatch))
    BY <1>1, UpsertKeeps
  <1>3. HeldBy(table)' /\ HeldBy(working)'
    BY <1>1, <1>2 DEF HeldBy, Reported
  <1>4. SavedSoFar'
    <2> SUFFICES ASSUME NEW o \in Opens, collected[o] = "final", o \notin unsaved \ NextBatch
                 PROVE  Upsert(NextBatch)[Pair][o] = "final"
      BY <1>1 DEF SavedSoFar, Pair
    <2>1. Pair \in PairSet
      BY <1>1, PairIsAPair DEF RangeInv, Fetching
    <2>2. o \in NextBatch \/ working[Pair][o] = "final"
      BY <1>1 DEF DurableInv, SavedSoFar
    <2> QED BY <1>1, <2>1, <2>2, UpsertTyped DEF RangeInv
  <1>5. ClosedAreFinal' /\ UnsavedAreCollected' /\ RangesArePast'
    BY <1>1 DEF DurableInv, ClosedAreFinal, UnsavedAreCollected, RangesArePast, Fetching, CloseTime
  <1> QED BY <1>1, <1>3, <1>4, <1>5 DEF DurableInv

\* The pair that ends now is reported over what was collected, all of it saved.
LEMMA DurableFinishPair ==
    ASSUME RangeInv, DurableInv, FinishPair
    PROVE  DurableInv'
  <1>1. /\ phase = "saving" /\ unsaved = {} /\ phase' = "next" /\ Pair \in PairSet
        /\ UNCHANGED <<listed, clock, end, table, working>>
        /\ outcome'[Pair].from = Start /\ outcome'[Pair].to = end
        /\ \A p \in PairSet : p # Pair => outcome'[p] = outcome[p]
    BY PairIsAPair DEF FinishPair, RangeInv, Typed, Fetching, fetch, store
  <1>2. \A o \in listed : Start <= o /\ CloseTime(o) <= end =>
            table[Pair][o] = "final" /\ working[Pair][o] = "final"
    <2> SUFFICES ASSUME NEW o \in listed, Start <= o, CloseTime(o) <= end
                 PROVE  table[Pair][o] = "final" /\ working[Pair][o] = "final"
      OBVIOUS
    <2>1. o \in Opens /\ o \in Int /\ end \in Int
      BY RangeAssumption DEF RangeInv, Typed
    <2>2. InRange(o)
      BY <2>1, RangeAssumption DEF InRange, CloseTime
    <2>3. collected[o] # Absent
      BY <1>1, <2>2 DEF RangeInv, NoneMissing, Fetching
    <2>4. collected[o] = "final"
      BY <1>1, <2>1, <2>3 DEF DurableInv, ClosedAreFinal, Fetching
    <2> QED BY <1>1, <2>1, <2>4 DEF DurableInv, SavedSoFar
  <1>3. HeldBy(table)' /\ HeldBy(working)'
    <2>1. ASSUME NEW p \in PairSet, Reported(p)', NEW o \in listed,
                 outcome'[p].from <= o, CloseTime(o) <= outcome'[p].to
          PROVE  table[p][o] = "final" /\ working[p][o] = "final"
      <3>1. CASE p = Pair
        BY <1>1, <1>2, <2>1, <3>1
      <3>2. CASE p # Pair
        BY <1>1, <2>1, <3>2 DEF DurableInv, HeldBy, Reported
      <3> QED BY <3>1, <3>2
    <2> QED BY <1>1, <2>1 DEF HeldBy, CloseTime
  <1>4. RangesArePast'
    BY <1>1 DEF DurableInv, RangesArePast, Fetching, Untouched
  <1> QED BY <1>1, <1>3, <1>4 DEF DurableInv, ClosedAreFinal, SavedSoFar, UnsavedAreCollected, Fetching

LEMMA DurableNext ==
    ASSUME RangeInv, DurableInv, [Next]_vars
    PROVE  DurableInv'
  <1>0. clock \in Int /\ \A p \in PairSet : outcome[p].to \in Int
    BY DEF RangeInv, Typed
  <1>1. ASSUME NEW pairs \in {Pairs} \cup {<<p>> : p \in PairSet}, StartScript(pairs)
        PROVE  DurableInv'
    <2>1. phase' = "next" /\ \A p \in PairSet : outcome'[p] = Untouched
      BY <1>1 DEF StartScript
    <2>2. \A p \in PairSet : ~Reported(p)'
      BY <2>1 DEF Reported, Untouched
    <2>3. RangesArePast' /\ HeldBy(table)' /\ HeldBy(working)'
      BY <2>1, <2>2 DEF RangesArePast, HeldBy
    <2> QED BY <2>1, <2>3 DEF DurableInv, ClosedAreFinal, SavedSoFar, UnsavedAreCollected, Fetching
  <1>2. CASE StartPair
    BY <1>2, DurableStartPair
  <1>3. ASSUME NEW opens \in SUBSET listed, Answer(opens) PROVE DurableInv'
    <2>1. HeldBy(table)' /\ HeldBy(working)' /\ RangesArePast'
      BY <1>0, <1>3, DurableKept DEF Answer, store, Fetching
    <2> QED BY <1>3, <2>1 DEF Answer, store, DurableInv, ClosedAreFinal, SavedSoFar,
                              UnsavedAreCollected, Fetching, CloseTime
  <1>4. CASE Refuse
    <2>1. CASE GiveUp
      BY <1>4, <2>1, DurableGiveUp DEF Refuse, store, Fetching, DurableInv
    <2>2. CASE UNCHANGED <<outcome, phase, queue>>
      <3>1. HeldBy(table)' /\ HeldBy(working)' /\ RangesArePast'
        BY <1>0, <1>4, <2>2, DurableKept DEF Refuse, store
      <3> QED BY <1>4, <2>2, <3>1 DEF Refuse, store, DurableInv, ClosedAreFinal, SavedSoFar,
                                      UnsavedAreCollected, Fetching, CloseTime
    <2> QED BY <1>4, <2>1, <2>2 DEF Refuse
  <1>5. CASE RequestBreaks
    BY <1>5, DurableGiveUp DEF RequestBreaks, store, fetch, Fetching, DurableInv
  <1>6. CASE TakePage
    BY <1>6, DurableTakePage
  <1>7. CASE SaveBatch
    BY <1>7, DurableSaveBatch
  <1>8. ASSUME NEW o \in unsaved, SaveFails(o) PROVE DurableInv'
    <2> DEFINE written == {p \in NextBatch : p < o}
    <2>1. phase = "saving" /\ working' = Upsert(written) /\ written \in SUBSET unsaved
      BY <1>8 DEF SaveFails, NextBatch
    <2>2. HeldBy(working')
      BY <2>1, UpsertKeeps
    <2> QED BY <1>8, <2>1, <2>2, DurableGiveUp DEF SaveFails, fetch, Fetching
  <1>9. CASE FinishPair
    BY <1>9, DurableFinishPair
  <1>10. CASE Finish \/ Killed
    <2>1. phase' = "off" /\ working' = table /\ UNCHANGED <<listed, clock, table, outcome>>
      BY <1>10 DEF Finish, Killed
    <2>2. HeldBy(table)' /\ HeldBy(working)' /\ RangesArePast'
      BY <2>1 DEF DurableInv, HeldBy, Reported, RangesArePast, Fetching
    <2> QED BY <2>1, <2>2 DEF DurableInv, ClosedAreFinal, SavedSoFar, UnsavedAreCollected, Fetching
  <1>11. CASE Tick
    <2>1. clock' = clock + 1 /\ UNCHANGED <<listed, phase, queue, fetch, store, outcome>>
      BY <1>11 DEF Tick
    <2>2. HeldBy(table)' /\ HeldBy(working)' /\ RangesArePast'
      BY <1>0, <2>1, DurableKept DEF store, fetch
    <2>3. end \in Int
      BY DEF RangeInv, Typed
    <2> QED BY <1>0, <2>1, <2>2, <2>3 DEF store, fetch, DurableInv, ClosedAreFinal, SavedSoFar,
                              UnsavedAreCollected, Fetching, CloseTime, Pair
  <1>12. CASE UNCHANGED vars
    BY <1>12 DEF vars, fetch, store, DurableInv, ClosedAreFinal, SavedSoFar, UnsavedAreCollected,
                 RangesArePast, HeldBy, Reported, Fetching, CloseTime, Pair
  <1> QED BY <1>1, <1>2, <1>3, <1>4, <1>5, <1>6, <1>7, <1>8, <1>9, <1>10, <1>11, <1>12
          DEF Next, Engine

LEMMA FetchInvariants == Spec => [](RangeInv /\ DurableInv)
  <1>1. RangeInv /\ DurableInv /\ [Next]_vars => RangeInv'
    BY RangeNext DEF DurableInv
  <1> QED BY RangeInit, DurableInit, DurableNext, <1>1, PTL DEF Spec

\* A downloaded range is complete and nothing else, for every list of candles
\* with every gap, every page size, overlap and pattern of refusals.
THEOREM DownloadsAreComplete == Spec => []RangeIsComplete
  <1>1. RangeInv => RangeIsComplete
    BY DEF RangeInv, Typed, CollectedInRange, NoneMissing, RangeIsComplete, Fetching
  <1> QED BY FetchInvariants, <1>1, PTL

\* What the script reported of a pair is in the database with final values,
\* whatever failed, was killed or was fetched again since.
THEOREM ReportsAreDurable == Spec => []ReportedIsDurable
  <1>1. DurableInv => ReportedIsDurable
    BY DEF DurableInv, HeldBy, Reported, ReportedIsDurable
  <1> QED BY FetchInvariants, <1>1, PTL

-----------------------------------------------------------------------------
(* What exit code 0 promises *)

IsClosedRow(o) == collected[o] \in {"final", "partial"}

\* A candle is stored once it has closed; one of the pair being fetched had
\* closed when its fetch began or is collected as closed, and all of the latter
\* that are no longer to be saved are stored.
Stock(t) ==
    /\ \A p \in PairSet : \A o \in Opens :
          t[p][o] # Absent => o \in listed /\ CloseTime(o) <= clock
    /\ phase \in Fetching => \A o \in Opens : t[Pair][o] # Absent =>
          CloseTime(o) <= end \/ (phase = "saving" /\ IsClosedRow(o))
    /\ phase = "saving" => \A o \in Opens : IsClosedRow(o) /\ o \notin unsaved => t[Pair][o] # Absent

\* Rows are closed by the clock, and only closed ones are to be saved.
Rows ==
    /\ phase \in Fetching => \A o \in Opens : IsClosedRow(o) => CloseTime(o) <= clock
    /\ phase = "saving" => \A o \in unsaved : IsClosedRow(o)

\* A pair that was found clean, and is not fetched again, has no wide hole,
\* unless the script was killed.
Kept(t, p) == {o \in Opens : outcome[p].from <= o /\ o < outcome[p].to /\ t[p][o] # Absent}
Settled(p) == outcome[p].status = "CLEAN" /\ exit # "killed" /\ ~(phase \in Fetching /\ p = Pair)
CleanIn(t) == \A p \in PairSet : Settled(p) => HasNoWideHole(Kept(t, p))

ExitFollows ==
    /\ phase # "off" => exit = "none"
    /\ exit = "0" => \A p \in PairSet : outcome[p].status \in {"none", "CLEAN"}

UsableInv ==
    /\ Stock(table) /\ Stock(working) /\ Rows
    /\ CleanIn(table) /\ CleanIn(working) /\ ExitFollows

\* The next candle of a series is the one check_integrity measures the hole to.
LEMMA CleanHasNoWideHole ==
    ASSUME Typed, Clean
    PROVE  HasNoWideHole(Fetched)
  <1>1. Fetched # {} /\ \A o \in Fetched : o \in Opens /\ o \in Int
    BY RangeAssumption DEF Clean, Fetched
  <1>2. Width \in Nat /\ Width > 1 /\ MaxMissingGap \in Nat
    BY RangeAssumption
  <1> SUFFICES ASSUME NEW o \in Fetched, NEW q \in Fetched, o < q,
                      \A r \in Fetched : r <= o \/ r >= q
               PROVE  q - (o + Width) < (MaxMissingGap + 1) * Width
    BY <1>1 DEF HasNoWideHole
  <1> DEFINE later == {p \in Fetched : p > o}
             next == CHOOSE p \in later : \A r \in later : p <= r
             n == q - o - Width
  <1>3. q \in later /\ \A r \in later : q <= r
    BY <1>1
  <1>4. next \in later /\ next <= q
    BY <1>3
  <1>5. next = q
    BY <1>1, <1>3, <1>4
  <1>6. MissingAfter(o, Fetched) = n \div Width
    BY <1>3, <1>5 DEF MissingAfter
  <1>7. n \div Width <= MaxMissingGap
    BY <1>6 DEF Clean
  <1>8. n \in Int
    BY <1>1, <1>2
  <1> HIDE DEF n
  <1>9. n < (MaxMissingGap + 1) * Width
    <2> DEFINE d == n \div Width
    <2>1. d \in Int /\ n < (d + 1) * Width
      BY <1>2, <1>8
    <2>2. (d + 1) * Width <= (MaxMissingGap + 1) * Width
      BY <1>2, <1>7, <2>1
    <2> QED BY <1>2, <1>8, <2>1, <2>2
  <1> QED BY <1>1, <1>2, <1>9 DEF n

LEMMA CloseTimes == \A o \in Opens : o \in Int /\ CloseTime(o) \in Int
  BY RangeAssumption DEF CloseTime

\* Saving collected candles stores closed ones, for this pair only.
LEMMA UpsertStock ==
    ASSUME RangeInv, UsableInv, phase = "saving", NEW opens \in SUBSET unsaved
    PROVE  /\ \A p \in PairSet : \A o \in Opens :
                 Upsert(opens)[p][o] # Absent => o \in listed /\ CloseTime(o) <= clock
           /\ \A o \in Opens : Upsert(opens)[Pair][o] # Absent =>
                 CloseTime(o) <= end \/ IsClosedRow(o)
           /\ \A o \in Opens : IsClosedRow(o) /\ o \notin unsaved \ opens =>
                 Upsert(opens)[Pair][o] # Absent
           /\ \A p \in PairSet : \A o \in Opens : p # Pair => Upsert(opens)[p][o] = working[p][o]
  <1>1. /\ Pair \in PairSet /\ opens \subseteq Opens
        /\ \A p \in PairSet, o \in Opens : Upsert(opens)[p][o] =
              IF p = Pair /\ o \in opens THEN collected[o] ELSE working[p][o]
    BY PairIsAPair, UpsertTyped DEF RangeInv, Typed, Fetching
  <1>2. \A o \in opens : IsClosedRow(o) /\ o \in listed /\ CloseTime(o) <= clock
    BY <1>1 DEF UsableInv, Rows, RangeInv, CollectedInRange, Fetching, IsClosedRow, Absent
  <1>3. \A o \in Opens : IsClosedRow(o) => collected[o] # Absent
    BY DEF IsClosedRow, Absent
  <1> QED BY <1>1, <1>2, <1>3 DEF UsableInv, Stock, Fetching

\* A pair that is given up is not clean, and the others are as they were.
LEMMA UsableGiveUp ==
    ASSUME RangeInv, UsableInv, phase \in Fetching, GiveUp, UNCHANGED <<listed, clock, table, exit>>,
           \A p \in PairSet : \A o \in Opens :
               /\ working'[p][o] # Absent => o \in listed /\ CloseTime(o) <= clock
               /\ p # Pair => working'[p][o] = working[p][o]
    PROVE  UsableInv'
  <1>1. /\ phase' = "next" /\ outcome'[Pair].status = "FAILED"
        /\ \A p \in PairSet : p # Pair => outcome'[p] = outcome[p]
    BY PairIsAPair DEF GiveUp, RangeInv, Typed
  <1>2. Stock(table)' /\ Stock(working)' /\ Rows'
    BY <1>1 DEF UsableInv, Stock, Rows, Fetching, CloseTime
  <1>3. ASSUME NEW p \in PairSet, Settled(p)'
        PROVE  /\ HasNoWideHole(Kept(table, p)) /\ Kept(table, p)' = Kept(table, p)
               /\ HasNoWideHole(Kept(working, p)) /\ Kept(working, p)' = Kept(working, p)
    <2>1. p # Pair /\ outcome'[p] = outcome[p] /\ Settled(p)
      BY <1>1, <1>3 DEF Settled
    <2> QED BY <2>1 DEF UsableInv, CleanIn, Kept
  <1>4. CleanIn(table)' /\ CleanIn(working)'
    BY <1>3 DEF CleanIn, HasNoWideHole
  <1>5. ExitFollows'
    BY DEF UsableInv, ExitFollows, Fetching
  <1> QED BY <1>2, <1>4, <1>5 DEF UsableInv

\* Steps that touch neither the tables nor what was collected and reported.
LEMMA UsableKept ==
    ASSUME RangeInv, UsableInv,
           UNCHANGED <<listed, queue, end, collected, unsaved, table, working, outcome, exit>>,
           phase' = phase \/ (phase = "request" /\ phase' = "answered"),
           clock' \in Int, clock <= clock'
    PROVE  UsableInv'
  <1>1. clock \in Int
    BY DEF RangeInv, Typed
  <1>2. Stock(table)' /\ Stock(working)' /\ Rows'
    BY <1>1, CloseTimes DEF UsableInv, Stock, Rows, Fetching, CloseTime, IsClosedRow, Pair, RangeInv, Typed
  <1>3. CleanIn(table)' /\ CleanIn(working)'
    BY DEF UsableInv, CleanIn, Settled, Kept, HasNoWideHole, Fetching, Pair
  <1>4. ExitFollows'
    BY DEF UsableInv, ExitFollows
  <1> QED BY <1>2, <1>3, <1>4 DEF UsableInv

LEMMA UsableStartPair ==
    ASSUME RangeInv, UsableInv, StartPair
    PROVE  UsableInv'
  <1>1. /\ phase = "next" /\ phase' = "request" /\ end' = clock /\ collected' = Nothing
        /\ UNCHANGED <<listed, clock, queue, unsaved, table, working, outcome, exit>>
        /\ Pair \in PairSet
    BY DEF StartPair, store, RangeInv, Typed, Pair
  <1>2. Stock(table)' /\ Stock(working)' /\ Rows'
    BY <1>1 DEF UsableInv, Stock, Rows, Fetching, CloseTime, IsClosedRow, Nothing, Absent, Pair
  <1>3. CleanIn(table)' /\ CleanIn(working)'
    BY <1>1 DEF UsableInv, CleanIn, Settled, Kept, HasNoWideHole, Fetching
  <1>4. ExitFollows'
    BY <1>1 DEF UsableInv, ExitFollows
  <1> QED BY <1>2, <1>3, <1>4 DEF UsableInv

LEMMA UsableTakePage ==
    ASSUME RangeInv, UsableInv, TakePage
    PROVE  UsableInv'
  <1>1. /\ phase = "answered" /\ end' = end
        /\ UNCHANGED <<listed, clock, table, working, exit>>
        /\ \A o \in Opens : collected'[o] = IF o \in page.opens /\ InRange(o)
                                            THEN Row(o, page.taken) ELSE collected[o]
    BY DEF TakePage
  <1>2. CASE GiveUp
    BY <1>1, <1>2, UsableGiveUp DEF Fetching, UsableInv, Stock
  <1>3. CASE outcome' = outcome /\ queue' = queue /\ phase' \in {"saving", "request"}
             /\ (phase' = "saving" => unsaved' = Closed)
    <2>1. \A o \in Opens : IsClosedRow(o)' => CloseTime(o) <= clock
      <3> SUFFICES ASSUME NEW o \in Opens, IsClosedRow(o)' PROVE CloseTime(o) <= clock
        OBVIOUS
      <3>1. CASE o \in page.opens /\ InRange(o)
        <4>1. page.taken <= clock /\ page.taken \in Int /\ clock \in Int /\ CloseTime(o) \in Int
          BY <1>1, CloseTimes DEF RangeInv, PageIsAResponse, Typed
        <4>2. Row(o, page.taken) \in {"final", "partial"}
          BY <1>1, <3>1 DEF IsClosedRow
        <4>3. CloseTime(o) <= page.taken \/ CloseTime(o) <= clock
          BY <4>2 DEF Row
        <4> QED BY <4>1, <4>3
      <3>2. CASE ~(o \in page.opens /\ InRange(o))
        BY <1>1, <3>2 DEF UsableInv, Rows, Fetching, IsClosedRow
      <3> QED BY <3>1, <3>2
    <2>2. Rows'
      <3>1. phase' = "saving" => \A o \in unsaved' : IsClosedRow(o)'
        BY <1>3 DEF Closed, IsClosedRow
      <3> QED BY <1>1, <2>1, <3>1 DEF Rows, CloseTime
    <2>3. Stock(table)' /\ Stock(working)'
      <3>1. phase' = "saving" => \A o \in Opens : IsClosedRow(o)' => o \in unsaved'
        BY <1>3 DEF Closed, IsClosedRow
      <3> QED BY <1>1, <1>3, <3>1 DEF UsableInv, Stock, Fetching, CloseTime, Pair
    <2>4. CleanIn(table)' /\ CleanIn(working)'
      BY <1>1, <1>3 DEF UsableInv, CleanIn, Settled, Kept, HasNoWideHole, Fetching, Pair
    <2>5. ExitFollows'
      BY <1>1, <1>3 DEF UsableInv, ExitFollows
    <2> QED BY <2>2, <2>3, <2>4, <2>5 DEF UsableInv
  <1> QED BY <1>2, <1>3 DEF TakePage

LEMMA UsableSaveBatch ==
    ASSUME RangeInv, UsableInv, SaveBatch
    PROVE  UsableInv'
  <1>1. /\ phase = "saving" /\ phase' = phase /\ working' = Upsert(NextBatch) /\ table' = working'
        /\ unsaved' = unsaved \ NextBatch /\ NextBatch \in SUBSET unsaved
        /\ UNCHANGED <<listed, clock, end, collected, outcome, queue, exit>>
    BY DEF SaveBatch, Store, NextBatch, fetch
  <1> DEFINE w == Upsert(NextBatch)
  <1>2. /\ \A p \in PairSet : \A o \in Opens : w[p][o] # Absent => o \in listed /\ CloseTime(o) <= clock
        /\ \A o \in Opens : w[Pair][o] # Absent => CloseTime(o) <= end \/ IsClosedRow(o)
        /\ \A o \in Opens : IsClosedRow(o) /\ o \notin unsaved \ NextBatch => w[Pair][o] # Absent
        /\ \A p \in PairSet : \A o \in Opens : p # Pair => w[p][o] = working[p][o]
    BY <1>1, UpsertStock
  <1> HIDE DEF w
  <1>3. working' = w /\ table' = w
    BY <1>1 DEF w
  <1>4. Stock(table)' /\ Stock(working)' /\ Rows'
    BY <1>1, <1>2, <1>3 DEF UsableInv, Stock, Rows, CloseTime, IsClosedRow, Pair
  <1>5. ASSUME NEW p \in PairSet, Settled(p)'
        PROVE  /\ HasNoWideHole(Kept(working, p))
               /\ Kept(table, p)' = Kept(working, p) /\ Kept(working, p)' = Kept(working, p)
    <2>1. p # Pair /\ Settled(p)
      BY <1>1, <1>5 DEF Settled, Fetching, Pair
    <2> QED BY <1>1, <1>2, <1>3, <2>1 DEF UsableInv, CleanIn, Kept
  <1>6. CleanIn(table)' /\ CleanIn(working)'
    BY <1>5 DEF CleanIn, HasNoWideHole
  <1>7. ExitFollows'
    BY <1>1 DEF UsableInv, ExitFollows
  <1> QED BY <1>4, <1>6, <1>7 DEF UsableInv

\* When a pair ends, what is stored of its range is what was fetched closed.
LEMMA UsableFinishPair ==
    ASSUME RangeInv, UsableInv, DurableInv, FinishPair
    PROVE  UsableInv'
  <1>1. /\ phase = "saving" /\ unsaved = {} /\ phase' = "next" /\ Pair \in PairSet
        /\ UNCHANGED <<listed, clock, end, collected, table, working, exit>>
        /\ outcome'[Pair].from = Start /\ outcome'[Pair].to = end
        /\ outcome'[Pair].status = "CLEAN" => Clean
        /\ \A p \in PairSet : p # Pair => outcome'[p] = outcome[p]
    BY PairIsAPair DEF FinishPair, RangeInv, Typed, Fetching, fetch, store
  <1>2. ASSUME NEW t, Stock(t)
        PROVE  {o \in Opens : Start <= o /\ o < end /\ t[Pair][o] # Absent} = Fetched
    <2>1. ASSUME NEW o \in Opens, Start <= o, o < end, t[Pair][o] # Absent PROVE IsClosedRow(o)
      <3>1. o \in listed /\ (CloseTime(o) <= end \/ IsClosedRow(o))
        BY <1>1, <1>2, <2>1 DEF Stock, Fetching
      <3>2. collected[o] # Absent
        BY <1>1, <2>1, <3>1 DEF RangeInv, NoneMissing, InRange, Fetching
      <3> QED BY <1>1, <3>1, <3>2 DEF DurableInv, ClosedAreFinal, IsClosedRow, Fetching
    <2>2. ASSUME NEW o \in Opens, IsClosedRow(o) PROVE Start <= o /\ o < end /\ t[Pair][o] # Absent
      <3>1. InRange(o)
        BY <1>1, <2>2 DEF RangeInv, CollectedInRange, Fetching, IsClosedRow, Absent
      <3> QED BY <1>1, <1>2, <2>2, <3>1 DEF Stock, InRange
    <2> QED BY <2>1, <2>2 DEF Fetched, IsClosedRow
  <1>3. Stock(table)' /\ Stock(working)' /\ Rows'
    BY <1>1 DEF UsableInv, Stock, Rows, Fetching, CloseTime
  <1>4. ASSUME NEW p \in PairSet, Settled(p)'
        PROVE  HasNoWideHole(Kept(table, p)') /\ HasNoWideHole(Kept(working, p)')
    <2>1. CASE p = Pair
      <3>1. HasNoWideHole(Fetched)
        BY <1>1, <1>4, <2>1, CleanHasNoWideHole DEF Settled, RangeInv
      <3>2. Kept(table, p)' = Fetched /\ Kept(working, p)' = Fetched
        BY <1>1, <1>2, <2>1 DEF UsableInv, Kept
      <3> QED BY <3>1, <3>2
    <2>2. CASE p # Pair
      <3>1. Settled(p) /\ Kept(table, p)' = Kept(table, p) /\ Kept(working, p)' = Kept(working, p)
        BY <1>1, <1>4, <2>2 DEF Settled, Kept
      <3> QED BY <3>1 DEF UsableInv, CleanIn
    <2> QED BY <2>1, <2>2
  <1>5. CleanIn(table)' /\ CleanIn(working)'
    BY <1>4 DEF CleanIn, HasNoWideHole
  <1>6. ExitFollows'
    BY <1>1 DEF UsableInv, ExitFollows
  <1> QED BY <1>3, <1>5, <1>6 DEF UsableInv

\* Between the pairs of a run, and between runs.
LEMMA UsableScript ==
    ASSUME RangeInv, UsableInv,
           Finish \/ Killed \/ (\E pairs \in {Pairs} \cup {<<p>> : p \in PairSet} : StartScript(pairs))
    PROVE  UsableInv'
  <1>1. /\ phase' \in {"next", "off"} /\ UNCHANGED <<listed, clock, table>>
        /\ working' = table \/ working' = working
    BY DEF Finish, Killed, StartScript, store
  <1>2. Stock(table)' /\ Stock(working)' /\ Rows'
    BY <1>1 DEF UsableInv, Stock, Rows, Fetching, CloseTime
  <1>3. CASE Finish
    <2>1. /\ phase = "next" /\ phase' = "off" /\ exit = "none" /\ exit' \in {"0", "1"}
          /\ outcome' = outcome
          /\ exit' = "0" => \A p \in PairSet : outcome[p].status \in {"none", "CLEAN"}
      BY <1>3 DEF Finish, UsableInv, ExitFollows
    <2>2. CleanIn(table)' /\ CleanIn(working)'
      BY <1>1, <2>1 DEF UsableInv, CleanIn, Settled, Kept, HasNoWideHole, Fetching
    <2> QED BY <1>2, <2>1, <2>2 DEF UsableInv, ExitFollows
  <1>4. CASE Killed
    <2>1. phase' = "off" /\ exit' = "killed"
      BY <1>4 DEF Killed
    <2> QED BY <1>2, <2>1 DEF UsableInv, ExitFollows, CleanIn, Settled
  <1>5. CASE \E pairs \in {Pairs} \cup {<<p>> : p \in PairSet} : StartScript(pairs)
    <2>1. exit' = "none" /\ \A p \in PairSet : outcome'[p].status = "none"
      BY <1>5 DEF StartScript, Untouched
    <2> QED BY <1>2, <2>1 DEF UsableInv, ExitFollows, CleanIn, Settled
  <1> QED BY <1>3, <1>4, <1>5

LEMMA UsableNext ==
    ASSUME RangeInv, DurableInv, UsableInv, [Next]_vars
    PROVE  UsableInv'
  <1>0. clock \in Int
    BY DEF RangeInv, Typed
  <1>1. CASE Finish \/ Killed \/ (\E pairs \in {Pairs} \cup {<<p>> : p \in PairSet} : StartScript(pairs))
    BY <1>1, UsableScript
  <1>2. CASE StartPair \/ TakePage \/ SaveBatch \/ FinishPair
    BY <1>2, UsableStartPair, UsableTakePage, UsableSaveBatch, UsableFinishPair
  <1>3. CASE (\E opens \in SUBSET listed : Answer(opens)) \/ UNCHANGED vars
    <2>1. /\ UNCHANGED <<listed, clock, queue, end, collected, unsaved, table, working, outcome, exit>>
          /\ phase' = phase \/ (phase = "request" /\ phase' = "answered")
      BY <1>3 DEF Answer, vars, fetch, store
    <2> QED BY <1>0, <2>1, UsableKept
  <1>4. CASE Tick
    <2>1. /\ UNCHANGED <<listed, phase, queue, end, collected, unsaved, table, working, outcome, exit>>
          /\ clock' = clock + 1
      BY <1>4 DEF Tick, fetch, store
    <2> QED BY <1>0, <2>1, UsableKept
  <1>5. CASE Refuse \/ RequestBreaks
    <2>1. /\ phase = "request"
          /\ UNCHANGED <<listed, clock, end, collected, unsaved, table, working, exit>>
          /\ GiveUp \/ UNCHANGED <<outcome, phase, queue>>
      BY <1>5 DEF Refuse, RequestBreaks, fetch, store
    <2>2. CASE GiveUp
      BY <2>1, <2>2, UsableGiveUp DEF Fetching, UsableInv, Stock
    <2>3. CASE UNCHANGED <<outcome, phase, queue>>
      BY <1>0, <2>1, <2>3, UsableKept
    <2> QED BY <2>1, <2>2, <2>3
  <1>6. ASSUME NEW o \in unsaved, SaveFails(o) PROVE UsableInv'
    <2> DEFINE written == {p \in NextBatch : p < o}
    <2>1. /\ phase = "saving" /\ working' = Upsert(written) /\ written \in SUBSET unsaved
          /\ GiveUp /\ UNCHANGED <<listed, clock, table, exit>>
      BY <1>6 DEF SaveFails, NextBatch
    <2> HIDE DEF written
    <2>2. \A p \in PairSet : \A q \in Opens :
             /\ working'[p][q] # Absent => q \in listed /\ CloseTime(q) <= clock
             /\ p # Pair => working'[p][q] = working[p][q]
      BY <2>1, UpsertStock
    <2> QED BY <2>1, <2>2, UsableGiveUp DEF Fetching
  <1> QED BY <1>1, <1>2, <1>3, <1>4, <1>5, <1>6 DEF Next, Engine

\* Exit code 0 promises a series to work with for every pair that was asked for:
\* some candle in the database, and no hole wider than accepted between two of
\* its candles, whatever earlier runs, kills and failures left there.  (run of
\* scripts/fetch_historical.py and check_integrity.)
THEOREM ExitZeroIsUsable == Spec => []ExitZeroMeansUsable
  <1>1. Init => UsableInv
    <2> SUFFICES ASSUME Init PROVE UsableInv
      OBVIOUS
    <2>1. \A p \in PairSet : \A o \in Opens : table[p][o] = Absent /\ working[p][o] = Absent
      BY DEF Init, Nothing
    <2>2. phase = "off" /\ exit = "none" /\ \A p \in PairSet : outcome[p].status = "none"
      BY DEF Init, Untouched
    <2> QED BY <2>1, <2>2 DEF UsableInv, Stock, Rows, CleanIn, Settled, ExitFollows, Fetching
  <1>2. RangeInv /\ DurableInv /\ UsableInv /\ [Next]_vars => UsableInv'
    BY UsableNext
  <1>3. UsableInv => ExitZeroMeansUsable
    BY DEF UsableInv, ExitFollows, CleanIn, Settled, Kept, ExitZeroMeansUsable, Fetching
  <1> QED BY FetchInvariants, <1>1, <1>2, <1>3, PTL DEF Spec
=============================================================================
