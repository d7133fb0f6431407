------------------------- MODULE ResearchRun_proofs -------------------------
(***************************************************************************)
(* Theorems about ResearchRun, for any entry modes, symbols, windows,      *)
(* sensitivity values, variants and numbers of runs, faults and            *)
(* corrections: a finished unit is on disk, and, when every run asks for   *)
(* the same number of baseline iterations, a reused unit is what its run   *)
(* would have computed and a report is ready only over complete evidence.  *)
(***************************************************************************)
EXTENDS ResearchRun, SequenceTheorems, TLAPS

Files == [manifest : Nat, payload : [data : Nat, iterations : Nat]]

\* The types the argument needs.
Typed ==
    /\ data \in Nat \ {0}
    /\ disk \in [Modes -> [Stored -> Files]]
    /\ run \in [status : {"idle", "running", "ready", "incomplete", "dead"},
                mode : {"fresh", "resume", "restart"}, data : Nat, iterations : Nat]
    /\ entry \in 1..Len(EntryModes)
    /\ todo \subseteq Units
    /\ results \in [Units -> [data : Nat, iterations : Nat]]

\* The payload of a checkpoint is replaced before its manifest, so the manifest
\* never names newer candles than the payload was computed from.
FilesInOrder ==
    \A e \in Modes, u \in Stored :
        /\ disk[e][u].manifest <= disk[e][u].payload.data
        /\ disk[e][u].payload.data <= data

\* A run works on the candles there are: they are corrected between runs.
RunLoaded ==
    run.status = "running" => run.data = data /\ run.iterations \in Iterations

\* Between the two files of a checkpoint the payload is the unit's result.
SavingInOrder ==
    saving # NoUnit =>
        /\ run.status = "running"
        /\ saving \in todo /\ saving \in Stored
        /\ disk[Mode][saving].payload = Value(saving)

\* A unit that is to do has no result, and no process has none to do.
UnfinishedAreMissing ==
    /\ \A u \in todo : results[u] = Missing
    /\ run.status # "running" => todo = Units

FileInv ==
    /\ Typed /\ FilesInOrder /\ RunLoaded /\ SavingInOrder /\ UnfinishedAreMissing
    /\ DurableProgress

\* Every run asks for the same number of baseline iterations.
OneCount == \A i, j \in Iterations : i = j

\* Then the payloads of all runs are drawn with it.
PayloadsOfOneCount ==
    \A e \in Modes, u \in Stored :
        disk[e][u].payload # Missing =>
            \A i \in Iterations :
                disk[e][u].payload.iterations = IF u \in Baselines THEN i ELSE 0

\* A unit that is done has its result, unless it failed or has none; completeness
\* is decided when only late units are left.
DoneOrFailed ==
    /\ \A u \in Units \ todo : results[u] = Value(u) \/ u \in errors \cup unsupported \cup {Aggregation}
    /\ complete # "undecided" => todo \subseteq Late

EvidenceInv ==
    /\ PayloadsOfOneCount /\ ReusedUnitsMatchInputs /\ DoneOrFailed /\ ReadyMeansEvidence

-----------------------------------------------------------------------------

\* The entry mode that is validated has a directory of its own.
LEMMA ModeIsAMode ==
    ASSUME Typed
    PROVE  Mode \in Modes
  BY ShapeAssumption DEF Typed, Mode, Modes

\* An empty store has files of the right kind.
LEMMA EmptyStoreTyped == EmptyStore \in [Stored -> Files]
  BY DEF EmptyStore, Files, Missing, NoFile

\* A result is a record of two numbers, and never Missing while a run lasts.
LEMMA ValueTyped ==
    ASSUME Typed, RunLoaded, run.status = "running", NEW u
    PROVE  /\ Value(u) \in [data : Nat, iterations : Nat]
           /\ Value(u).data = data
           /\ Value(u) # Missing
  BY DEF Typed, RunLoaded, Value, Missing

\* What each half of a checkpoint changes.
LEMMA PayloadStored ==
    ASSUME Typed, RunLoaded, run.status = "running", NEW u \in Stored, StorePayload(u)
    PROVE  /\ disk' \in [Modes -> [Stored -> Files]]
           /\ \A e \in Modes, v \in Stored : <<e, v>> # <<Mode, u>> => disk'[e][v] = disk[e][v]
           /\ disk'[Mode][u].payload = Value(u)
           /\ disk'[Mode][u].manifest = disk[Mode][u].manifest
  <1> DEFINE file == [disk[Mode][u] EXCEPT !.payload = Value(u)]
             store == [disk[Mode] EXCEPT ![u] = file]
  <1>1. Mode \in Modes /\ disk[Mode] \in [Stored -> Files] /\ disk[Mode][u] \in Files
    BY ModeIsAMode DEF Typed
  <1>2. disk' = [disk EXCEPT ![Mode] = store]
    BY DEF StorePayload
  <1>3. file \in Files /\ file.payload = Value(u) /\ file.manifest = disk[Mode][u].manifest
    BY <1>1, ValueTyped DEF Files
  <1>4. store \in [Stored -> Files] /\ store[u] = file
    BY <1>1, <1>3
  <1>5. disk' \in [Modes -> [Stored -> Files]] /\ disk'[Mode] = store
    BY <1>1, <1>2, <1>4 DEF Typed
  <1>6. ASSUME NEW e \in Modes, NEW v \in Stored, <<e, v>> # <<Mode, u>>
        PROVE  disk'[e][v] = disk[e][v]
    <2>1. CASE e = Mode
      BY <1>1, <1>5, <1>6, <2>1
    <2>2. CASE e # Mode
      BY <1>2, <2>2 DEF Typed
    <2> QED BY <2>1, <2>2
  <1> QED BY <1>3, <1>4, <1>5, <1>6

LEMMA ManifestStored ==
    ASSUME Typed, NEW u \in Stored, StoreManifest(u)
    PROVE  /\ disk' \in [Modes -> [Stored -> Files]]
           /\ \A e \in Modes, v \in Stored : <<e, v>> # <<Mode, u>> => disk'[e][v] = disk[e][v]
           /\ disk'[Mode][u].payload = disk[Mode][u].payload
           /\ disk'[Mode][u].manifest = run.data
  <1> DEFINE file == [disk[Mode][u] EXCEPT !.manifest = run.data]
             store == [disk[Mode] EXCEPT ![u] = file]
  <1>1. /\ Mode \in Modes /\ disk[Mode] \in [Stored -> Files] /\ disk[Mode][u] \in Files
        /\ run.data \in Nat
    BY ModeIsAMode DEF Typed
  <1>2. disk' = [disk EXCEPT ![Mode] = store]
    BY DEF StoreManifest
  <1>3. file \in Files /\ file.payload = disk[Mode][u].payload /\ file.manifest = run.data
    BY <1>1 DEF Files
  <1>4. store \in [Stored -> Files] /\ store[u] = file
    BY <1>1, <1>3
  <1>5. disk' \in [Modes -> [Stored -> Files]] /\ disk'[Mode] = store
    BY <1>1, <1>2, <1>4 DEF Typed
  <1>6. ASSUME NEW e \in Modes, NEW v \in Stored, <<e, v>> # <<Mode, u>>
        PROVE  disk'[e][v] = disk[e][v]
    <2>1. CASE e = Mode
      BY <1>1, <1>5, <1>6, <2>1
    <2>2. CASE e # Mode
      BY <1>2, <2>2 DEF Typed
    <2> QED BY <2>1, <2>2
  <1> QED BY <1>3, <1>4, <1>5, <1>6

\* Opening a store leaves each file alone or removes it.
LEMMA StoreOpened ==
    ASSUME Typed, NEW e \in 1..Len(EntryModes), NEW mode
    PROVE  /\ OpenStore(e, mode) \in [Modes -> [Stored -> Files]]
           /\ \A m \in Modes, v \in Stored :
                 \/ OpenStore(e, mode)[m][v] = disk[m][v]
                 \/ OpenStore(e, mode)[m][v] = [manifest |-> 0, payload |-> Missing]
  <1>1. EntryModes[e] \in Modes
    BY ShapeAssumption DEF Modes
  <1> QED BY <1>1, EmptyStoreTyped DEF Typed, OpenStore, EmptyStore, NoFile

-----------------------------------------------------------------------------
(* Finished units are on disk *)

LEMMA FilesInit == Init => FileInv
  <1> SUFFICES ASSUME Init PROVE FileInv
    OBVIOUS
  <1>1. Typed
    BY EmptyStoreTyped, ShapeAssumption DEF Init, Typed, Ended, Missing
  <1>2. FilesInOrder
    BY DEF Init, FilesInOrder, EmptyStore, Missing, NoFile
  <1> QED BY <1>1, <1>2 DEF Init, FileInv, RunLoaded, SavingInOrder, UnfinishedAreMissing,
            DurableProgress, Ended, Stored

\* A new run and the next entry mode start with nothing done.
LEMMA FilesEnter ==
    ASSUME FileInv, NEW e \in 1..Len(EntryModes), NEW mode, Enter(e, mode), data' = data,
           run'.status = "running", run'.data = data, run'.iterations \in Iterations,
           run' \in [status : {"idle", "running", "ready", "incomplete", "dead"},
                     mode : {"fresh", "resume", "restart"}, data : Nat, iterations : Nat]
    PROVE  FileInv'
  <1> USE DEF FileInv, Enter, Blank
  <1>1. Typed'
    BY StoreOpened DEF Typed, Missing
  <1>2. FilesInOrder'
    <2> SUFFICES ASSUME NEW m \in Modes, NEW v \in Stored
                 PROVE  /\ disk'[m][v].manifest <= disk'[m][v].payload.data
                        /\ disk'[m][v].payload.data <= data
      BY DEF FilesInOrder
    <2>1. CASE disk'[m][v] = disk[m][v]
      BY <2>1 DEF FilesInOrder
    <2>2. CASE disk'[m][v] = [manifest |-> 0, payload |-> Missing]
      BY <2>2 DEF Missing, Typed
    <2> QED BY <2>1, <2>2, StoreOpened
  <1> QED BY <1>1, <1>2 DEF RunLoaded, SavingInOrder, UnfinishedAreMissing, DurableProgress, Stored

\* A process that ended leaves the files.
LEMMA FilesEnd ==
    ASSUME FileInv, NEW status \in {"ready", "incomplete", "dead"}, run' = Ended(status),
           Blank(1), UNCHANGED <<data, disk>>
    PROVE  FileInv'
  <1> USE DEF FileInv, Blank
  <1>1. Typed'
    BY ShapeAssumption DEF Typed, Ended, Missing
  <1> QED BY <1>1 DEF RunLoaded, SavingInOrder, UnfinishedAreMissing, DurableProgress, Ended,
            FilesInOrder, Stored

LEMMA FilesReuse ==
    ASSUME FileInv, NEW u \in todo, Reuse(u)
    PROVE  FileInv'
  <1> USE DEF FileInv, Reuse, Ready, Update
  <1>1. u \in Units /\ u \in Stored /\ Mode \in Modes /\ Mode' = Mode
    BY ModeIsAMode DEF Mode, Typed
  <1>2. Typed'
    BY <1>1 DEF Typed, Files
  <1>3. DurableProgress'
    BY <1>1 DEF Typed, DurableProgress, Loadable, Files, Stored
  <1>4. UnfinishedAreMissing'
    BY <1>1 DEF Typed, UnfinishedAreMissing
  <1> QED BY <1>1, <1>2, <1>3, <1>4 DEF FilesInOrder, RunLoaded, SavingInOrder

LEMMA FilesCompute ==
    ASSUME FileInv, NEW u \in todo, Compute(u)
    PROVE  FileInv'
  <1> USE DEF FileInv, Compute, Computable, Ready
  <1>1. u \in Stored /\ Mode \in Modes /\ Mode' = Mode /\ Value(u)' = Value(u)
    BY ModeIsAMode DEF Mode, Value
  <1>2. Typed'
    BY <1>1, PayloadStored DEF Typed
  <1>3. FilesInOrder'
    <2> SUFFICES ASSUME NEW e \in Modes, NEW v \in Stored
                 PROVE  /\ disk'[e][v].manifest <= disk'[e][v].payload.data
                        /\ disk'[e][v].payload.data <= data
      BY DEF FilesInOrder
    <2>1. CASE <<e, v>> # <<Mode, u>>
      BY <2>1, PayloadStored DEF FilesInOrder
    <2>2. CASE <<e, v>> = <<Mode, u>>
      <3>1. disk[e][v].manifest <= data
        BY DEF FilesInOrder, Typed, Files
      <3> QED BY <1>1, <2>2, <3>1, PayloadStored, ValueTyped DEF Typed
    <2> QED BY <2>1, <2>2
  <1>4. SavingInOrder'
    BY <1>1, PayloadStored DEF SavingInOrder
  <1>5. DurableProgress'
    BY <1>1, PayloadStored DEF DurableProgress, UnfinishedAreMissing
  <1> QED BY <1>2, <1>3, <1>4, <1>5 DEF RunLoaded, UnfinishedAreMissing

LEMMA FilesCommit ==
    ASSUME FileInv, Commit
    PROVE  FileInv'
  <1> USE DEF FileInv, Commit, Update
  <1>1. /\ saving \in Stored /\ saving \in todo /\ saving \in Units
        /\ disk[Mode][saving].payload = Value(saving)
        /\ Mode \in Modes /\ Mode' = Mode /\ run' = run
    BY ModeIsAMode DEF Mode, SavingInOrder, Stored
  <1>2. Typed'
    BY <1>1, ManifestStored, ValueTyped DEF Typed
  <1>3. FilesInOrder'
    <2> SUFFICES ASSUME NEW e \in Modes, NEW v \in Stored
                 PROVE  /\ disk'[e][v].manifest <= disk'[e][v].payload.data
                        /\ disk'[e][v].payload.data <= data
      BY DEF FilesInOrder
    <2>1. CASE <<e, v>> # <<Mode, saving>>
      BY <1>1, <2>1, ManifestStored DEF FilesInOrder
    <2>2. CASE <<e, v>> = <<Mode, saving>>
      BY <1>1, <2>2, ManifestStored, ValueTyped DEF RunLoaded, Typed
    <2> QED BY <2>1, <2>2
  <1>4. DurableProgress'
    <2> SUFFICES ASSUME NEW v \in Stored, results'[v] # Missing
                 PROVE  disk'[Mode][v] = [manifest |-> run.data, payload |-> results'[v]]
      BY <1>1 DEF DurableProgress
    <2>1. CASE v # saving
      <3>1. results'[v] = results[v]
        BY <1>1, <2>1 DEF Typed, Stored
      <3>2. disk'[Mode][v] = disk[Mode][v]
        BY <1>1, <2>1, ManifestStored
      <3> QED BY <3>1, <3>2 DEF DurableProgress
    <2>2. CASE v = saving
      <3>1. results'[v] = disk'[Mode][v].payload
        BY <1>1, <2>2, ManifestStored DEF Typed
      <3>2. disk'[Mode][v] \in Files /\ disk'[Mode][v].manifest = run.data
        BY <1>1, <2>2, ManifestStored
      <3>3. \A file \in Files : file = [manifest |-> file.manifest, payload |-> file.payload]
        BY DEF Files
      <3>4. disk'[Mode][v] = [manifest |-> disk'[Mode][v].manifest, payload |-> disk'[Mode][v].payload]
        BY <3>2, <3>3
      <3> QED BY <3>1, <3>2, <3>4
    <2> QED BY <2>1, <2>2
  <1>5. UnfinishedAreMissing'
    BY <1>1 DEF UnfinishedAreMissing, Typed
  <1> QED BY <1>2, <1>3, <1>4, <1>5 DEF RunLoaded, SavingInOrder

\* A unit that is done without a result changes no file.
LEMMA FilesSkip ==
    ASSUME FileInv, NEW u, Update(u), run.status = "running", saving' = NoUnit,
           UNCHANGED <<data, disk, run, entry, results>>
    PROVE  FileInv'
  BY DEF FileInv, Update, Typed, FilesInOrder, RunLoaded, SavingInOrder, UnfinishedAreMissing,
         DurableProgress, Mode, Value

LEMMA FilesNext ==
    ASSUME FileInv, [Next]_vars
    PROVE  FileInv'
  <1>1. ASSUME NEW mode \in {"fresh", "resume", "restart"}, NEW i \in Iterations, StartRun(mode, i)
        PROVE  FileInv'
    <2>1. 1 \in 1..Len(EntryModes) /\ i \in Nat /\ data \in Nat
      BY ShapeAssumption DEF FileInv, Typed
    <2> QED BY <1>1, <2>1, FilesEnter DEF StartRun
  <1>2. ASSUME NEW u \in Current, Reuse(u) \/ Compute(u)
        PROVE  FileInv'
    BY <1>2, FilesReuse, FilesCompute DEF Current
  <1>3. CASE Commit
    BY <1>3, FilesCommit
  <1>4. CASE DecideCompleteness
    BY <1>4 DEF DecideCompleteness, FileInv, Typed, FilesInOrder, RunLoaded, SavingInOrder,
                UnfinishedAreMissing, DurableProgress, Mode, Value
  <1>5. CASE Aggregate
    BY <1>5, FilesSkip DEF Aggregate, Ready
  <1>6. CASE NextEntry
    <2>1. entry + 1 \in 1..Len(EntryModes)
      BY <1>6, ShapeAssumption DEF NextEntry, FileInv, Typed
    <2> QED BY <1>6, <2>1, FilesEnter DEF NextEntry, FileInv, Typed, RunLoaded
  <1>7. CASE FinishRun
    <2>1. \A statuses : Outcome(statuses) \in {"ready", "incomplete", "dead"}
      BY DEF Outcome
    <2> QED BY <1>7, <2>1, FilesEnd DEF FinishRun
  <1>8. ASSUME NEW u \in Current, UnitFails(u) \/ Unsupported(u)
        PROVE  FileInv'
    BY <1>8, FilesSkip DEF UnitFails, Unsupported, Fails, Computable, Ready
  <1>9. CASE Dies
    BY <1>9, FilesEnd DEF Dies
  <1>10. CASE DataCorrected
    BY <1>10 DEF DataCorrected, memory, FileInv, Typed, FilesInOrder, RunLoaded, SavingInOrder,
                 UnfinishedAreMissing, DurableProgress, Files, Mode, Value
  <1>11. CASE UNCHANGED vars
    BY <1>11 DEF vars, memory, FileInv, Typed, FilesInOrder, RunLoaded, SavingInOrder,
                 UnfinishedAreMissing, DurableProgress, Mode, Value
  <1> QED BY <1>1, <1>2, <1>3, <1>4, <1>5, <1>6, <1>7, <1>8, <1>9, <1>10, <1>11 DEF Next, Step

LEMMA FilesHold == Spec => []FileInv
  BY FilesInit, FilesNext, PTL DEF Spec

\* A finished unit is on disk under the identity of its run before the next one
\* starts, however the run goes on.
THEOREM UnitsAreDurable == Spec => []DurableProgress
  BY FilesHold, PTL DEF FileInv

-----------------------------------------------------------------------------
(* Evidence *)

\* The units before completeness is decided are not those after it.
LEMMA EvidenceIsNotLate ==
    ASSUME NEW u \in Of({"baseline", "walk_forward", "sensitivity"})
    PROVE  u \in Units /\ u \notin Late /\ u # Aggregation
  <1>1. u \in Units /\ (u[1] = "baseline" \/ u[1] = "walk_forward" \/ u[1] = "sensitivity")
    BY DEF Of
  <1>2. u[1] \notin {"htf", "monte_carlo", "aggregation"}
    BY <1>1
  <1>3. u \notin Late
    BY <1>2 DEF Of, Late
  <1>4. Aggregation[1] = "aggregation"
    BY DEF Aggregation
  <1>5. u # Aggregation
    BY <1>2, <1>4
  <1> QED BY <1>1, <1>3, <1>5

\* Remainders of numbers below the divisor.
LEMMA SmallRemainder ==
    ASSUME NEW n \in Nat, NEW a \in 0..(n - 1)
    PROVE  a % n = a
  OBVIOUS

\* A function over 1..n is a sequence.
LEMMA FunctionIsSeq ==
    ASSUME NEW S, NEW n \in Nat, NEW f \in [1..n -> S]
    PROVE  f \in Seq(S) /\ Len(f) = n
  OBVIOUS

\* An element stays where it is when a sequence grows at its end.
LEMMA PrefixStays ==
    ASSUME NEW S, NEW s \in Seq(S), NEW t \in Seq(S), NEW i \in 1..Len(s)
    PROVE  s \o t \in Seq(S) /\ i \in 1..Len(s \o t) /\ (s \o t)[i] = s[i]
  <1>1. Len(s) \in Nat /\ Len(t) \in Nat
    BY LenProperties
  <1> QED BY <1>1, ConcatProperties

\* The agenda is made of triples: a phase, an index and a symbol or nothing.
Words == STRING \cup {"data_loading", "baseline", "walk_forward", "sensitivity", "htf",
                      "monte_carlo", "aggregation", ""}
Triple == Words \X Int \X Words

LEMMA PerSymbolTyped ==
    ASSUME NEW phase \in Words, NEW n \in Nat
    PROVE  PerSymbol(phase, n) \in Seq(Triple) /\ Len(PerSymbol(phase, n)) = n * Len(Symbols)
  <1> DEFINE size == Len(Symbols)
             unit(k) == <<phase, (k - 1) \div size + 1, Symbols[((k - 1) % size) + 1]>>
             m == n * size
  <1>1. size \in Nat \ {0} /\ m \in Nat
    BY ShapeAssumption
  <1>2. ASSUME NEW k \in 1..m
        PROVE  unit(k) \in Triple
    <2>1. (k - 1) \div size \in Int /\ (k - 1) % size \in 0..(size - 1)
      <3> HIDE DEF size, m
      <3> QED BY <1>1
    <2>2. Symbols[((k - 1) % size) + 1] \in Words
      <3>1. ((k - 1) % size) + 1 \in 1..size
        BY <1>1, <2>1
      <3>2. Symbols[((k - 1) % size) + 1] \in STRING
        BY <3>1, ShapeAssumption, ElementOfSeq
      <3> QED BY <3>2, Zenon DEF Words
    <2>3. ((k - 1) \div size) + 1 \in Int
      BY <2>1
    <2> QED BY <2>2, <2>3, Zenon DEF Triple
  <1>3. [k \in 1..m |-> unit(k)] \in [1..m -> Triple]
    <2> HIDE DEF unit, m
    <2> QED BY <1>2
  <1>4. PerSymbol(phase, n) = [k \in 1..m |-> unit(k)]
    BY DEF PerSymbol
  <1> HIDE DEF unit, m
  <1>5. PerSymbol(phase, n) \in Seq(Triple) /\ Len(PerSymbol(phase, n)) = m
    BY <1>1, <1>3, <1>4, FunctionIsSeq
  <1> QED BY <1>5 DEF m

\* Every symbol has a baseline.
LEMMA EverySymbolHasABaseline ==
    ASSUME NEW k \in 1..Len(Symbols)
    PROVE  \E u \in Baselines : u[3] = Symbols[k]
  <1> DEFINE base == PerSymbol("baseline", 1)
             walk == PerSymbol("walk_forward", Windows)
             sens == [j \in 1..Observations |-> <<"sensitivity", j, "">>]
             htf == PerSymbol("htf", Variants)
             head == <<Loading>>
             last == <<MonteCarlo, Aggregation>>
             u == <<"baseline", 1, Symbols[k]>>
  <1>1. Len(Symbols) \in Nat \ {0} /\ k \in Nat \ {0} /\ k <= Len(Symbols)
    BY ShapeAssumption
  <1>20. /\ "baseline" \in Words /\ "walk_forward" \in Words /\ "htf" \in Words /\ "" \in Words
        /\ "sensitivity" \in Words /\ "data_loading" \in Words /\ "monte_carlo" \in Words
        /\ "aggregation" \in Words
    BY DEF Words
  <1>2. base \in Seq(Triple) /\ Len(base) = Len(Symbols)
    <2>1. base \in Seq(Triple) /\ Len(base) = 1 * Len(Symbols)
      BY <1>20, PerSymbolTyped
    <2> QED BY <1>1, <2>1
  <1>3. walk \in Seq(Triple) /\ htf \in Seq(Triple)
    BY <1>20, PerSymbolTyped, ShapeAssumption
  <1>4. sens \in Seq(Triple)
    <2>1. \A j \in 1..Observations : <<"sensitivity", j, "">> \in Triple
      <3>1. ASSUME NEW j \in 1..Observations PROVE j \in Int
        BY ShapeAssumption
      <3> QED BY <1>20, <3>1, Zenon DEF Triple
    <2>2. sens \in [1..Observations -> Triple]
      BY <2>1
    <2> HIDE DEF sens
    <2> QED BY <2>2, FunctionIsSeq, ShapeAssumption
  <1>5. head \in Seq(Triple) /\ last \in Seq(Triple) /\ Len(head) = 1
    <2>1. Loading \in Triple /\ MonteCarlo \in Triple /\ Aggregation \in Triple
      <3>1. 1 \in Int
        OBVIOUS
      <3> QED BY <1>20, <3>1, Zenon DEF Triple, MonteCarlo, Aggregation, Loading
    <2> QED BY <2>1
  <1>6. base[k] = u
    <2>1. k - 1 \in 0..(Len(Symbols) - 1) /\ k \in 1..(1 * Len(Symbols))
      BY <1>1
    <2>2. (k - 1) % Len(Symbols) = k - 1 /\ (k - 1) \div Len(Symbols) = 0
      BY <1>1, <2>1, SmallRemainder
    <2>3. base[k] = <<"baseline", (k - 1) \div Len(Symbols) + 1,
                      Symbols[((k - 1) % Len(Symbols)) + 1]>>
      BY <2>1 DEF PerSymbol
    <2>4. 0 + 1 = 1 /\ (k - 1) + 1 = k
      BY <1>1
    <2> QED BY <2>2, <2>3, <2>4
  <1> HIDE DEF base, walk, sens, htf, head, last, u
  <1> DEFINE first == head \o base
             second == first \o walk
             third == second \o sens
             fourth == third \o htf
             all == fourth \o last
  <1>7. first \in Seq(Triple) /\ k + 1 \in 1..Len(first) /\ first[k + 1] = u
    <2>0. head \in Seq(Triple) /\ base \in Seq(Triple)
      BY <1>2, <1>5
    <2>1. first \in Seq(Triple) /\ Len(first) = 1 + Len(Symbols)
      <3>1. first \in Seq(Triple) /\ Len(first) = Len(head) + Len(base)
        BY <2>0, ConcatProperties
      <3> QED BY <1>2, <1>5, <3>1
    <2>2. k + 1 \in 1..(1 + Len(Symbols)) /\ ~(k + 1 <= 1) /\ (k + 1) - 1 = k
      BY <1>1
    <2>3. first[k + 1] = base[(k + 1) - 1]
      <3>1. \A i \in 1..(Len(head) + Len(base)) :
               first[i] = IF i <= Len(head) THEN head[i] ELSE base[i - Len(head)]
        BY <2>0, ConcatProperties
      <3> QED BY <1>2, <1>5, <2>2, <3>1
    <2> QED BY <1>6, <2>1, <2>2, <2>3
  <1> HIDE DEF first
  <1>8. second \in Seq(Triple) /\ k + 1 \in 1..Len(second) /\ second[k + 1] = u
    BY <1>3, <1>7, PrefixStays
  <1> HIDE DEF second
  <1>9. third \in Seq(Triple) /\ k + 1 \in 1..Len(third) /\ third[k + 1] = u
    BY <1>4, <1>8, PrefixStays
  <1> HIDE DEF third
  <1>10. fourth \in Seq(Triple) /\ k + 1 \in 1..Len(fourth) /\ fourth[k + 1] = u
    BY <1>3, <1>9, PrefixStays
  <1> HIDE DEF fourth
  <1>11. k + 1 \in 1..Len(all) /\ all[k + 1] = u
    BY <1>5, <1>10, PrefixStays
  <1>12. Agenda = all
    BY DEF Agenda, all, fourth, third, second, first, head, base, walk, sens, htf, last
  <1>13. u \in Units
    BY <1>11, <1>12 DEF Units
  <1>14. u \in Baselines /\ u[3] = Symbols[k]
    BY <1>13 DEF Baselines, Of, u
  <1> QED BY <1>14

-----------------------------------------------------------------------------

LEMMA EvidenceInit == Init => EvidenceInv
  BY DEF Init, EvidenceInv, PayloadsOfOneCount, EmptyStore, ReusedUnitsMatchInputs, DoneOrFailed,
         ReadyMeansEvidence

\* What a process that begins or ended knows: nothing.
LEMMA EvidenceBlank ==
    ASSUME NEW e, Blank(e)
    PROVE  ReusedUnitsMatchInputs' /\ DoneOrFailed' /\ ReadyMeansEvidence'
  BY DEF Blank, ReusedUnitsMatchInputs, DoneOrFailed, ReadyMeansEvidence

LEMMA EvidenceEnter ==
    ASSUME FileInv, EvidenceInv, NEW e \in 1..Len(EntryModes), NEW mode, Enter(e, mode)
    PROVE  EvidenceInv'
  <1>1. PayloadsOfOneCount'
    BY StoreOpened DEF FileInv, EvidenceInv, PayloadsOfOneCount, Enter
  <1> QED BY <1>1, EvidenceBlank DEF EvidenceInv, Enter

\* A unit finishes with the value its run gives it.
LEMMA EvidenceGained ==
    ASSUME FileInv, EvidenceInv, NEW u \in todo, Update(u), UNCHANGED <<run, errors, unsupported, complete>>,
           results' = [results EXCEPT ![u] = Value(u)]
    PROVE  ReusedUnitsMatchInputs' /\ DoneOrFailed' /\ ReadyMeansEvidence'
  <1> USE DEF FileInv, EvidenceInv, Update
  <1>1. u \in Units /\ (\A v \in Units : Value(v)' = Value(v))
    BY DEF Typed, Value
  <1>2. \A v \in Units : results'[v] = IF v = u THEN Value(u) ELSE results[v]
    BY <1>1 DEF Typed
  <1>3. ReusedUnitsMatchInputs'
    BY <1>1, <1>2 DEF ReusedUnitsMatchInputs
  <1>4. DoneOrFailed'
    BY <1>1, <1>2 DEF DoneOrFailed
  <1>5. ReadyMeansEvidence'
    BY <1>1, <1>2, EvidenceIsNotLate DEF ReadyMeansEvidence, DoneOrFailed
  <1> QED BY <1>3, <1>4, <1>5

\* A unit finishes without a value.
LEMMA EvidenceSkipped ==
    ASSUME FileInv, EvidenceInv, NEW u \in todo, Update(u), UNCHANGED <<run, complete, results, disk>>,
           errors \subseteq errors', unsupported \subseteq unsupported',
           u \in errors' \cup unsupported' \cup {Aggregation}
    PROVE  EvidenceInv'
  <1> USE DEF FileInv, EvidenceInv, Update
  <1>1. \A v \in Units : Value(v)' = Value(v)
    BY DEF Value
  <1>2. DoneOrFailed'
    BY <1>1 DEF DoneOrFailed
  <1>3. ReadyMeansEvidence'
    BY <1>1, EvidenceIsNotLate DEF ReadyMeansEvidence
  <1> QED BY <1>1, <1>2, <1>3 DEF PayloadsOfOneCount, ReusedUnitsMatchInputs

\* A payload that is loaded is what the run would compute.
LEMMA LoadedIsValue ==
    ASSUME FileInv, EvidenceInv, OneCount, NEW u \in Stored, run.status = "running", Loadable(u)
    PROVE  disk[Mode][u].payload = Value(u)
  <1> DEFINE p == disk[Mode][u].payload
  <1>1. Mode \in Modes /\ p \in [data : Nat, iterations : Nat] /\ p # Missing
    BY ModeIsAMode DEF FileInv, Typed, Files, Loadable
  <1>2. p.data = run.data
    BY <1>1 DEF FileInv, FilesInOrder, RunLoaded, Loadable, Typed, Files
  <1>3. p.iterations = IF u \in Baselines THEN run.iterations ELSE 0
    BY <1>1 DEF FileInv, RunLoaded, EvidenceInv, PayloadsOfOneCount
  <1> QED BY <1>1, <1>2, <1>3 DEF Value

LEMMA EvidenceReuse ==
    ASSUME FileInv, EvidenceInv, OneCount, NEW u \in todo, Reuse(u)
    PROVE  EvidenceInv'
  <1>1. disk[Mode][u].payload = Value(u)
    BY LoadedIsValue DEF Reuse, Ready
  <1>2. PayloadsOfOneCount'
    BY DEF EvidenceInv, PayloadsOfOneCount, Reuse
  <1> QED BY <1>1, <1>2, EvidenceGained DEF EvidenceInv, Reuse

LEMMA EvidenceCompute ==
    ASSUME FileInv, EvidenceInv, OneCount, NEW u \in todo, Compute(u)
    PROVE  EvidenceInv'
  <1> USE DEF FileInv, EvidenceInv
  <1>1. u \in Stored /\ run.status = "running" /\ StorePayload(u)
    BY DEF Compute, Computable, Ready
  <1>2. PayloadsOfOneCount'
    <2> SUFFICES ASSUME NEW e \in Modes, NEW v \in Stored, disk'[e][v].payload # Missing,
                        NEW i \in Iterations
                 PROVE  disk'[e][v].payload.iterations = IF v \in Baselines THEN i ELSE 0
      BY DEF PayloadsOfOneCount
    <2>1. CASE <<e, v>> # <<Mode, u>>
      BY <1>1, <2>1, PayloadStored DEF PayloadsOfOneCount
    <2>2. CASE <<e, v>> = <<Mode, u>>
      <3>1. run.iterations = i
        BY <1>1 DEF RunLoaded, OneCount
      <3>2. disk'[e][v].payload = Value(u)
        BY <1>1, <2>2, PayloadStored
      <3>3. u = v
        BY <2>2
      <3> QED BY <3>1, <3>2, <3>3 DEF Value
    <2> QED BY <2>1, <2>2
  <1> QED BY <1>2 DEF Compute, ReusedUnitsMatchInputs, DoneOrFailed, ReadyMeansEvidence, Value

LEMMA EvidenceCommit ==
    ASSUME FileInv, EvidenceInv, Commit
    PROVE  EvidenceInv'
  <1>1. saving \in todo /\ saving \in Stored
    BY DEF FileInv, SavingInOrder, Commit
  <1>2. PayloadsOfOneCount'
    <2>1. \A e \in Modes, v \in Stored : disk'[e][v].payload = disk[e][v].payload
      BY <1>1, ManifestStored DEF FileInv, Commit
    <2> QED BY <2>1 DEF EvidenceInv, PayloadsOfOneCount
  <1> QED BY <1>1, <1>2, EvidenceGained DEF EvidenceInv, Commit

LEMMA EvidenceDecided ==
    ASSUME FileInv, EvidenceInv, DecideCompleteness
    PROVE  EvidenceInv'
  <1>1. /\ results' = results /\ run' = run /\ disk' = disk
        /\ \A u \in Units : Value(u)' = Value(u)
    BY DEF DecideCompleteness, Value
  <1>2. DoneOrFailed'
    BY <1>1 DEF DecideCompleteness, EvidenceInv, DoneOrFailed
  <1>3. ASSUME complete' = "yes" PROVE ReadyMeansEvidence'
    <2>1. /\ errors = {} /\ unsupported = {} /\ Windows > 0 /\ Observations > 0
          /\ \A u \in Baselines : HasBaseline(u)
      BY <1>3 DEF DecideCompleteness
    <2>2. \A u \in Of({"baseline", "walk_forward", "sensitivity"}) : results[u] = Value(u)
      BY <2>1, EvidenceIsNotLate DEF DecideCompleteness, EvidenceInv, DoneOrFailed
    <2>3. ASSUME NEW k \in 1..Len(Symbols) PROVE Symbols[k] \notin Tradeless(run.data)
      <3>1. PICK u \in Baselines : u[3] = Symbols[k]
        BY EverySymbolHasABaseline
      <3>2. results[u].data = run.data
        <4>1. u \in Of({"baseline", "walk_forward", "sensitivity"})
          BY <3>1 DEF Baselines, Of
        <4>2. results[u] = Value(u)
          BY <2>2, <4>1
        <4> QED BY <4>2 DEF Value
      <3>3. u[3] \notin Tradeless(results[u].data)
        BY <2>1, <3>1 DEF HasBaseline
      <3> QED BY <3>1, <3>2, <3>3
    <2>4. \A u \in Of({"baseline", "walk_forward", "sensitivity"}) : Value(u)' = Value(u)
      BY <1>1 DEF Of
    <2>5. run'.data = run.data
      BY <1>1
    <2> QED BY <1>1, <2>1, <2>2, <2>3, <2>4, <2>5 DEF ReadyMeansEvidence
  <1>4. ASSUME complete' # "yes" PROVE ReadyMeansEvidence'
    BY <1>4 DEF ReadyMeansEvidence
  <1>5. PayloadsOfOneCount' /\ ReusedUnitsMatchInputs'
    BY <1>1 DEF EvidenceInv, PayloadsOfOneCount, ReusedUnitsMatchInputs
  <1>6. ReadyMeansEvidence'
    BY <1>3, <1>4
  <1> QED BY <1>2, <1>5, <1>6 DEF EvidenceInv

LEMMA EvidenceNext ==
    ASSUME OneCount, FileInv, EvidenceInv, [Next]_vars
    PROVE  EvidenceInv'
  <1>1. ASSUME NEW mode \in {"fresh", "resume", "restart"}, NEW i \in Iterations, StartRun(mode, i)
        PROVE  EvidenceInv'
    <2>1. 1 \in 1..Len(EntryModes)
      BY ShapeAssumption
    <2> QED BY <1>1, <2>1, EvidenceEnter DEF StartRun
  <1>2. ASSUME NEW u \in Current, Reuse(u) \/ Compute(u)
        PROVE  EvidenceInv'
    BY <1>2, EvidenceReuse, EvidenceCompute DEF Current
  <1>3. CASE Commit
    BY <1>3, EvidenceCommit
  <1>4. CASE DecideCompleteness
    BY <1>4, EvidenceDecided
  <1>5. CASE Aggregate
    BY <1>5, EvidenceSkipped DEF Aggregate, Ready
  <1>6. CASE NextEntry
    <2>1. entry + 1 \in 1..Len(EntryModes)
      BY <1>6, ShapeAssumption DEF NextEntry, FileInv, Typed
    <2> QED BY <1>6, <2>1, EvidenceEnter DEF NextEntry
  <1>7. CASE FinishRun \/ Dies
    BY <1>7, EvidenceBlank DEF FinishRun, Dies, EvidenceInv, PayloadsOfOneCount
  <1>8. ASSUME NEW u \in Current, UnitFails(u) \/ Unsupported(u)
        PROVE  EvidenceInv'
    BY <1>8, EvidenceSkipped DEF UnitFails, Unsupported, Fails, Current
  <1>9. CASE DataCorrected \/ UNCHANGED vars
    <2>1. CASE DataCorrected
      BY <2>1 DEF DataCorrected, memory, EvidenceInv, PayloadsOfOneCount, ReusedUnitsMatchInputs,
                  DoneOrFailed, ReadyMeansEvidence, Value
    <2>2. CASE UNCHANGED vars
      BY <2>2 DEF vars, memory, EvidenceInv, PayloadsOfOneCount, ReusedUnitsMatchInputs,
                  DoneOrFailed, ReadyMeansEvidence, Value
    <2> QED BY <1>9, <2>1, <2>2
  <1> QED BY <1>1, <1>2, <1>3, <1>4, <1>5, <1>6, <1>7, <1>8, <1>9 DEF Next, Step

LEMMA EvidenceHolds ==
    ASSUME OneCount
    PROVE  Spec => [](FileInv /\ EvidenceInv)
  BY FilesInit, FilesNext, EvidenceInit, EvidenceNext, PTL DEF Spec

\* Whatever earlier runs left behind, crashed or not, over these or other candles,
\* a reused unit is what its run would have computed.  The assumption is needed:
\* the run research_stale_checkpoint violates the property without it.
THEOREM ReuseIsSound ==
    ASSUME OneCount
    PROVE  Spec => []ReusedUnitsMatchInputs
  BY EvidenceHolds, PTL DEF EvidenceInv

\* A report that is ready for review rests on a baseline of every symbol and on
\* every window and sensitivity value, computed from the loaded candles.
THEOREM ReadinessIsSound ==
    ASSUME OneCount
    PROVE  Spec => []ReadyMeansEvidence
  BY EvidenceHolds, PTL DEF EvidenceInv
=============================================================================
