---------------------------- MODULE ResearchRun ----------------------------
(***************************************************************************)
(* The validation pipeline: the command line (app/backtest/phase9_cli.py)  *)
(* runs one UnifiedResearchOrchestrator per entry mode, each unit of work  *)
(* is stored in a checkpoint of two files, and a run that died is resumed  *)
(* from them, possibly over other candles or with other parameters.        *)
(*                                                                         *)
(* A result is abstracted to what it was computed from.  The label of the  *)
(* run, its seed, configuration and date range select the directory of the *)
(* store and never change here; the stored candles may be corrected        *)
(* between runs, and "data" counts their versions.                         *)
(***************************************************************************)
EXTENDS Integers, Sequences, FiniteSets, SequencesExt

CONSTANTS
    EntryModes,        \* sequence of entry modes to validate
    Symbols,           \* sequence of symbols
    Windows,           \* number of walk-forward windows
    Observations,      \* number of sensitivity values
    Variants,          \* number of higher-timeframe variants (three in the code)
    Iterations,        \* baseline iteration counts an operator may ask for
    Tradeless(_),      \* Tradeless(d): symbols without an eligible entry in version d
    DataBound,         \* bound: versions of the stored candles
    RunBound,          \* bound: runs started
    FaultBound         \* bound: units that fail

ASSUME ShapeAssumption ==
    /\ EntryModes \in Seq(STRING) /\ Symbols \in Seq(STRING)
    /\ Len(EntryModes) > 0 /\ Len(Symbols) > 0
    /\ Windows \in Nat /\ Observations \in Nat /\ Variants \in Nat
    /\ Iterations \subseteq Nat /\ DataBound \in Nat
    /\ RunBound \in Nat /\ FaultBound \in Nat

VARIABLES
    data,          \* version of the candles in the database
    disk,          \* disk[e][u]: the manifest and the payload of unit u
    run,           \* the process: its status, arguments and loaded candles
    entry,         \* index of the entry mode being validated
    todo,          \* units of this entry mode that are not finished
    results,       \* results[u]: what the result of u was computed from, or Missing
    errors,        \* progress.errors: units that raised
    unsupported,   \* sensitivity values that raised ValueError
    saving,        \* the unit between its payload and its manifest, or NoUnit
    completed,     \* units counted so far, as the progress artifact shows them
    complete,      \* the completeness the report will claim
    reports,       \* status of the entry modes that are done
    starts, faults \* counters for the bounds

memory == <<entry, todo, results, errors, unsupported, saving, completed, complete, reports>>
vars == <<data, disk, run, memory, starts, faults>>

-----------------------------------------------------------------------------
(* Units of work *)

Loading == <<"data_loading", 1, "">>
MonteCarlo == <<"monte_carlo", 1, "">>
Aggregation == <<"aggregation", 1, "">>

\* The product of 1..n and the symbols in the order of the nested loops.
PerSymbol(phase, n) ==
    [k \in 1..(n * Len(Symbols)) |->
        <<phase, (k - 1) \div Len(Symbols) + 1, Symbols[((k - 1) % Len(Symbols)) + 1]>>]

Agenda ==
    <<Loading>> \o PerSymbol("baseline", 1) \o PerSymbol("walk_forward", Windows)
        \o [k \in 1..Observations |-> <<"sensitivity", k, "">>]
        \o PerSymbol("htf", Variants) \o <<MonteCarlo, Aggregation>>

Units == {Agenda[k] : k \in 1..Len(Agenda)}
Stored == Units \ {Aggregation}
Of(phases) == {u \in Units : u[1] \in phases}
Baselines == Of({"baseline"})

\* Phases whose failures are recorded and passed over.
Tolerant == Of({"walk_forward", "sensitivity", "htf"})

\* What the report's completeness does not wait for.
Late == Of({"htf", "monte_carlo", "aggregation"})

NoUnit == <<"none", 0, "">>
Missing == [data |-> 0, iterations |-> 0]
NoFile == 0

\* Only a baseline draws random entries, so only it depends on their number.
Value(u) ==
    [data |-> run.data, iterations |-> IF u \in Baselines THEN run.iterations ELSE 0]

-----------------------------------------------------------------------------
(* Checkpoints *)

EmptyStore == [u \in Stored |-> [manifest |-> NoFile, payload |-> Missing]]
Mode == EntryModes[entry]

\* Mutant: any complete checkpoint is taken, whatever its identity.
LoadableByName(u) ==
    run.mode = "resume" /\ disk[Mode][u].manifest # NoFile /\ disk[Mode][u].payload # Missing

\* load: the manifest must carry this run's identity; a baseline's names its
\* symbol and nothing of the iterations.
Loadable(u) ==
    /\ run.mode = "resume"
    /\ disk[Mode][u].manifest = run.data
    /\ disk[Mode][u].payload # Missing

StorePayload(u) == disk' = [disk EXCEPT ![Mode][u].payload = Value(u)]
\* Mutant: the manifest is not written.
StoreNoManifest(u) == UNCHANGED disk

StoreManifest(u) == disk' = [disk EXCEPT ![Mode][u].manifest = run.data]

\* A store opened for a restart removes what its directory holds.
OpenStore(e, mode) ==
    IF mode = "restart" THEN [disk EXCEPT ![EntryModes[e]] = EmptyStore] ELSE disk

-----------------------------------------------------------------------------
(* The orchestrator *)

Modes == {EntryModes[k] : k \in 1..Len(EntryModes)}

\* What is left of a process that ended.
Ended(status) == [status |-> status, mode |-> "fresh", data |-> 0, iterations |-> 0]

Init ==
    /\ data = 1 /\ disk = [e \in Modes |-> EmptyStore]
    /\ run = Ended("idle")
    /\ entry = 1 /\ todo = Units /\ results = [u \in Units |-> Missing]
    /\ errors = {} /\ unsupported = {} /\ saving = NoUnit
    /\ completed = 0 /\ complete = "undecided"
    /\ reports = <<>> /\ starts = 0 /\ faults = 0

Blank(e) ==
    /\ entry' = e /\ todo' = Units /\ results' = [u \in Units |-> Missing]
    /\ errors' = {} /\ unsupported' = {} /\ saving' = NoUnit
    /\ completed' = 0 /\ complete' = "undecided"

\* UnifiedResearchOrchestrator.run begins for the entry mode of index e.
Enter(e, mode) == Blank(e) /\ disk' = OpenStore(e, mode)

StartRun(mode, iterations) ==
    /\ run.status # "running" /\ starts < RunBound
    /\ starts' = starts + 1
    /\ run' = [status |-> "running", mode |-> mode, data |-> data, iterations |-> iterations]
    /\ Enter(1, mode)
    /\ UNCHANGED <<data, reports, faults>>

\* Mutant: the last phases wait for a completeness that may never come.
ReadyWhenComplete(u) ==
    run.status = "running" /\ saving = NoUnit /\ u \in todo /\ (u \in Late => complete = "yes")

\* Baselines run side by side, the units of the other phases one after the
\* other, and the higher-timeframe units when completeness was decided.
Turn == [u \in Units |-> IF u \in Baselines THEN 2 ELSE CHOOSE k \in 1..Len(Agenda) : Agenda[k] = u]
Current == {u \in todo : \A v \in todo : Turn[u] <= Turn[v]}
Ready(u) ==
    /\ run.status = "running" /\ saving = NoUnit /\ u \in todo
    /\ u \in Late => complete # "undecided"

\* update(): every finished unit is counted, whatever came of it.
Update(u) ==
    /\ todo' = todo \ {u}
    /\ completed' = completed + 1

Reuse(u) ==
    /\ Ready(u) /\ u \in Stored /\ Loadable(u)
    /\ results' = [results EXCEPT ![u] = disk[Mode][u].payload]
    /\ Update(u)
    /\ UNCHANGED <<data, disk, run, entry, errors, unsupported, saving, complete, reports,
                   starts, faults>>

\* The pool starts when every baseline was looked up.
Computable(u) ==
    /\ Ready(u) /\ ~(u \in Stored /\ Loadable(u))
    /\ u \in Baselines => \A v \in todo \cap Baselines : ~Loadable(v)

\* save, up to the replacement of the .pkl file.
Compute(u) ==
    /\ Computable(u) /\ u \in Stored
    /\ StorePayload(u)
    /\ saving' = u
    /\ UNCHANGED <<data, run, entry, todo, results, errors, unsupported, completed, complete,
                   reports, starts, faults>>

\* save, the replacement of the .json file, and the update that follows.
Commit ==
    /\ run.status = "running" /\ saving # NoUnit
    /\ StoreManifest(saving)
    /\ results' = [results EXCEPT ![saving] = Value(saving)]
    /\ Update(saving)
    /\ saving' = NoUnit
    /\ UNCHANGED <<data, run, entry, errors, unsupported, complete, reports, starts,
                   faults>>

\* A tolerant unit raises while it is computed, or while it is saved.
Fails(u) ==
    /\ u \in Tolerant /\ faults < FaultBound
    /\ Computable(u) \/ (run.status = "running" /\ saving = u)
    /\ Update(u)
    /\ saving' = NoUnit /\ faults' = faults + 1
    /\ UNCHANGED <<data, disk, run, entry, results, complete, reports, starts>>

UnitFails(u) == Fails(u) /\ errors' = errors \cup {u} /\ UNCHANGED unsupported

\* A ValueError in a sensitivity unit counts as a parameter without mapping.
Unsupported(u) ==
    /\ u \in Of({"sensitivity"}) /\ saving = NoUnit
    /\ Fails(u)
    /\ unsupported' = unsupported \cup {u} /\ UNCHANGED errors

HasBaseline(u) == u[3] \notin Tradeless(results[u].data)

\* Mutant: completeness ignores the recorded errors.
DecideIgnoringErrors ==
    /\ run.status = "running" /\ complete = "undecided"
    /\ todo \subseteq Late
    /\ complete' = IF \A u \in Baselines : HasBaseline(u) THEN "yes" ELSE "no"
    /\ UNCHANGED <<data, disk, run, entry, todo, results, errors, unsupported, saving, completed,
                   reports, starts, faults>>

DecideCompleteness ==
    /\ run.status = "running" /\ complete = "undecided"
    /\ todo \subseteq Late
    /\ complete' = IF /\ Windows > 0 /\ Observations > 0
                      /\ unsupported = {} /\ errors = {}
                      /\ \A u \in Baselines : HasBaseline(u)
                   THEN "yes" ELSE "no"
    /\ UNCHANGED <<data, disk, run, entry, todo, results, errors, unsupported, saving, completed,
                   reports, starts, faults>>

Aggregate ==
    /\ Current = {Aggregation} /\ Ready(Aggregation)
    /\ Update(Aggregation)
    /\ UNCHANGED <<data, disk, run, entry, results, errors, unsupported, saving, complete,
                   reports, starts, faults>>

Status == IF complete = "yes" THEN "READY_FOR_HUMAN_REVIEW" ELSE "INCOMPLETE_VALIDATION"

\* The comparison report is ready, and the exit code 0, if every mode's is.
Outcome(statuses) ==
    IF \A k \in 1..Len(statuses) : statuses[k] = "READY_FOR_HUMAN_REVIEW"
    THEN "ready" ELSE "incomplete"

NextEntry ==
    /\ run.status = "running" /\ todo = {} /\ entry < Len(EntryModes)
    /\ reports' = Append(reports, Status)
    /\ Enter(entry + 1, run.mode)
    /\ UNCHANGED <<data, run, starts, faults>>

FinishRun ==
    /\ run.status = "running" /\ todo = {} /\ entry = Len(EntryModes)
    /\ run' = Ended(Outcome(Append(reports, Status)))
    /\ reports' = <<>> /\ Blank(1)
    /\ UNCHANGED <<data, disk, starts, faults>>

\* A worker that raises ends the run; so does a failure outside the handlers
\* of the tolerant phases, or the end of the process, between any two steps.
Dies ==
    /\ run.status = "running"
    /\ run' = Ended("dead")
    /\ reports' = <<>> /\ Blank(1)
    /\ UNCHANGED <<data, disk, starts, faults>>

\* The historical candles are fetched again and corrected.  A run loads them
\* when it starts, so it may as well happen between two runs.
DataCorrected ==
    /\ run.status # "running" /\ data < DataBound
    /\ data' = data + 1
    /\ UNCHANGED <<disk, run, memory, starts, faults>>

Step == \/ \E u \in Current : Reuse(u) \/ Compute(u)
        \/ Commit \/ DecideCompleteness \/ Aggregate \/ NextEntry \/ FinishRun

Next ==
    \/ \E mode \in {"fresh", "resume", "restart"}, i \in Iterations : StartRun(mode, i)
    \/ Step
    \/ \E u \in Current : UnitFails(u) \/ Unsupported(u)
    \/ Dies \/ DataCorrected

Spec == Init /\ [][Next]_vars

\* The event loop and the workers keep going while the process lives.
LiveSpec == Spec /\ WF_vars(Step)

-----------------------------------------------------------------------------
(* Properties *)

\* Whatever was reused from earlier runs, a result of this run is the one its
\* own candles and parameters give (ResearchCheckpointStore.load and save).
ReusedUnitsMatchInputs ==
    \A u \in Units : results[u] # Missing => results[u] = Value(u)

\* A finished unit is on disk under the identity of its run before the next
\* one starts, so a run that dies loses only the units it was working on.
DurableProgress ==
    \A u \in Stored : results[u] # Missing =>
        disk[Mode][u] = [manifest |-> run.data, payload |-> results[u]]

\* A report is ready for review only over a baseline for every symbol and over
\* every window and sensitivity value, all computed from the loaded candles.
\* The higher-timeframe units are not among them: their failures come later.
ReadyMeansEvidence ==
    complete = "yes" =>
        /\ \A u \in Of({"baseline", "walk_forward", "sensitivity"}) : results[u] = Value(u)
        /\ \A k \in 1..Len(Symbols) : Symbols[k] \notin Tradeless(run.data)
        /\ Windows > 0 /\ Observations > 0

\* A run comes to an end: with a report, or with an exception.
RunEnds == run.status = "running" ~> run.status # "running"
=============================================================================
