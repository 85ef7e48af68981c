-------------------------- MODULE ProfilingSession --------------------------
(***************************************************************************)
(* The Performance and Profile commands (commands/performance) from the    *)
(* sample on disk to the results, with the ExecutionContext they run their *)
(* profiler in and the handlers of the process-wide LOGGER.                *)
(*                                                                         *)
(* A session is one profiler run.  For a source model it runs in this      *)
(* process, otherwise in a subprocess.  It reports each batch size by a    *)
(* line it appends to a temporary file and may raise or be killed at any   *)
(* point, in the middle of a line too; the command then reads what there   *)
(* is.  Performance has one session, Profile one per sample.               *)
(*                                                                         *)
(* None, the batch size of a model without batching, is 0.  The mean of a  *)
(* fixed number of windows is their sum.  Percentages are integers.        *)
(*                                                                         *)
(* A definition introduced by "Fault" is a plausible bug in the definition *)
(* after it, with which TLC refutes the property named; nothing uses it.   *)
(***************************************************************************)
EXTENDS Integers, Sequences, FiniteSets, SequencesExt

CONSTANTS
    Profiles,       \* optimization profiles
    SampleCount,    \* length of the dataloader given to Profile
    Latencies,      \* latencies a window may measure
    Scale,          \* throughput of one request with latency 1
    Consoles,       \* handlers of LOGGER that are no FileHandlers
    MaxBatchSize,   \* where the device runs out of memory, a power of two
    MaxCommands     \* bound on the commands of a behaviour

ASSUME SessionAssumption ==
    /\ Latencies \subseteq Nat \ {0} /\ \A l \in Latencies : Scale % l = 0
    /\ SampleCount \in Nat \ {0} /\ MaxBatchSize \in Nat \ {0} /\ MaxCommands \in Nat
    /\ \A p \in Profiles :
          /\ DOMAIN p = {"max_batch_size", "batch_sizes", "max_trials", "stability", "cutoff"}
          /\ p.max_batch_size \in Nat /\ p.batch_sizes \in Seq(Nat)
    /\ IsFiniteSet(Consoles) /\ Consoles \cap {"navigator.log", "format.log"} = {}

VARIABLES
    attached,       \* handlers of LOGGER besides files, as the process set them up
    handlers,       \* LOGGER.handlers
    disabled,       \* FileHandlersLogging._disabled_handlers
    position,       \* where the loop over the handlers is that removes them
    sampleDir,      \* the sample in model_input/profiler
    command,        \* the running command and what it runs on
    pc,             \* its next step
    sample,         \* number of the sample whose session runs
    lines, torn,    \* the temporary file: whole lines, and a partial one
    sizes,          \* batch sizes the profiler has still to measure
    windows,        \* latencies of the current batch size
    previous,       \* throughput of the last batch size
    results,        \* profiling_results
    status,         \* status of the last command
    calls

logging  == <<attached, handlers, disabled, position>>
profiler == <<lines, torn, sizes, windows, previous>>
vars == <<logging, sampleDir, command, pc, sample, profiler, results, status, calls>>

NoThroughput == -1

\* Performance reads the sample of the optimization, Profile without a
\* dataloader as well.
FromDataloader == command.name = "profile" /\ command.dataloader
LastSample     == IF FromDataloader THEN SampleCount - 1 ELSE 0
NoSample       == -1
OptimizeSample == -2
SampleOf(id)   == IF FromDataloader THEN id ELSE OptimizeSample

NoCommand == [name |-> "none"]

Init ==
    /\ attached \in SUBSET Consoles
    /\ handlers \in {s \o f : s \in SetToSeqs(attached), f \in {<<>>, <<"navigator.log">>}}
    /\ disabled = <<>> /\ position = 1
    /\ sampleDir = NoSample
    /\ command = NoCommand /\ pc = "idle" /\ sample = 0
    /\ lines = <<>> /\ torn = FALSE
    /\ sizes = <<>> /\ windows = <<>> /\ previous = NoThroughput
    /\ results = <<>> /\ status = "none" /\ calls = 0

----------------------------------------------------------------------------
(* The plan of the profiler *)

PowersUpTo(n) == {s \in 1 .. n : \E k \in 0 .. n : s = 2^k}

\* sorted, of a set and of a list: the k-th number is the one that k numbers do
\* not exceed, fewer than k being smaller.
Ascending(S) == [k \in 1 .. Cardinality(S) |->
                    CHOOSE n \in S : Cardinality({m \in S : m <= n}) = k]

Sorted(seq) == [k \in DOMAIN seq |->
                   CHOOSE n \in ToSet(seq) :
                       /\ Cardinality({i \in DOMAIN seq : seq[i] < n}) < k
                       /\ Cardinality({i \in DOMAIN seq : seq[i] <= n}) >= k]

\* Profiler.__init__.  Without a limit the sizes go on to 2^30, which is more
\* than any device takes.
BatchSizes(profile, batching) ==
    CASE ~batching                      -> <<0>>
      [] batching /\ profile.max_batch_size > 0 ->
             Ascending(PowersUpTo(profile.max_batch_size) \cup {profile.max_batch_size})
      [] batching /\ profile.max_batch_size = 0 /\ profile.batch_sizes # <<>> ->
             Sorted(profile.batch_sizes)
      [] OTHER                          -> Ascending(PowersUpTo(2 * MaxBatchSize))

\* The number of windows that are compared, count.
Count == LET trials == command.profile.max_trials IN IF trials < 3 THEN trials ELSE 3

Sum(seq) == FoldSeq(+, 0, seq)
LastWindows(seq) == SubSeq(seq, Len(seq) - Count + 1, Len(seq))

\* _is_measurement_stable: every one of the last windows deviates from their
\* mean by less than stability percent.
Stable(measured) ==
    /\ Len(measured) >= Count
    /\ LET last == LastWindows(measured) IN
       \A i \in DOMAIN last :
          LET deviation == Count * last[i] - Sum(last)
          IN (IF deviation < 0 THEN -deviation ELSE deviation) * 100
                < command.profile.stability * Sum(last)

\* from_measurements and from_profiling_results; None counts as one request.
Throughput(size, last) ==
    Sum([i \in DOMAIN last |-> (IF size = 0 THEN 1 ELSE size) * (Scale \div last[i])])

\* The condition of break.
CutOff(throughput, before) ==
    /\ before # NoThroughput
    /\ throughput * 100 < before * (100 + command.profile.cutoff)

----------------------------------------------------------------------------
(* Log handlers *)

IsFile(handler) == handler \notin Consoles

\* ExecutionContext.__exit__: the output of a subprocess is logged to files.
HideConsole ==
    /\ pc = "leave"
    /\ pc' = IF command.source THEN "logged" ELSE "hide"
    /\ position' = 1
    /\ UNCHANGED <<attached, handlers, disabled, sampleDir, command, sample, profiler, results,
                   status, calls>>

\* FileHandlersLogging.__enter__ removes handlers from the list it iterates:
\* after a removal the next handler is skipped.
HideHandler ==
    /\ pc = "hide" /\ position <= Len(handlers)
    /\ IF IsFile(handlers[position]) THEN UNCHANGED <<handlers, disabled>>
       ELSE /\ disabled' = Append(disabled, handlers[position])
            /\ handlers' = RemoveAt(handlers, position)
    /\ position' = position + 1
    /\ UNCHANGED <<attached, sampleDir, command, pc, sample, profiler, results, status, calls>>

Log ==
    /\ pc = "hide" /\ position > Len(handlers)
    /\ pc' = "logged"
    /\ UNCHANGED <<logging, sampleDir, command, sample, profiler, results, status, calls>>

\* Fault (ConsoleComesBack): an exception of the body passes the restoring.
RemovedHandlersUnlessFailing == IF status = "failing" THEN <<>> ELSE disabled

\* __exit__ adds what was removed at the end.
RemovedHandlers == disabled

\* What ExecutionContext.__exit__ and the command do next depends on how the
\* body ended: another sample, all done, or an exception that leaves the
\* command.
ShowConsole ==
    /\ pc = "logged"
    /\ handlers' = handlers \o RemovedHandlers /\ disabled' = <<>>
    /\ UNCHANGED <<attached, position>>
    /\ IF status = "failing" \/ sample = LastSample
       THEN pc' = "end" /\ UNCHANGED sample
       ELSE pc' = "sample" /\ sample' = sample + 1
    /\ UNCHANGED <<sampleDir, command, profiler, results, status, calls>>

----------------------------------------------------------------------------
(* Commands *)

Commands ==
    [name : {"performance", "profile"}, source : BOOLEAN, dataloader : BOOLEAN,
     batching : BOOLEAN, stabilized : BOOLEAN, profile : Profiles]

\* LoggingContext adds a handler for format.log.
Begin ==
    /\ pc = "idle" /\ calls < MaxCommands
    /\ calls' = calls + 1
    /\ command' \in {c \in Commands : c.name = "performance" => ~c.dataloader}
    /\ handlers' = Append(handlers, "format.log")
    /\ pc' = "file" /\ sample' = 0 /\ results' = <<>> /\ status' = "running"
    /\ UNCHANGED <<attached, disabled, position, sampleDir, profiler>>

\* The file of a model that is no source model is not there.
SkipCommand ==
    /\ pc = "file" /\ ~command.source
    /\ pc' = "end" /\ status' = "SKIPPED"
    /\ UNCHANGED <<logging, sampleDir, command, sample, profiler, results, calls>>

\* The samples of the profiler are emptied.
ClearSamples ==
    /\ pc = "file"
    /\ sampleDir' = NoSample /\ pc' = "sample"
    /\ UNCHANGED <<logging, command, sample, profiler, results, status, calls>>

\* Fault (ResultsAreOfTheirSample): a sample that is there is not replaced.
KeptSample(id) == IF sampleDir = NoSample THEN SampleOf(id) ELSE sampleDir

\* _next_sample and the copy in Performance: there is one file, replaced for
\* every sample.
WrittenSample(id) == SampleOf(id)

WriteSample ==
    /\ pc = "sample"
    /\ sampleDir' = WrittenSample(sample)
    /\ pc' = "session"
    /\ UNCHANGED <<logging, command, sample, profiler, results, status, calls>>

\* A tensor cannot be extracted or written.
SampleFails ==
    /\ pc = "sample"
    /\ pc' = "end" /\ status' = "failing"
    /\ UNCHANGED <<logging, sampleDir, command, sample, profiler, results, calls>>

\* Fault (ResultsFollowThePlan): the sessions of a command share their file.
FileOfCommand == lines

\* NamedTemporaryFile
FileOfSession == <<>>

\* The ExecutionContext is entered, the script copied and started.
StartSession ==
    /\ pc = "session"
    /\ lines' = FileOfSession /\ torn' = FALSE
    /\ sizes' = BatchSizes(command.profile, command.batching)
    /\ windows' = <<>> /\ previous' = NoThroughput
    /\ pc' = "activate"
    /\ UNCHANGED <<logging, sampleDir, command, sample, results, status, calls>>

Outcome == IF status = "failing" THEN "FAIL" ELSE IF status = "SKIPPED" THEN "SKIPPED"
           ELSE IF results = <<>> THEN "FAIL" ELSE "OK"

\* LoggingContext takes its handler away; no results are an error.
End ==
    /\ pc = "end"
    /\ \E i \in DOMAIN handlers :
          handlers[i] = "format.log" /\ handlers' = RemoveAt(handlers, i)
    /\ status' = Outcome
    /\ pc' = "idle" /\ command' = NoCommand
    /\ UNCHANGED <<attached, disabled, position, sampleDir, sample, profiler, results, calls>>

----------------------------------------------------------------------------
(* The profiler *)

ActivateRunner ==
    /\ pc = "activate"
    /\ pc' = "measure"
    /\ UNCHANGED <<logging, sampleDir, command, sample, profiler, results, status, calls>>

\* Batches beyond the device's limit are never measured.
Fits == sizes # <<>> /\ Head(sizes) <= MaxBatchSize

\* One window of max_trials; not stable yet, or already.
MeasureWindow ==
    /\ pc = "measure" /\ Fits /\ ~command.stabilized
    /\ Len(windows) < command.profile.max_trials /\ ~Stable(windows)
    /\ \E l \in Latencies : windows' = Append(windows, l)
    /\ UNCHANGED <<logging, sampleDir, command, pc, sample, lines, torn, sizes, previous,
                   results, status, calls>>

\* A runner that stabilises itself is asked once; a batch size of None cannot
\* be compared with 1.
MeasureStabilized ==
    /\ pc = "measure" /\ Fits /\ command.stabilized /\ windows = <<>>
    /\ Head(sizes) # 0
    /\ \E l \in Latencies : windows' = [i \in 1 .. Count |-> l]
    /\ UNCHANGED <<logging, sampleDir, command, pc, sample, lines, torn, sizes, previous,
                   results, status, calls>>

\* The result of the current batch size, and what it was measured on.
Line ==
    [sample_id |-> sample, batch_size |-> Head(sizes), measured_on |-> sampleDir,
     throughput |-> Throughput(Head(sizes), LastWindows(windows))]

\* The line is appended, and the next batch size measured unless the
\* throughput did not grow enough.
Report ==
    /\ pc = "measure" /\ sizes # <<>> /\ windows # <<>> /\ Stable(windows)
    /\ lines' = Append(lines, Line)
    /\ sizes' = IF CutOff(Line.throughput, previous) THEN <<>> ELSE Tail(sizes)
    /\ previous' = Line.throughput /\ windows' = <<>>
    /\ UNCHANGED <<logging, sampleDir, command, pc, sample, torn, results, status, calls>>

\* The runner is deactivated and the script ends.
Exit ==
    /\ pc = "measure" /\ sizes = <<>>
    /\ pc' = "read"
    /\ UNCHANGED <<logging, sampleDir, command, sample, profiler, results, status, calls>>

\* activate, an inference, the measurement or deactivate raises, the trials
\* are used up, or the device runs out of memory.  The runner is deactivated
\* on the way out, and the command goes on: allow_failure.
ScriptRaises ==
    /\ pc \in {"activate", "measure"}
    /\ pc' = "read"
    /\ UNCHANGED <<logging, sampleDir, command, sample, profiler, results, status, calls>>

\* A subprocess is killed, perhaps in the middle of a line.
ScriptKilled ==
    /\ pc \in {"activate", "measure"} /\ ~command.source
    /\ pc' = "read"
    /\ \/ torn' = torn
       \/ torn' = TRUE /\ sizes # <<>> /\ windows # <<>> /\ Stable(windows)
    /\ UNCHANGED <<logging, sampleDir, command, sample, lines, sizes, windows, previous,
                   results, status, calls>>

\* The temporary file goes with the session.
NoProfiler ==
    /\ lines' = FileOfSession /\ torn' = FALSE
    /\ sizes' = <<>> /\ windows' = <<>> /\ previous' = NoThroughput

\* KeyboardInterrupt in this process is no Exception: it passes the handler
\* of execute_local_runtime_script and becomes the failure of the command in
\* ExecutionContext.__exit__.
InterruptScript ==
    /\ pc \in {"activate", "measure"} /\ command.source
    /\ pc' = "leave" /\ status' = "failing"
    /\ NoProfiler
    /\ UNCHANGED <<logging, sampleDir, command, sample, results, calls>>

\* The lines are read; a partial one is an InvalidLineError.
ReadResults ==
    /\ pc = "read"
    /\ IF torn THEN status' = "failing" /\ UNCHANGED results
               ELSE results' = results \o lines /\ UNCHANGED status
    /\ pc' = "leave"
    /\ NoProfiler
    /\ UNCHANGED <<logging, sampleDir, command, sample, calls>>

Next ==
    \/ Begin \/ SkipCommand \/ ClearSamples \/ WriteSample \/ SampleFails
    \/ StartSession \/ HideConsole \/ HideHandler \/ Log \/ ShowConsole \/ End
    \/ ActivateRunner \/ MeasureWindow \/ MeasureStabilized \/ Report \/ Exit
    \/ ScriptRaises \/ ScriptKilled \/ InterruptScript \/ ReadResults

Spec == Init /\ [][Next]_vars

----------------------------------------------------------------------------
(* Properties *)

\* Where the results of a sample begin.
FirstOfSample(i) == i = 1 \/ results[i - 1].sample_id # results[i].sample_id

SameSample(i, j) == results[i].sample_id = results[j].sample_id

\* When a command's sessions are over its results are, sample by sample, a
\* beginning of the batch sizes the profile asks for, and only the last one
\* of a sample may have failed to raise the throughput enough, whichever
\* sessions raised or were killed (Profiler.run, Performance._run and
\* Profile._run).
ResultsFollowThePlan ==
    LET plan == BatchSizes(command.profile, command.batching) IN
    pc = "end" =>
        /\ \A i \in DOMAIN results : results[i].sample_id \in 0 .. LastSample
        /\ \A i, j \in DOMAIN results : i < j =>
              /\ results[i].sample_id <= results[j].sample_id
              /\ SameSample(i, j) /\ j + 1 \in DOMAIN results /\ SameSample(i, j + 1) =>
                    ~CutOff(results[j].throughput, results[j - 1].throughput)
        /\ \A i \in DOMAIN results : \A j \in DOMAIN results :
              FirstOfSample(i) /\ i <= j /\ SameSample(i, j) =>
                    j - i + 1 \in DOMAIN plan /\ results[j].batch_size = plan[j - i + 1]

\* A result that carries the id of a sample was measured on this sample and
\* not on one that an earlier session or command left on disk
\* (Profile._next_sample, Performance._run, load_samples).
ResultsAreOfTheirSample ==
    pc = "end" => \A i \in DOMAIN results : results[i].measured_on = SampleOf(results[i].sample_id)

\* The handlers a process attached to LOGGER besides files are all there,
\* each once, except while the output of a subprocess is logged, when a
\* single one is gone; and no format.log of an earlier command is among the
\* handlers between commands (FileHandlersLogging, LoggingContext), however
\* the command ended.
ConsoleComesBack ==
    LET shown == {i \in DOMAIN handlers : ~IsFile(handlers[i])} IN
    /\ pc \notin {"hide", "logged"} => attached = {handlers[i] : i \in shown}
    /\ \A i, j \in shown : handlers[i] = handlers[j] => i = j
    /\ pc = "logged" /\ ~command.source /\ (\E h \in Consoles : attached = {h}) => shown = {}
    /\ pc = "idle" => "format.log" \notin ToSet(handlers)
=============================================================================
