-------------------------- MODULE PipelineExecution --------------------------
(***************************************************************************)
(* A run of PipelineManager: workspace and context initialisation, then    *)
(* the execution units of all pipelines, one after the other, each one     *)
(* executed, recorded in the PipelineContext and followed by a rewrite of  *)
(* context.yaml.  Runs follow each other in one workspace directory, and   *)
(* the process may be killed between any two steps.                        *)
(*                                                                         *)
(*   pos         the unit the for loops of PipelineManager.run and         *)
(*               Pipeline.run have reached, in the concatenation of the    *)
(*               pipelines (Plan)                                          *)
(*   phase       where in the body of that loop the process is             *)
(*   result      status of the CommandOutput _execute_unit returned        *)
(*   commands    PipelineContext.commands: the status recorded per unit    *)
(*   artifact    the model file of each model configuration: "fresh" was   *)
(*               written by a command of this run that succeeded; "stale"  *)
(*               was there before or is what a failed command left         *)
(*   contextFile, saved   context.yaml and the commands dumped in it       *)
(*                                                                         *)
(* The content of models, samples and command outputs is abstracted to     *)
(* which named values exist; a command ends in one of the statuses its     *)
(* code can return.  Commands are assumed to return (ExecutionContext      *)
(* starts subprocesses without a timeout).                                 *)
(*                                                                         *)
(* A definition introduced by "Fault" is what a plausible bug would make   *)
(* of the definition after it, and is used nowhere: with it in that place, *)
(* TLC refutes the property named.                                         *)
(***************************************************************************)
EXTENDS PlanRequirements, FiniteSets

CONSTANTS
  SourceRunners,  \* get_source_default_runners of the framework
  KeepsWorkspace, \* package optimised in its own workspace: no initialize()
  HasVerifyFunc   \* config.verify_func is not None

ASSUME PlanAssumption ==
  /\ PlanIsTyped
  /\ ModelsAreTyped
  /\ RequirementsAreOrdered
  /\ ModelsAreMadeOnce
  /\ ArgumentsHaveOneSource

ASSUME SettingAssumption ==
  /\ SourceRunners \subseteq Runners
  /\ KeepsWorkspace \in BOOLEAN
  /\ HasVerifyFunc \in BOOLEAN

Ids == {Id(Plan[i]) : i \in DOMAIN Plan}

Statuses == {"OK", "FAIL", "SKIPPED"}
NotRun == "NOT_RUN"
Blank == [id \in Ids |-> NotRun]

VARIABLES pos, phase, result, commands, artifact, contextFile, saved

vars == <<pos, phase, result, commands, artifact, contextFile, saved>>

-----------------------------------------------------------------------------
(* What _execute_unit makes of a unit.                                     *)

Unit == Plan[pos]

\* Fault (ArgumentsResolve): the outputs of every model and runner are merged.
VisibleOfAnyModel(u) == {id \in Ids : commands[id] = "OK"}

\* Units whose recorded output command_args merges into the arguments of u.
Visible(u) ==
  {id \in Ids : /\ commands[id] = "OK"
                /\ \/ id[1] = NoModel
                   \/ id[1] = u.model /\ id[2] \in {NoRunner, u.runner}}

Arguments(u) ==
  ConfigArgs \cup u.kwargs \cup ModelArgs(u)
  \cup UNION {Outputs[id[3]] : id \in Visible(u)}

\* command_args raises when a key is given twice.
Clash(u) ==
  \/ u.kwargs \cap ConfigArgs # {}
  \/ ModelArgs(u) \cap (ConfigArgs \cup u.kwargs) # {}
  \/ \E id \in Visible(u) :
       \/ Outputs[id[3]] \cap (ConfigArgs \cup u.kwargs \cup ModelArgs(u)) # {}
       \/ \E other \in Visible(u) \ {id} : Outputs[id[3]] \cap Outputs[other[3]] # {}

\* Command.run passes what the signature names; a missing argument is a TypeError.
Callable(u) == ~Clash(u) /\ Needs[u.command] \subseteq Arguments(u)

\* Fault (VerifiedOnlyAfterEvaluation): one of the required commands is enough.
ExecutableIfAny(u) ==
  \/ Requires(u.command) = {}
  \/ \E c \in Requires(u.command) :
       LET id == <<u.model, u.runner, c>> IN id \in Ids /\ commands[id] = "OK"

\* validate_execution: every required command is recorded OK for the same
\* model and runner.
Executable(u) ==
  \A c \in Requires(u.command) :
    LET id == <<u.model, u.runner, c>> IN id \in Ids /\ commands[id] = "OK"

Outcome(status, file) == [status |-> status, file |-> file]

File(model) == IF model = NoModel THEN "absent" ELSE artifact[model]

\* The file a command that raises leaves behind: what was there, or a partial one.
Failures(file) == {Outcome("FAIL", file), Outcome("FAIL", "stale")}

ExportOutcomes(u) ==
  IF File(u.model) # "absent"
  THEN {Outcome("SKIPPED", File(u.model))}
  ELSE {Outcome("OK", "fresh")} \cup Failures("absent")

\* ConvertTorchScript2ONNX alone does not look whether its input exists: its
\* script fails to load it.
ConversionOutcomes(u) ==
  IF File(ParentOf[u.model]) = "absent"
  THEN {Outcome("FAIL", File(u.model))}
       \cup (IF u.command = "ConvertTorchScript2ONNX"
             THEN {} ELSE {Outcome("SKIPPED", File(u.model))})
  ELSE {Outcome("OK", "fresh")} \cup Failures(File(u.model))

\* Fault (SkippedOnlyIfNotProduced): the file of the parent is looked for.
EvaluationOutcomesOfParent(u) ==
  IF FormatOf[u.model] \notin SourceFormats /\ File(ParentOf[u.model]) = "absent"
  THEN {Outcome("SKIPPED", File(u.model))}
  ELSE {Outcome(s, File(u.model)) : s \in {"OK", "FAIL"}}

\* Fault (TypeOK): a status that the context never holds.
EvaluationOutcomesNoop(u) ==
  IF FormatOf[u.model] \notin SourceFormats /\ File(u.model) = "absent"
  THEN {Outcome("NOOP", "absent")}
  ELSE {Outcome(s, File(u.model)) : s \in {"OK", "FAIL"}}

EvaluationOutcomes(u) ==
  IF FormatOf[u.model] \notin SourceFormats /\ File(u.model) = "absent"
  THEN {Outcome("SKIPPED", "absent")}
  ELSE {Outcome(s, File(u.model)) : s \in {"OK", "FAIL"}}

\* _pre_run refuses without a verify function; the source runner needs no check.
VerifyOutcomes(u) ==
  {Outcome(s, File(u.model)) :
     s \in IF ~HasVerifyFunc THEN {"SKIPPED"}
           ELSE IF u.runner \in SourceRunners THEN {"OK"} ELSE {"OK", "FAIL"}}

\* Command.run once its arguments are bound.
RunOutcomes(u) ==
  CASE u.command \in Exporters  -> ExportOutcomes(u)
    [] u.command \in Converters -> ConversionOutcomes(u)
    [] u.command \in Evaluators -> EvaluationOutcomes(u)
    [] u.command = "VerifyModel" -> VerifyOutcomes(u)
    [] OTHER -> {Outcome(s, File(u.model)) : s \in {"OK", "FAIL"}}

\* The try block of _execute_unit: not executable is SKIPPED, and any other
\* exception is FAIL.  A unit without a model that requires commands raises in
\* validate_execution.
Outcomes(u) ==
  IF Requires(u.command) # {} /\ u.model = NoModel THEN {Outcome("FAIL", File(u.model))}
  ELSE IF ~Executable(u) THEN {Outcome("SKIPPED", File(u.model))}
  ELSE IF ~Callable(u) THEN {Outcome("FAIL", File(u.model))}
  ELSE RunOutcomes(u)

\* Fault (RequiredSucceeded): only commands that could not be executed stop the run.
StopsOnSkipped(u, status) == status = "SKIPPED" /\ u.command \in Required

\* Fault (ImplementsLedger): any failed command stops the run.
StopsOnFailure(u, status) == status = "FAIL"

\* The condition of sys.exit in _execute_unit.
Stops(u, status) == status # "OK" /\ u.command \in Required

-----------------------------------------------------------------------------
Init ==
  /\ pos = 1
  /\ phase = "down"
  /\ result = NotRun
  /\ commands = Blank
  /\ artifact \in [Models -> {"absent", "stale"}]
  /\ \A m \in Models : FormatOf[m] \in SourceFormats => artifact[m] = "absent"
  /\ contextFile = "absent"
  /\ saved = Blank

\* Fault (StaleOnlyFromFailure): the workspace is never emptied.
KeptFile(m) == IF artifact[m] = "absent" THEN "absent" ELSE "stale"

\* The file of a model once the workspace is initialised, or kept.
InitialFile(m) ==
  IF KeepsWorkspace /\ artifact[m] # "absent" THEN "stale" ELSE "absent"

\* optimize_pipeline: the workspace directory is deleted and created again
\* unless a package is optimised where it lies; then a new PipelineContext,
\* whose file is unlinked.
BeginRun ==
  /\ phase \in {"down", "done", "exited"}
  /\ phase' = "starting"
  /\ pos' = 1
  /\ result' = NotRun
  /\ commands' = Blank
  /\ artifact' = [m \in Models |-> InitialFile(m)]
  /\ contextFile' = "absent"
  /\ saved' = Blank

\* PipelineContext.initialize: touch.
TouchContext ==
  /\ phase = "starting"
  /\ phase' = "ready"
  /\ contextFile' = "empty"
  /\ UNCHANGED <<pos, result, commands, artifact, saved>>

\* Pipeline._execute_unit returns a CommandOutput.
ExecuteUnit ==
  /\ phase = "ready"
  /\ pos <= Len(Plan)
  /\ \E o \in Outcomes(Unit) :
       /\ ~Stops(Unit, o.status)
       /\ result' = o.status
       /\ artifact' = [m \in Models |-> IF m = Unit.model THEN o.file ELSE artifact[m]]
  /\ phase' = "ran"
  /\ UNCHANGED <<pos, commands, contextFile, saved>>

\* Pipeline._execute_unit calls sys.exit: nothing is recorded or saved.
ExitOnRequired ==
  /\ phase = "ready"
  /\ pos <= Len(Plan)
  /\ \E o \in Outcomes(Unit) :
       /\ Stops(Unit, o.status)
       /\ result' = o.status
       /\ artifact' = [m \in Models |-> IF m = Unit.model THEN o.file ELSE artifact[m]]
  /\ phase' = "exited"
  /\ UNCHANGED <<pos, commands, contextFile, saved>>

\* PipelineContext.update
Update ==
  /\ phase = "ran"
  /\ commands' = [commands EXCEPT ![Id(Unit)] = result]
  /\ phase' = "updated"
  /\ UNCHANGED <<pos, result, artifact, contextFile, saved>>

\* PipelineContext.save: open(..., "w") empties the file ...
TruncateContext ==
  /\ phase = "updated"
  /\ contextFile' = "empty"
  /\ saved' = Blank
  /\ phase' = "truncated"
  /\ UNCHANGED <<pos, result, commands, artifact>>

\* Fault (ContextFileFollows): the context is dumped after the last unit only.
DumpContextAtEnd ==
  /\ phase = "truncated"
  /\ IF pos = Len(Plan) THEN contextFile' = "whole" /\ saved' = commands
     ELSE UNCHANGED <<contextFile, saved>>
  /\ phase' = "ready"
  /\ pos' = pos + 1
  /\ UNCHANGED <<result, commands, artifact>>

\* Fault (RunEnds): a unit that failed is run again, without a limit.
DumpContextAndRetry ==
  /\ phase = "truncated"
  /\ contextFile' = "whole"
  /\ saved' = commands
  /\ phase' = "ready"
  /\ pos' = IF result = "FAIL" THEN pos ELSE pos + 1
  /\ UNCHANGED <<result, commands, artifact>>

\* ... and safe_dump fills it; the loop goes to the next unit.
DumpContext ==
  /\ phase = "truncated"
  /\ contextFile' = "whole"
  /\ saved' = commands
  /\ phase' = "ready"
  /\ pos' = pos + 1
  /\ UNCHANGED <<result, commands, artifact>>

\* PipelineManager.run returns the context.
Finish ==
  /\ phase = "ready"
  /\ pos > Len(Plan)
  /\ phase' = "done"
  /\ UNCHANGED <<pos, result, commands, artifact, contextFile, saved>>

\* The process is killed: what is in memory is lost, the files stay.
Crash ==
  /\ phase \in {"starting", "ready", "ran", "updated", "truncated"}
  /\ phase' = "down"
  /\ pos' = 1
  /\ result' = NotRun
  /\ commands' = Blank
  /\ UNCHANGED <<artifact, contextFile, saved>>

Progress ==
  \/ TouchContext \/ ExecuteUnit \/ ExitOnRequired
  \/ Update \/ TruncateContext \/ DumpContext \/ Finish

Next == BeginRun \/ Progress \/ Crash

Spec == Init /\ [][Next]_vars

\* The loop is plain sequential code: once started, it keeps taking steps.
FairSpec == Spec /\ WF_vars(Progress)

-----------------------------------------------------------------------------
Phases ==
  {"down", "starting", "ready", "ran", "updated", "truncated", "done", "exited"}

Ledgers == [Ids -> Statuses \cup {NotRun}]

TypeOK ==
  /\ pos \in 1..(Len(Plan) + 1)
  /\ phase \in Phases
  /\ phase \in {"ran", "updated", "truncated", "exited"} => pos <= Len(Plan)
  /\ result \in Statuses \cup {NotRun}
  /\ phase = "ran" => result \in Statuses
  /\ commands \in Ledgers
  /\ artifact \in [Models -> {"absent", "stale", "fresh"}]
  /\ contextFile \in {"absent", "empty", "whole"}
  /\ saved \in Ledgers

\* How many units have been recorded in the context.
Recorded == IF phase \in {"updated", "truncated"} THEN pos ELSE pos - 1

\* A model and runner are recorded as verified only if both the correctness and
\* the performance of that very pair are recorded OK, at any later time of the
\* run (validate_execution, requires= of VerifyModel).
VerifiedOnlyAfterEvaluation ==
  \A id \in Ids :
    id[3] = "VerifyModel" /\ commands[id] = "OK" =>
      \A c \in Requires("VerifyModel") :
        LET need == <<id[1], id[2], c>> IN need \in Ids /\ commands[need] = "OK"

\* Whatever has been recorded after a required command was recorded with that
\* command OK, in memory and in every complete context.yaml: a failed required
\* command ends the run before anything else happens.
RequiredSucceeded ==
  /\ \A i \in 1..Recorded :
       Plan[i].command \in Required => commands[Id(Plan[i])] = "OK"
  /\ \A id \in Ids : id[3] \in Required => saved[id] \in {"OK", NotRun}

\* A unit that may be executed always finds its arguments: command_args raises
\* for no doubly defined key, and no mandatory parameter of _run is missing,
\* whichever optional commands failed or were skipped before.
ArgumentsResolve ==
  phase = "ready" /\ pos <= Len(Plan) /\ Executable(Unit) => Callable(Unit)

\* context.yaml is complete and up to date when a unit starts, misses at most
\* the unit just recorded, and, left by a killed process, names the units of a
\* prefix of the plan.
ContextFileFollows ==
  /\ phase \in {"ready", "ran", "exited", "done"} /\ pos > 1 =>
       contextFile = "whole" /\ saved = commands
  /\ phase = "updated" /\ contextFile = "whole" =>
       \A id \in Ids : saved[id] # commands[id] => id = Id(Unit)
  /\ \E k \in 0..Len(Plan) :
       {id \in Ids : saved[id] # NotRun} = {Id(Plan[i]) : i \in 1..k}

\* Evaluation of a model is skipped for a missing file only when the command
\* that should have produced the file did not succeed.
SkippedOnlyIfNotProduced ==
  \A id, maker \in Ids :
    /\ id[3] \in Evaluators /\ commands[id] = "SKIPPED"
    /\ maker[1] = id[1] /\ maker[3] \in Makers
    => commands[maker] # "OK"

\* In a workspace that optimize_pipeline initialises, a file that no successful
\* command of the run wrote is the leftover of a command of the same run that
\* failed: nothing of an earlier run, or of a killed one, is evaluated or saved.
StaleOnlyFromFailure ==
  ~KeepsWorkspace /\ phase \notin {"down"} =>
    \A m \in Models : artifact[m] = "stale" =>
      \/ \E id \in Ids : /\ id[1] = m
                        /\ id[3] \in Makers
                        /\ commands[id] = "FAIL"
      \/ phase = "ran" /\ Unit.model = m /\ result = "FAIL"

\* The run implements CommandLedger.
LedgerState ==
  CASE phase = "down"   -> "idle"
    [] phase = "done"   -> "complete"
    [] phase = "exited" -> "halted"
    [] OTHER            -> "running"

Ledger ==
  INSTANCE CommandLedger WITH
    Length <- Len(Plan), Key <- [i \in DOMAIN Plan |-> Id(Plan[i])],
    MustSucceed <- {i \in DOMAIN Plan : Plan[i].command \in Required},
    OK <- "OK",
    state <- LedgerState, count <- Recorded, ledger <- commands

\* Statuses are recorded in plan order, one per unit, with every required unit
\* OK; the run returns only after the last unit and is given up only at a
\* required one (Pipeline.run, PipelineManager.run).
ImplementsLedger == Ledger!Spec

\* A run that has begun ends: the process is done, has exited or was killed.
RunEnds == [](phase = "starting" => <>(phase \in {"done", "exited", "down"}))
=============================================================================
