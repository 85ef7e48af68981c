---------------------------- MODULE PipelineProofs ----------------------------
(***************************************************************************)
(* Pipelines, from the request to the last command.                        *)
(*                                                                         *)
(* The first half is about PipelineExecution: it keeps its promises for    *)
(* every plan that PlanRequirements allows, every set of models and        *)
(* runners and every behaviour of the commands.  The inductive invariant   *)
(* adds to the properties what ties the ledger to the plan: exactly the    *)
(* units of the recorded prefix have a status (LedgerIsPrefix), and the    *)
(* pending result of a unit is OK only if the unit was executable and, for *)
(* a required unit, always (PendingResult).  FileInv and FilesInv do the   *)
(* same for context.yaml and model files.                                  *)
(*                                                                         *)
(* The second half is about PipelinePlanning: what generate_model_config   *)
(* and the builders make of every request.  Lists are compared with the    *)
(* sets they enumerate (Enumerates), pipelines with segments of one order  *)
(* of all commands (Turn, Segment); PlansAreOrdered says which units a     *)
(* plan has and that their turns ascend, and the properties follow from    *)
(* that and from keys that differ.  At the end the halves meet: every plan *)
(* that is built satisfies PlanRequirements (PlansCanBeRun).               *)
(***************************************************************************)
EXTENDS PipelineExecution, PipelinePlanning, FiniteSetTheorems, NaturalsInduction,
        WellFoundedInduction, TLAPS

\* A status is recorded for the units of the prefix of the plan, and no other.
LedgerIsPrefix ==
  \A id \in Ids : commands[id] # NotRun <=> \E i \in 1..Recorded : Id(Plan[i]) = id

\* What is known of the result between _execute_unit and update.
PendingResult ==
  phase = "ran" =>
    /\ result = "OK" => Executable(Unit)
    /\ Unit.command \in Required => result = "OK"

IInv ==
  /\ TypeOK
  /\ LedgerIsPrefix
  /\ PendingResult
  /\ VerifiedOnlyAfterEvaluation
  /\ RequiredSucceeded

-----------------------------------------------------------------------------
LEMMA PlanTyping ==
  /\ Len(Plan) \in Nat
  /\ DOMAIN Plan = 1..Len(Plan)
  /\ \A i \in 1..Len(Plan) :
       /\ Plan[i] \in Units
       /\ Plan[i].command \in Commands
       /\ Plan[i].model \in Models \cup {NoModel}
       /\ Plan[i].runner \in Runners \cup {NoRunner}
       /\ Id(Plan[i]) \in Ids
       /\ Id(Plan[i]) = <<Plan[i].model, Plan[i].runner, Plan[i].command>>
<1>1. Len(Plan) \in Nat /\ DOMAIN Plan = 1..Len(Plan)
  BY PlanAssumption DEF PlanIsTyped
<1>2. \A i \in 1..Len(Plan) : Plan[i] \in Units
  BY PlanAssumption DEF PlanIsTyped
<1>3. \A i \in 1..Len(Plan) : Id(Plan[i]) \in Ids
  BY <1>1 DEF Ids
<1>4. \A u \in Units : /\ u.command \in Commands
                       /\ u.model \in Models \cup {NoModel}
                       /\ u.runner \in Runners \cup {NoRunner}
  BY DEF Units
<1> QED
  BY <1>1, <1>2, <1>3, <1>4 DEF Id

LEMMA IdTyping ==
  \A id \in Ids : \E i \in 1..Len(Plan) : id = Id(Plan[i])
BY PlanTyping DEF Ids

LEMMA BlankIsLedger == Blank \in Ledgers /\ \A id \in Ids : Blank[id] = NotRun
BY DEF Blank, Ledgers

\* The arms of RunOutcomes exclude each other.
LEMMA CommandKinds ==
  \A c \in Commands :
    /\ c \in Exporters => c \notin Converters /\ c \notin Evaluators /\ c # "VerifyModel"
    /\ c \in Converters => c \notin Exporters /\ c \notin Evaluators /\ c # "VerifyModel"
    /\ c \in Evaluators => c \notin Exporters /\ c \notin Converters /\ c # "VerifyModel"
    /\ c = "VerifyModel" => c \notin Exporters /\ c \notin Converters /\ c \notin Evaluators
    /\ c \in Required => c # "VerifyModel"
BY DEF Exporters, Converters, Evaluators, Required

\* A command ends in a status and leaves a file that is there, partial or new.
LEMMA OutcomeTyping ==
  ASSUME artifact \in [Models -> {"absent", "stale", "fresh"}],
         NEW u \in Units, NEW o \in Outcomes(u)
  PROVE  /\ o.status \in Statuses
         /\ o.file \in {"absent", "stale", "fresh"}
         /\ o.status = "OK" => Executable(u)
<1> USE DEF Outcome, Statuses
<1>1. File(u.model) \in {"absent", "stale", "fresh"}
  BY PlanAssumption DEF PlanIsTyped, File, Units
<1>2. u.command \in Commands
  BY DEF Units
<1>3. ASSUME o \in RunOutcomes(u)
      PROVE  o.status \in Statuses /\ o.file \in {"absent", "stale", "fresh"}
  <2>1. CASE u.command \in Exporters
    <3>1. o \in ExportOutcomes(u)
      BY <1>2, <1>3, <2>1, CommandKinds DEF RunOutcomes
    <3> QED
      BY <1>1, <3>1 DEF ExportOutcomes, Failures
  <2>2. CASE u.command \in Converters
    <3>1. o \in ConversionOutcomes(u)
      BY <1>2, <1>3, <2>2, CommandKinds DEF RunOutcomes
    <3> QED
      BY <1>1, <3>1 DEF ConversionOutcomes, Failures
  <2>3. CASE u.command \in Evaluators
    <3>1. o \in EvaluationOutcomes(u)
      BY <1>2, <1>3, <2>3, CommandKinds DEF RunOutcomes
    <3> QED
      BY <1>1, <3>1 DEF EvaluationOutcomes
  <2>4. CASE u.command = "VerifyModel"
    <3>1. o \in VerifyOutcomes(u)
      BY <1>2, <1>3, <2>4, CommandKinds DEF RunOutcomes
    <3> QED
      BY <1>1, <3>1 DEF VerifyOutcomes
  <2>5. CASE u.command \notin Exporters \cup Converters \cup Evaluators \cup {"VerifyModel"}
    <3>1. o \in {Outcome(s, File(u.model)) : s \in {"OK", "FAIL"}}
      BY <1>3, <2>5 DEF RunOutcomes
    <3> QED
      BY <1>1, <3>1
  <2> QED
    BY <2>1, <2>2, <2>3, <2>4, <2>5
<1>4. CASE o \in RunOutcomes(u) /\ Executable(u)
  BY <1>3, <1>4
<1>5. CASE ~(o \in RunOutcomes(u) /\ Executable(u))
  BY <1>1, <1>5 DEF Outcomes
<1> QED
  BY <1>4, <1>5

-----------------------------------------------------------------------------
LEMMA InitInv == Init => IInv
<1> SUFFICES ASSUME Init PROVE IInv
  OBVIOUS
<1> USE DEF Init
<1>1. TypeOK
  BY PlanTyping, BlankIsLedger DEF TypeOK, Phases
<1>2. Recorded = 0
  BY DEF Recorded
<1>3. \A id \in Ids : commands[id] = NotRun /\ saved[id] = NotRun
  BY BlankIsLedger
<1>4. LedgerIsPrefix
  BY <1>2, <1>3 DEF LedgerIsPrefix
<1>5. PendingResult
  BY DEF PendingResult
<1>6. VerifiedOnlyAfterEvaluation
  BY <1>3 DEF VerifiedOnlyAfterEvaluation, NotRun
<1>7. RequiredSucceeded
  BY <1>2, <1>3 DEF RequiredSucceeded
<1> QED
  BY <1>1, <1>4, <1>5, <1>6, <1>7 DEF IInv

LEMMA BeginRunInv == IInv /\ BeginRun => IInv'
<1> SUFFICES ASSUME IInv, BeginRun PROVE IInv'
  OBVIOUS
<1> USE DEF BeginRun, InitialFile, IInv
<1>1. TypeOK'
  BY PlanTyping, BlankIsLedger DEF TypeOK, Phases
<1>2. Recorded' = 0
  BY DEF Recorded
<1>3. \A id \in Ids : commands'[id] = NotRun /\ saved'[id] = NotRun
  BY BlankIsLedger
<1>4. LedgerIsPrefix'
  BY <1>2, <1>3 DEF LedgerIsPrefix
<1>5. PendingResult'
  BY DEF PendingResult
<1>6. VerifiedOnlyAfterEvaluation'
  BY <1>3 DEF VerifiedOnlyAfterEvaluation, NotRun
<1>7. RequiredSucceeded'
  BY <1>2, <1>3 DEF RequiredSucceeded
<1> QED
  BY <1>1, <1>4, <1>5, <1>6, <1>7

LEMMA CrashInv == IInv /\ Crash => IInv'
<1> SUFFICES ASSUME IInv, Crash PROVE IInv'
  OBVIOUS
<1> USE DEF Crash, IInv
<1>1. TypeOK'
  BY PlanTyping, BlankIsLedger DEF TypeOK, Phases
<1>2. Recorded' = 0
  BY DEF Recorded
<1>3. \A id \in Ids : commands'[id] = NotRun
  BY BlankIsLedger
<1>4. LedgerIsPrefix'
  BY <1>2, <1>3 DEF LedgerIsPrefix
<1>5. PendingResult'
  BY DEF PendingResult
<1>6. VerifiedOnlyAfterEvaluation'
  BY <1>3 DEF VerifiedOnlyAfterEvaluation, NotRun
<1>7. RequiredSucceeded'
  BY <1>2 DEF RequiredSucceeded
<1> QED
  BY <1>1, <1>4, <1>5, <1>6, <1>7

\* _execute_unit, whether it returns or exits, leaves the ledger alone.
LEMMA ExecuteInv == IInv /\ (ExecuteUnit \/ ExitOnRequired) => IInv'
<1> SUFFICES ASSUME IInv, ExecuteUnit \/ ExitOnRequired PROVE IInv'
  OBVIOUS
<1> USE DEF IInv
<1>1. /\ phase = "ready" /\ phase' \in {"ran", "exited"}
      /\ pos \in 1..Len(Plan)
      /\ UNCHANGED <<pos, commands, contextFile, saved>>
  BY PlanTyping DEF ExecuteUnit, ExitOnRequired, TypeOK
<1>2. Unit \in Units /\ Unit' = Unit
  BY <1>1, PlanTyping DEF Unit
<1>3. PICK o \in Outcomes(Unit) :
        /\ phase' = "ran" => ~Stops(Unit, o.status)
        /\ result' = o.status
        /\ artifact' = [m \in Models |-> IF m = Unit.model THEN o.file ELSE artifact[m]]
  BY DEF ExecuteUnit, ExitOnRequired
<1>4. /\ o.status \in Statuses
      /\ o.file \in {"absent", "stale", "fresh"}
      /\ o.status = "OK" => Executable(Unit)
  BY <1>2, OutcomeTyping DEF TypeOK
<1>5. TypeOK'
  BY <1>1, <1>3, <1>4 DEF TypeOK, Phases
<1>6. Recorded' = Recorded
  BY <1>1 DEF Recorded
<1>7. LedgerIsPrefix'
  BY <1>1, <1>6 DEF LedgerIsPrefix
<1>8. PendingResult'
  <2>1. phase' = "ran" /\ Unit.command \in Required => result' = "OK"
    BY <1>3 DEF Stops
  <2>2. result' = "OK" => Executable(Unit)'
    BY <1>1, <1>2, <1>3, <1>4 DEF Executable
  <2> QED
    BY <1>2, <2>1, <2>2 DEF PendingResult
<1>9. VerifiedOnlyAfterEvaluation' /\ RequiredSucceeded'
  BY <1>1, <1>6 DEF VerifiedOnlyAfterEvaluation, RequiredSucceeded
<1> QED
  BY <1>5, <1>7, <1>8, <1>9

\* The unit just executed gets its status.  It may be one that VerifyModel
\* requires, but then no VerifyModel of its model and runner was recorded yet.
LEMMA UpdateInv == IInv /\ Update => IInv'
<1> SUFFICES ASSUME IInv, Update PROVE IInv'
  OBVIOUS
<1> USE DEF IInv
<1> DEFINE this == Id(Unit)
<1>1. /\ phase = "ran" /\ phase' = "updated"
      /\ commands' = [commands EXCEPT ![this] = result]
      /\ pos' = pos /\ result' = result
      /\ UNCHANGED <<artifact, contextFile, saved>>
  BY DEF Update
<1>2. /\ pos \in 1..Len(Plan) /\ this \in Ids /\ result \in Statuses
      /\ this = <<Unit.model, Unit.runner, Unit.command>>
      /\ Unit \in Units
  BY <1>1, PlanTyping DEF TypeOK, Unit
<1>3. /\ Recorded = pos - 1 /\ Recorded' = pos
  BY <1>1, <1>2 DEF Recorded
<1>4. /\ commands \in Ledgers
      /\ commands'[this] = result
      /\ \A id \in Ids : id # this => commands'[id] = commands[id]
  BY <1>1, <1>2 DEF TypeOK, Ledgers
<1> HIDE DEF this
<1>5. TypeOK'
  BY <1>1, <1>2 DEF TypeOK, Phases, Ledgers
<1>6. LedgerIsPrefix'
  <2> SUFFICES ASSUME NEW id \in Ids
               PROVE  commands'[id] # NotRun <=> \E i \in 1..pos : Id(Plan[i]) = id
    BY <1>3 DEF LedgerIsPrefix
  <2>1. CASE id = this
    BY <1>2, <1>4, <2>1 DEF this, Unit, Statuses, NotRun
  <2>2. CASE id # this
    BY <1>2, <1>3, <1>4, <2>2 DEF this, Unit, LedgerIsPrefix
  <2> QED
    BY <2>1, <2>2
<1>7. PendingResult'
  BY <1>1 DEF PendingResult
<1>8. VerifiedOnlyAfterEvaluation'
  <2> SUFFICES ASSUME NEW id \in Ids, id[3] = "VerifyModel", commands'[id] = "OK",
                      NEW c \in Requires("VerifyModel")
               PROVE  <<id[1], id[2], c>> \in Ids /\ commands'[<<id[1], id[2], c>>] = "OK"
    BY DEF VerifiedOnlyAfterEvaluation
  <2> DEFINE need == <<id[1], id[2], c>>
  <2>1. c \in {"Correctness", "Performance"}
    BY DEF Requires
  <2>2. CASE id = this
    <3>1. Executable(Unit)
      BY <1>1, <1>4, <2>2 DEF PendingResult
    <3>2. id[1] = Unit.model /\ id[2] = Unit.runner /\ Unit.command = "VerifyModel"
      BY <1>2, <2>2
    <3>3. need \in Ids /\ commands[need] = "OK"
      BY <3>1, <3>2 DEF Executable
    <3>4. need # this
      BY <1>2, <2>1, <3>2
    <3> QED
      BY <1>4, <3>3, <3>4
  <2>3. CASE id # this
    <3>1. commands[id] = "OK"
      BY <1>4, <2>3
    <3>2. need \in Ids /\ commands[need] = "OK"
      BY <3>1 DEF VerifiedOnlyAfterEvaluation
    <3>3. PICK i \in 1..(pos - 1) : Id(Plan[i]) = id
      BY <1>3, <3>1 DEF LedgerIsPrefix, NotRun
    <3>4. need # this
      <4> SUFFICES ASSUME need = this PROVE FALSE
        OBVIOUS
      <4>1. i \in DOMAIN Plan /\ pos \in DOMAIN Plan /\ i < pos
        BY <1>2, <3>3, PlanTyping
      <4>2. /\ Plan[i].model = id[1] /\ Plan[i].runner = id[2]
            /\ Plan[i].command = "VerifyModel"
        BY <3>3 DEF Id
      <4>3. /\ Plan[pos].model = id[1] /\ Plan[pos].runner = id[2]
            /\ Plan[pos].command = c
        BY <1>2 DEF Unit
      <4>4. pos < i
        BY <4>1, <4>2, <4>3, PlanAssumption DEF RequirementsAreOrdered
      <4> QED
        BY <1>2, <4>1, <4>4
    <3> QED
      BY <1>4, <3>2, <3>4
  <2> QED
    BY <2>2, <2>3
<1>9. RequiredSucceeded'
  <2>1. ASSUME NEW i \in 1..pos, Plan[i].command \in Required
        PROVE  commands'[Id(Plan[i])] = "OK"
    <3>1. /\ Id(Plan[i]) \in Ids
          /\ Id(Plan[i]) = <<Plan[i].model, Plan[i].runner, Plan[i].command>>
      BY <1>2, PlanTyping
    <3>2. CASE Id(Plan[i]) = this
      <4>1. Unit.command = Plan[i].command
        BY <1>2, <3>1, <3>2
      <4> QED
        BY <1>1, <1>4, <2>1, <3>2, <4>1 DEF PendingResult
    <3>3. CASE Id(Plan[i]) # this
      <4>1. i \in 1..Recorded
        BY <1>2, <1>3, <3>3 DEF this, Unit
      <4> QED
        BY <1>4, <2>1, <3>1, <3>3, <4>1 DEF RequiredSucceeded
    <3> QED
      BY <3>2, <3>3
  <2> QED
    BY <1>1, <1>3, <2>1 DEF RequiredSucceeded
<1> QED
  BY <1>5, <1>6, <1>7, <1>8, <1>9

\* The other steps write files only.
LEMMA TouchInv == IInv /\ (TouchContext \/ Finish) => IInv'
<1> SUFFICES ASSUME IInv, TouchContext \/ Finish PROVE IInv'
  OBVIOUS
<1> USE DEF IInv
<1>1. /\ phase \in {"starting", "ready"} /\ phase' \in {"ready", "done"}
      /\ contextFile' \in {"empty", contextFile}
      /\ UNCHANGED <<pos, result, commands, artifact, saved>>
  BY DEF TouchContext, Finish
<1>2. TypeOK'
  BY <1>1 DEF TypeOK, Phases
<1>3. Recorded' = Recorded
  BY <1>1 DEF Recorded
<1>4. LedgerIsPrefix' /\ PendingResult' /\ VerifiedOnlyAfterEvaluation' /\ RequiredSucceeded'
  BY <1>1, <1>3
  DEF LedgerIsPrefix, PendingResult, VerifiedOnlyAfterEvaluation, RequiredSucceeded
<1> QED
  BY <1>2, <1>4

\* What is dumped names the recorded prefix, whose required units are OK.
LEMMA SaveInv == IInv /\ (TruncateContext \/ DumpContext) => IInv'
<1> SUFFICES ASSUME IInv, TruncateContext \/ DumpContext PROVE IInv'
  OBVIOUS
<1> USE DEF IInv
<1>1. /\ UNCHANGED <<result, commands, artifact>>
      /\ saved' \in {Blank, commands}
      /\ contextFile' \in {"empty", "whole"}
      /\ \/ phase = "updated" /\ phase' = "truncated" /\ pos' = pos
         \/ phase = "truncated" /\ phase' = "ready" /\ pos' = pos + 1
  BY DEF TruncateContext, DumpContext
<1>2. pos \in 1..Len(Plan) /\ Len(Plan) \in Nat
  BY <1>1, PlanTyping DEF TypeOK
<1>3. TypeOK'
  BY <1>1, <1>2, BlankIsLedger DEF TypeOK, Phases
<1>4. Recorded' = Recorded
  BY <1>1, <1>2 DEF Recorded
<1>5. LedgerIsPrefix' /\ PendingResult' /\ VerifiedOnlyAfterEvaluation'
  BY <1>1, <1>4 DEF LedgerIsPrefix, PendingResult, VerifiedOnlyAfterEvaluation
<1>6. ASSUME NEW id \in Ids, id[3] \in Required
      PROVE  commands[id] \in {"OK", NotRun}
  <2> SUFFICES ASSUME commands[id] # NotRun PROVE commands[id] = "OK"
    OBVIOUS
  <2>1. PICK i \in 1..Recorded : Id(Plan[i]) = id
    BY DEF LedgerIsPrefix
  <2>2. Plan[i].command \in Required
    BY <1>6, <2>1 DEF Id
  <2> QED
    BY <2>1, <2>2 DEF RequiredSucceeded
<1>7. RequiredSucceeded'
  BY <1>1, <1>4, <1>6, BlankIsLedger DEF RequiredSucceeded
<1> QED
  BY <1>3, <1>5, <1>7

-----------------------------------------------------------------------------
LEMMA StepInv == IInv /\ [Next]_vars => IInv'
<1> SUFFICES ASSUME IInv, [Next]_vars PROVE IInv'
  OBVIOUS
<1>1. CASE Next
  BY <1>1, BeginRunInv, CrashInv, ExecuteInv, UpdateInv, TouchInv, SaveInv
  DEF Next, Progress
<1>2. CASE UNCHANGED vars
  BY <1>2 DEF vars, IInv, TypeOK, LedgerIsPrefix, PendingResult, Executable, Unit,
    VerifiedOnlyAfterEvaluation, RequiredSucceeded, Recorded
<1> QED
  BY <1>1, <1>2

THEOREM Invariance == Spec => []IInv
BY InitInv, StepInv, PTL DEF Spec

\* Every variable keeps its type, and the unit executed, updated or saved is one
\* of the plan (the loops of PipelineManager.run and Pipeline.run).
THEOREM TypeCorrect == Spec => []TypeOK
<1>1. IInv => TypeOK
  BY DEF IInv
<1> QED
  BY <1>1, Invariance, PTL

\* A model is recorded as verified for a runner only while its correctness and
\* performance for that runner are recorded OK (Pipeline._execute_unit,
\* PipelineContext.validate_execution and update).
THEOREM Verification == Spec => []VerifiedOnlyAfterEvaluation
<1>1. IInv => VerifiedOnlyAfterEvaluation
  BY DEF IInv
<1> QED
  BY <1>1, Invariance, PTL

\* Nothing is recorded or dumped after a required command that did not succeed
\* (the sys.exit of Pipeline._execute_unit).
THEOREM RequiredFirst == Spec => []RequiredSucceeded
<1>1. IInv => RequiredSucceeded
  BY DEF IInv
<1> QED
  BY <1>1, Invariance, PTL

-----------------------------------------------------------------------------
(* context.yaml.                                                           *)

\* The file is complete as soon as one unit is done; before, it is empty.
FileAndMemory ==
  /\ phase = "starting" => pos = 1
  /\ phase \in {"ready", "ran", "updated", "exited", "done"} =>
       \/ contextFile = "whole"
       \/ contextFile = "empty" /\ pos = 1
  /\ phase \in {"ready", "ran", "exited", "done"} /\ contextFile = "whole" =>
       saved = commands
  /\ phase = "updated" /\ contextFile = "whole" =>
       \A id \in Ids : saved[id] # commands[id] => id = Id(Unit)

\* Whatever is in the file names a prefix of the plan.
FileIsPrefix ==
  \E k \in 0..Len(Plan) :
    {id \in Ids : saved[id] # NotRun} = {Id(Plan[i]) : i \in 1..k}

FileInv == FileAndMemory /\ FileIsPrefix

LEMMA BlankIsPrefix == saved = Blank => FileIsPrefix
<1> SUFFICES ASSUME saved = Blank PROVE FileIsPrefix
  OBVIOUS
<1>1. {id \in Ids : saved[id] # NotRun} = {Id(Plan[i]) : i \in 1..0}
  BY BlankIsLedger
<1>2. 0 \in 0..Len(Plan)
  BY PlanTyping
<1> QED
  BY <1>1, <1>2 DEF FileIsPrefix

LEMMA FileStep == IInv /\ IInv' /\ FileInv /\ [Next]_vars => FileInv'
<1> SUFFICES ASSUME IInv, IInv', FileInv, [Next]_vars PROVE FileInv'
  OBVIOUS
<1> USE DEF FileInv
<1>1. pos \in Nat /\ Len(Plan) \in Nat
  BY PlanTyping DEF IInv, TypeOK
<1>2. CASE BeginRun
  BY <1>2, BlankIsPrefix, BlankIsLedger, PlanTyping
  DEF BeginRun, FileAndMemory, FileIsPrefix
<1>3. CASE TouchContext
  BY <1>3 DEF TouchContext, FileAndMemory, FileIsPrefix
<1>4. CASE ExecuteUnit \/ ExitOnRequired \/ Finish \/ Crash
  BY <1>4 DEF ExecuteUnit, ExitOnRequired, Finish, Crash, FileAndMemory, FileIsPrefix
<1>5. CASE Update
  <2>1. ASSUME contextFile = "whole", NEW id \in Ids, saved[id] # commands'[id]
        PROVE  id = Id(Unit)
    BY <1>5, <2>1 DEF Update, FileAndMemory, IInv, TypeOK, Ledgers
  <2>2. Id(Unit)' = Id(Unit)
    BY <1>5 DEF Update, Unit
  <2> QED
    BY <1>5, <2>1, <2>2 DEF Update, FileAndMemory, FileIsPrefix
<1>6. CASE TruncateContext
  <2>1. FileAndMemory'
    BY <1>6 DEF TruncateContext, FileAndMemory
  <2>2. saved' = Blank
    BY <1>6 DEF TruncateContext
  <2> QED
    BY <2>1, <2>2, BlankIsLedger, PlanTyping DEF FileIsPrefix
<1>7. CASE DumpContext
  <2>1. FileAndMemory'
    BY <1>7 DEF DumpContext, FileAndMemory
  <2>2. {id \in Ids : saved'[id] # NotRun} = {Id(Plan[i]) : i \in 1..pos}
    <3>1. saved' = commands /\ Recorded = pos
      BY <1>7 DEF DumpContext, Recorded
    <3>2. \A i \in 1..pos : Id(Plan[i]) \in Ids
      BY <1>7, PlanTyping DEF DumpContext, IInv, TypeOK
    <3> QED
      BY <3>1, <3>2 DEF IInv, LedgerIsPrefix
  <2>3. pos \in 0..Len(Plan)
    BY <1>1, <1>7 DEF DumpContext, IInv, TypeOK
  <2> QED
    BY <2>1, <2>2, <2>3 DEF FileIsPrefix
<1>8. CASE UNCHANGED vars
  BY <1>8 DEF vars, FileAndMemory, FileIsPrefix, Unit
<1> QED
  BY <1>2, <1>3, <1>4, <1>5, <1>6, <1>7, <1>8 DEF Next, Progress

\* context.yaml is never behind by more than the unit just recorded, and at any
\* crash it is empty or names a prefix of the plan (PipelineContext.save).
THEOREM ContextFile == Spec => []ContextFileFollows
<1>1. Init => FileInv
  BY BlankIsPrefix DEF Init, FileInv, FileAndMemory
<1>2. IInv /\ FileInv => ContextFileFollows
  <2> SUFFICES ASSUME IInv, FileInv PROVE ContextFileFollows
    OBVIOUS
  <2>1. phase \in {"ready", "ran", "exited", "done"} /\ pos > 1 =>
          contextFile = "whole" /\ saved = commands
    BY DEF FileInv, FileAndMemory
  <2> QED
    BY <2>1 DEF FileInv, FileAndMemory, FileIsPrefix, ContextFileFollows
<1> QED
  BY <1>1, <1>2, Invariance, FileStep, PTL DEF Spec

-----------------------------------------------------------------------------
(* The refinement.                                                         *)

LEMMA Mapping ==
  /\ phase = "down" => LedgerState = "idle"
  /\ phase = "done" => LedgerState = "complete"
  /\ phase = "exited" => LedgerState = "halted"
  /\ phase \in {"starting", "ready", "ran", "updated", "truncated"} =>
       LedgerState = "running"
BY DEF LedgerState

LEMMA EmptyIsBlank == Ledger!Empty = Blank
<1>1. {[j \in DOMAIN Plan |-> Id(Plan[j])][i] : i \in 1..Len(Plan)} = Ids
  BY PlanTyping DEF Ids
<1> QED
  BY <1>1 DEF Ledger!Empty, Blank

LEMMA LedgerInit == Init => Ledger!Init
<1> SUFFICES ASSUME Init PROVE Ledger!Init
  OBVIOUS
<1>1. LedgerState = "idle" /\ Recorded = 0 /\ commands = Ledger!Empty
  BY Mapping, EmptyIsBlank DEF Init, Recorded
<1> QED
  BY <1>1 DEF Ledger!Init

\* BeginRun, ExitOnRequired, Update, Finish and Crash are steps of the ledger,
\* the other actions stutter.
LEMMA LedgerStep == IInv /\ IInv' /\ [Next]_vars => [Ledger!Next]_(Ledger!vars)
<1> SUFFICES ASSUME IInv, IInv', [Next]_vars PROVE [Ledger!Next]_(Ledger!vars)
  OBVIOUS
<1> DEFINE MustSucceed == {i \in DOMAIN Plan : Plan[i].command \in Required}
           Places == [i \in DOMAIN Plan |-> Id(Plan[i])]
<1>1. /\ pos \in 1..(Len(Plan) + 1) /\ Len(Plan) \in Nat
      /\ phase \in {"ran", "updated", "truncated", "exited"} => pos \in 1..Len(Plan)
  BY PlanTyping DEF IInv, TypeOK
<1>2. \A i \in 1..Len(Plan) : /\ Places[i] = Id(Plan[i])
                              /\ i \in MustSucceed <=> Plan[i].command \in Required
  BY PlanTyping
<1>3. CASE BeginRun
  <2>1. LedgerState # "running" /\ LedgerState' = "running"
    BY <1>3, Mapping DEF BeginRun, LedgerState
  <2>2. Recorded' = 0 /\ commands' = Ledger!Empty
    BY <1>3, EmptyIsBlank DEF BeginRun, Recorded
  <2> QED
    BY <2>1, <2>2 DEF Ledger!Next, Ledger!Begin
<1>4. CASE ExitOnRequired
  <2>1. LedgerState = "running" /\ LedgerState' = "halted"
    BY <1>4 DEF ExitOnRequired, LedgerState
  <2>2. pos \in 1..Len(Plan) /\ Recorded + 1 = pos /\ Recorded' = Recorded /\ commands' = commands
    BY <1>1, <1>4 DEF ExitOnRequired, Recorded
  <2>3. pos \in MustSucceed
    BY <1>2, <1>4, <2>2 DEF ExitOnRequired, Stops, Unit
  <2> QED
    BY <2>1, <2>2, <2>3 DEF Ledger!Next, Ledger!Halt
<1>5. CASE Update
  <2>1. LedgerState = "running" /\ LedgerState' = "running"
    BY <1>5 DEF Update, LedgerState
  <2>2. /\ pos \in 1..Len(Plan)
        /\ Recorded = pos - 1 /\ Recorded' = pos
        /\ commands' = [commands EXCEPT ![Places[pos]] = result]
    BY <1>1, <1>2, <1>5 DEF Update, Recorded, Unit
  <2>3. pos \in MustSucceed => result = "OK"
    BY <1>2, <1>5, <2>2 DEF Update, IInv, PendingResult, Unit
  <2>4. result \in Statuses
    BY <1>5 DEF Update, IInv, TypeOK
  <2>5. Ledger!Record(result)
    BY <1>1, <2>1, <2>2, <2>3 DEF Ledger!Record
  <2> QED
    BY <2>4, <2>5 DEF Ledger!Next
<1>6. CASE Finish
  <2>1. LedgerState = "running" /\ LedgerState' = "complete"
    BY <1>6 DEF Finish, LedgerState
  <2>2. Recorded = Len(Plan) /\ Recorded' = Recorded /\ commands' = commands
    BY <1>1, <1>6 DEF Finish, Recorded
  <2> QED
    BY <2>1, <2>2 DEF Ledger!Next, Ledger!Complete
<1>7. CASE Crash
  <2>1. LedgerState = "running" /\ LedgerState' = "idle"
    BY <1>7 DEF Crash, LedgerState
  <2>2. Recorded' = 0 /\ commands' = Ledger!Empty
    BY <1>7, EmptyIsBlank DEF Crash, Recorded
  <2> QED
    BY <2>1, <2>2 DEF Ledger!Next, Ledger!Lose
<1>8. CASE TouchContext \/ ExecuteUnit \/ TruncateContext \/ DumpContext
  <2>1. LedgerState = "running" /\ LedgerState' = "running"
    BY <1>8 DEF TouchContext, ExecuteUnit, TruncateContext, DumpContext, LedgerState
  <2>2. Recorded' = Recorded /\ commands' = commands
    BY <1>1, <1>8 DEF TouchContext, ExecuteUnit, TruncateContext, DumpContext, Recorded
  <2> QED
    BY <2>1, <2>2 DEF Ledger!vars
<1>9. CASE UNCHANGED vars
  BY <1>9 DEF vars, Ledger!vars, LedgerState, Recorded
<1> QED
  BY <1>3, <1>4, <1>5, <1>6, <1>7, <1>8, <1>9 DEF Next, Progress

\* A run of the pipelines, with its retries and crashes, implements the ledger.
THEOREM Refinement == Spec => ImplementsLedger
BY LedgerInit, LedgerStep, Invariance, PTL DEF Spec, ImplementsLedger, Ledger!Spec

-----------------------------------------------------------------------------
(* Model files.                                                            *)

\* A file a successful command made is there, and so it is when the command has
\* just returned; and an evaluation is skipped without a file only.
MadeIsThere ==
  /\ \A id \in Ids : id[3] \in Makers /\ commands[id] = "OK" => artifact[id[1]] # "absent"
  /\ phase = "ran" /\ Unit.command \in Makers /\ result = "OK" => artifact[Unit.model] # "absent"
  /\ phase = "ran" /\ Unit.command \in Evaluators /\ Unit.model # NoModel /\ result = "SKIPPED"
       => artifact[Unit.model] = "absent"

\* StaleOnlyFromFailure, and that it is the model's maker that has just failed.
StaleFromMaker ==
  ~KeepsWorkspace /\ phase # "down" =>
    \A m \in Models : artifact[m] = "stale" =>
      \/ \E id \in Ids : id[1] = m /\ id[3] \in Makers /\ commands[id] = "FAIL"
      \/ phase = "ran" /\ Unit.model = m /\ Unit.command \in Makers /\ result = "FAIL"

FilesInv == MadeIsThere /\ StaleFromMaker /\ SkippedOnlyIfNotProduced

LEMMA MakerTyping ==
  \A id \in Ids : id[3] \in Makers => id[1] \in Models
<1> SUFFICES ASSUME NEW id \in Ids, id[3] \in Makers PROVE id[1] \in Models
  OBVIOUS
<1>1. PICK i \in 1..Len(Plan) : id = Id(Plan[i])
  BY IdTyping
<1>2. id[1] = Plan[i].model /\ id[3] = Plan[i].command
  BY <1>1 DEF Id
<1> QED
  BY <1>2, PlanAssumption, PlanTyping DEF ModelsAreMadeOnce

\* What a command leaves of its model's file.
LEMMA OutcomeFiles ==
  ASSUME artifact \in [Models -> {"absent", "stale", "fresh"}],
         NEW u \in Units, NEW o \in Outcomes(u), u.model \in Models
  PROVE  /\ artifact[u.model] # "absent" => o.file # "absent"
         /\ u.command \in Makers /\ o.status = "OK" => o.file # "absent"
         /\ u.command \in Evaluators /\ o.status = "SKIPPED" => o.file = "absent"
         /\ o.file = "stale" /\ artifact[u.model] # "stale" =>
              u.command \in Makers /\ o.status = "FAIL"
<1> USE DEF Outcome, Makers
<1>1. /\ File(u.model) = artifact[u.model]
      /\ File(u.model) \in {"absent", "stale", "fresh"}
      /\ u.command \in Commands
  BY PlanAssumption DEF PlanIsTyped, File, Units
<1>2. CASE o \in RunOutcomes(u)
  <2>1. CASE u.command \in Exporters
    <3>1. o \in ExportOutcomes(u)
      BY <1>1, <1>2, <2>1, CommandKinds DEF RunOutcomes
    <3> QED
      BY <1>1, <2>1, <3>1, CommandKinds DEF ExportOutcomes, Failures
  <2>2. CASE u.command \in Converters
    <3>1. o \in ConversionOutcomes(u)
      BY <1>1, <1>2, <2>2, CommandKinds DEF RunOutcomes
    <3> QED
      BY <1>1, <2>2, <3>1, CommandKinds DEF ConversionOutcomes, Failures
  <2>3. CASE u.command \in Evaluators
    <3>1. o \in EvaluationOutcomes(u)
      BY <1>1, <1>2, <2>3, CommandKinds DEF RunOutcomes
    <3> QED
      BY <1>1, <2>3, <3>1, CommandKinds DEF EvaluationOutcomes
  <2>4. CASE u.command = "VerifyModel"
    <3>1. o \in VerifyOutcomes(u)
      BY <1>1, <1>2, <2>4, CommandKinds DEF RunOutcomes
    <3> QED
      BY <1>1, <2>4, <3>1, CommandKinds DEF VerifyOutcomes
  <2>5. CASE u.command \notin Exporters \cup Converters \cup Evaluators \cup {"VerifyModel"}
    <3>1. o \in {Outcome(s, File(u.model)) : s \in {"OK", "FAIL"}}
      BY <1>2, <2>5 DEF RunOutcomes
    <3> QED
      BY <1>1, <2>5, <3>1
  <2> QED
    BY <2>1, <2>2, <2>3, <2>4, <2>5
<1>3. CASE o \notin RunOutcomes(u)
  <2>1. /\ o.file = File(u.model) /\ o.status \in {"FAIL", "SKIPPED"}
        /\ o.status = "SKIPPED" => ~Executable(u)
    BY <1>3 DEF Outcomes
  <2>2. u.command \in Evaluators => Executable(u)
    BY DEF Executable, Requires, Evaluators
  <2> QED
    BY <1>1, <2>1, <2>2
<1> QED
  BY <1>2, <1>3

\* Required commands make and evaluate nothing.
LEMMA RequiredKinds == \A c \in Required : c \notin Makers /\ c \notin Evaluators
BY DEF Required, Makers, Exporters, Converters, Evaluators

LEMMA FilesExecute == IInv /\ FilesInv /\ (ExecuteUnit \/ ExitOnRequired) => FilesInv'
<1> SUFFICES ASSUME IInv, FilesInv, ExecuteUnit \/ ExitOnRequired PROVE FilesInv'
  OBVIOUS
<1> USE DEF FilesInv
<1>1. /\ phase = "ready" /\ phase' \in {"ran", "exited"}
      /\ pos \in 1..Len(Plan)
      /\ UNCHANGED <<pos, commands>>
      /\ artifact \in [Models -> {"absent", "stale", "fresh"}]
  BY PlanTyping DEF ExecuteUnit, ExitOnRequired, IInv, TypeOK
<1>2. Unit \in Units /\ Unit' = Unit /\ Unit = Plan[pos]
  BY <1>1, PlanTyping DEF Unit
<1>3. PICK o \in Outcomes(Unit) :
        /\ phase' = "exited" => Stops(Unit, o.status)
        /\ result' = o.status
        /\ artifact' = [m \in Models |-> IF m = Unit.model THEN o.file ELSE artifact[m]]
  BY DEF ExecuteUnit, ExitOnRequired
<1>4. phase' = "exited" => Unit.command \notin Makers
  BY <1>3, RequiredKinds DEF Stops
<1>5. Unit.model \in Models =>
        /\ artifact[Unit.model] # "absent" => o.file # "absent"
        /\ Unit.command \in Makers /\ o.status = "OK" => o.file # "absent"
        /\ Unit.command \in Evaluators /\ o.status = "SKIPPED" => o.file = "absent"
        /\ o.file = "stale" /\ artifact[Unit.model] # "stale" =>
             Unit.command \in Makers /\ o.status = "FAIL"
  BY <1>1, <1>2, OutcomeFiles
<1>6. Unit.model \in Models \cup {NoModel} /\ (Unit.command \in Makers => Unit.model \in Models)
  BY <1>1, <1>2, PlanAssumption, PlanTyping DEF ModelsAreMadeOnce
<1>7. MadeIsThere'
  <2>1. \A id \in Ids : id[3] \in Makers /\ commands'[id] = "OK" => artifact'[id[1]] # "absent"
    BY <1>1, <1>3, <1>5, MakerTyping DEF MadeIsThere
  <2>2. Unit.command \in Makers /\ result' = "OK" => artifact'[Unit.model] # "absent"
    BY <1>3, <1>5, <1>6
  <2>3. Unit.command \in Evaluators /\ Unit.model # NoModel /\ result' = "SKIPPED"
          => artifact'[Unit.model] = "absent"
    BY <1>3, <1>5, <1>6
  <2> QED
    BY <1>2, <2>1, <2>2, <2>3 DEF MadeIsThere
<1>8. StaleFromMaker'
  <2> SUFFICES ASSUME ~KeepsWorkspace, NEW m \in Models, artifact'[m] = "stale"
               PROVE  \/ \E id \in Ids : id[1] = m /\ id[3] \in Makers /\ commands'[id] = "FAIL"
                      \/ /\ phase' = "ran" /\ Unit'.model = m /\ Unit'.command \in Makers
                         /\ result' = "FAIL"
    BY DEF StaleFromMaker
  <2>1. CASE artifact[m] = "stale"
    BY <1>1, <2>1 DEF StaleFromMaker
  <2>2. CASE artifact[m] # "stale"
    <3>1. m = Unit.model /\ o.file = "stale"
      BY <1>3, <2>2
    <3>2. Unit.command \in Makers /\ o.status = "FAIL"
      BY <1>5, <2>2, <3>1
    <3> QED
      BY <1>1, <1>2, <1>3, <1>4, <3>1, <3>2
  <2> QED
    BY <2>1, <2>2
<1>9. SkippedOnlyIfNotProduced'
  BY <1>1 DEF SkippedOnlyIfNotProduced
<1> QED
  BY <1>7, <1>8, <1>9

\* An evaluation is recorded after its model's maker, whose status stays.
LEMMA FilesUpdate == IInv /\ FilesInv /\ Update => FilesInv'
<1> SUFFICES ASSUME IInv, FilesInv, Update PROVE FilesInv'
  OBVIOUS
<1> USE DEF FilesInv
<1> DEFINE this == Id(Unit)
<1>1. /\ phase = "ran" /\ phase' = "updated"
      /\ commands' = [commands EXCEPT ![this] = result]
      /\ UNCHANGED <<pos, artifact>>
  BY DEF Update
<1>2. /\ pos \in 1..Len(Plan) /\ this \in Ids
      /\ this = <<Unit.model, Unit.runner, Unit.command>>
      /\ Unit = Plan[pos] /\ Unit' = Unit
      /\ commands \in Ledgers
  BY <1>1, PlanTyping DEF IInv, TypeOK, Unit
<1>3. /\ commands'[this] = result
      /\ \A id \in Ids : id # this => commands'[id] = commands[id]
  BY <1>1, <1>2 DEF Ledgers
<1>4. this[1] = Unit.model /\ this[3] = Unit.command
  BY <1>2
<1> HIDE DEF this
<1>5. \A id \in Ids : commands[id] # NotRun =>
        \E i \in 1..Len(Plan) : i < pos /\ Id(Plan[i]) = id
  BY <1>1, <1>2 DEF IInv, LedgerIsPrefix, Recorded
\* A recorded unit of the same model precedes this one.
<1>6. ASSUME NEW id \in Ids, commands[id] # NotRun, id[1] = Unit.model
      PROVE  /\ id[3] \in Makers => Unit.command \notin Makers
             /\ id[3] \in Evaluators => Unit.command \notin Makers
  <2>1. PICK i \in 1..Len(Plan) : i < pos /\ Id(Plan[i]) = id
    BY <1>5, <1>6
  <2>2. Plan[i].model = Unit.model /\ Plan[i].command = id[3]
    BY <1>6, <2>1 DEF Id
  <2>3. i \in DOMAIN Plan /\ pos \in DOMAIN Plan /\ i \in Nat /\ pos \in Nat
    BY <1>2, PlanTyping
  <2> QED
    BY <1>2, <2>1, <2>2, <2>3, PlanAssumption DEF ModelsAreMadeOnce
<1>7. MadeIsThere'
  BY <1>1, <1>2, <1>3, <1>4 DEF MadeIsThere
<1>8. StaleFromMaker'
  <2> SUFFICES ASSUME ~KeepsWorkspace, NEW m \in Models, artifact[m] = "stale"
               PROVE  \E id \in Ids : id[1] = m /\ id[3] \in Makers /\ commands'[id] = "FAIL"
    BY <1>1 DEF StaleFromMaker
  <2>1. CASE Unit.model = m /\ Unit.command \in Makers /\ result = "FAIL"
    BY <1>2, <1>3, <1>4, <2>1
  <2>2. ASSUME NEW id \in Ids, id[1] = m, id[3] \in Makers, commands[id] = "FAIL"
        PROVE  commands'[id] = "FAIL"
    <3>1. id # this
      BY <1>4, <1>6, <2>2 DEF NotRun
    <3> QED
      BY <1>3, <2>2, <3>1
  <2> QED
    BY <1>1, <2>1, <2>2 DEF StaleFromMaker
<1>9. SkippedOnlyIfNotProduced'
  <2> SUFFICES ASSUME NEW id \in Ids, NEW maker \in Ids,
                      id[3] \in Evaluators, commands'[id] = "SKIPPED",
                      maker[1] = id[1], maker[3] \in Makers, commands'[maker] = "OK"
               PROVE  FALSE
    BY DEF SkippedOnlyIfNotProduced
  <2>1. id # maker
    BY DEF Makers, Exporters, Converters, Evaluators
  <2>2. CASE id # this /\ maker # this
    BY <1>3, <2>2 DEF SkippedOnlyIfNotProduced
  <2>3. CASE id = this
    <3>1. commands[maker] = "OK" /\ maker[1] = Unit.model /\ maker[1] \in Models
      BY <1>3, <1>4, <2>1, <2>3, MakerTyping
    <3>2. artifact[Unit.model] # "absent"
      BY <3>1 DEF MadeIsThere
    <3>3. artifact[Unit.model] = "absent"
      BY <1>1, <1>3, <1>4, <2>3, <3>1, PlanAssumption DEF PlanIsTyped, MadeIsThere
    <3> QED
      BY <3>2, <3>3
  <2>4. CASE maker = this
    <3>1. commands[id] = "SKIPPED" /\ id[1] = Unit.model /\ Unit.command \in Makers
      BY <1>3, <1>4, <2>1, <2>4
    <3> QED
      BY <1>6, <3>1 DEF NotRun
  <2> QED
    BY <2>2, <2>3, <2>4
<1> QED
  BY <1>7, <1>8, <1>9

LEMMA FilesStep == IInv /\ FilesInv /\ [Next]_vars => FilesInv'
<1> SUFFICES ASSUME IInv, FilesInv, [Next]_vars PROVE FilesInv'
  OBVIOUS
<1> USE DEF FilesInv
<1>1. CASE BeginRun
  <2>1. /\ phase' = "starting" /\ \A id \in Ids : commands'[id] = NotRun
        /\ artifact' = [m \in Models |-> InitialFile(m)]
    BY <1>1, BlankIsLedger DEF BeginRun
  <2>2. MadeIsThere' /\ SkippedOnlyIfNotProduced'
    BY <2>1 DEF MadeIsThere, SkippedOnlyIfNotProduced, NotRun
  <2>3. StaleFromMaker'
    BY <2>1 DEF StaleFromMaker, InitialFile
  <2> QED
    BY <2>2, <2>3
<1>2. CASE Crash
  <2>1. phase' = "down" /\ \A id \in Ids : commands'[id] = NotRun
    BY <1>2, BlankIsLedger DEF Crash
  <2> QED
    BY <2>1 DEF MadeIsThere, StaleFromMaker, SkippedOnlyIfNotProduced, NotRun
<1>3. CASE TouchContext \/ TruncateContext \/ DumpContext \/ Finish
  <2>1. /\ UNCHANGED <<commands, artifact>> /\ phase \notin {"down", "ran"}
        /\ phase' \notin {"down", "ran"}
    BY <1>3 DEF TouchContext, TruncateContext, DumpContext, Finish
  <2> QED
    BY <2>1 DEF MadeIsThere, StaleFromMaker, SkippedOnlyIfNotProduced
<1>4. CASE UNCHANGED vars
  BY <1>4 DEF vars, MadeIsThere, StaleFromMaker, SkippedOnlyIfNotProduced, Unit
<1> QED
  BY <1>1, <1>2, <1>3, <1>4, FilesExecute, FilesUpdate DEF Next, Progress

LEMMA FilesInit == Init => FilesInv
<1> SUFFICES ASSUME Init PROVE FilesInv
  OBVIOUS
<1>1. phase = "down" /\ \A id \in Ids : commands[id] = NotRun
  BY BlankIsLedger DEF Init
<1> QED
  BY <1>1 DEF FilesInv, MadeIsThere, StaleFromMaker, SkippedOnlyIfNotProduced, NotRun

THEOREM FilesInvariance == Spec => []FilesInv
BY FilesInit, FilesStep, Invariance, PTL DEF Spec

\* Evaluation is skipped for a missing file only where no command made one
\* (Correctness, Performance and Profile look for the model's file).
THEOREM SkippedRightly == Spec => []SkippedOnlyIfNotProduced
<1>1. FilesInv => SkippedOnlyIfNotProduced
  BY DEF FilesInv
<1> QED
  BY <1>1, FilesInvariance, PTL

\* In an initialised workspace nothing of an earlier run is taken for a result
\* of this one (optimize_pipeline).
THEOREM StaleRightly == Spec => []StaleOnlyFromFailure
<1>1. FilesInv => StaleOnlyFromFailure
  BY DEF FilesInv, StaleFromMaker, StaleOnlyFromFailure
<1> QED
  BY <1>1, FilesInvariance, PTL

-----------------------------------------------------------------------------
(* Arguments.                                                              *)

\* What a unit sees of the context are the outputs of its sources.
LEMMA VisibleSources ==
  ASSUME IInv, phase = "ready", pos <= Len(Plan), NEW id \in Visible(Unit)
  PROVE  \E j \in Sources(pos) : id = Id(Plan[j]) /\ id[3] = Plan[j].command
<1>1. id \in Ids /\ commands[id] # NotRun
  BY DEF Visible, NotRun
<1>2. PICK j \in 1..(pos - 1) : Id(Plan[j]) = id
  BY <1>1 DEF IInv, LedgerIsPrefix, Recorded
<1>3. id[1] = Plan[j].model /\ id[2] = Plan[j].runner /\ id[3] = Plan[j].command
  BY <1>2 DEF Id
<1>4. j \in Sources(pos)
  BY <1>2, <1>3 DEF Sources, Visible, Unit
<1> QED
  BY <1>2, <1>3, <1>4

\* A unit that may be executed can be called: command_args raises for no key
\* given twice, and every mandatory parameter is there, whichever optional
\* commands did not succeed (PipelineContext.command_args, Command.run).
THEOREM ArgumentsAreThere == Spec => []ArgumentsResolve
<1>1. IInv => ArgumentsResolve
  <2> SUFFICES ASSUME IInv, phase = "ready", pos <= Len(Plan) PROVE Callable(Unit)
    BY DEF ArgumentsResolve
  <2>1. pos \in DOMAIN Plan /\ Unit = Plan[pos] /\ pos \in Nat /\ Len(Plan) \in Nat
    BY PlanTyping DEF IInv, TypeOK, Unit
  <2>2. /\ Unit.kwargs \cap ConfigArgs = {}
        /\ ModelArgs(Unit) \cap (ConfigArgs \cup Unit.kwargs) = {}
        /\ \A j \in Sources(pos) :
             /\ Outputs[Plan[j].command] \cap Given(Unit) = {}
             /\ \A k \in Sources(pos) : Id(Plan[k]) # Id(Plan[j]) =>
                  Outputs[Plan[j].command] \cap Outputs[Plan[k].command] = {}
        /\ Needs[Unit.command] \subseteq
             Given(Unit) \cup UNION {Outputs[Plan[j].command] :
                                     j \in {k \in Sources(pos) : Plan[k].command \in Required}}
    BY <2>1, PlanAssumption DEF ArgumentsHaveOneSource
  <2>3. ~Clash(Unit)
    <3>1. ASSUME NEW id \in Visible(Unit) PROVE Outputs[id[3]] \cap Given(Unit) = {}
      BY <2>2, VisibleSources
    <3>2. ASSUME NEW id \in Visible(Unit), NEW other \in Visible(Unit) \ {id}
          PROVE  Outputs[id[3]] \cap Outputs[other[3]] = {}
      <4>1. PICK j \in Sources(pos) : id = Id(Plan[j]) /\ id[3] = Plan[j].command
        BY VisibleSources
      <4>2. PICK k \in Sources(pos) : other = Id(Plan[k]) /\ other[3] = Plan[k].command
        BY VisibleSources
      <4> QED
        BY <2>2, <4>1, <4>2
    <3> QED
      BY <2>2, <3>1, <3>2 DEF Clash, Given
  <2>4. ASSUME NEW j \in Sources(pos), Plan[j].command \in Required
        PROVE  Outputs[Plan[j].command] \subseteq Arguments(Unit)
    <3> DEFINE id == Id(Plan[j])
    <3>1. j \in 1..(pos - 1) /\ j \in 1..Len(Plan)
      BY <2>1 DEF Sources
    <3>2. id \in Ids /\ id = <<Plan[j].model, Plan[j].runner, Plan[j].command>>
      BY <3>1, PlanTyping
    <3>3. commands[id] = "OK"
      BY <2>4, <3>1 DEF IInv, RequiredSucceeded, Recorded
    <3>4. id \in Visible(Unit) /\ id[3] = Plan[j].command
      BY <2>1, <3>2, <3>3 DEF Visible, Sources
    <3> QED
      BY <3>4 DEF Arguments
  <2>5. Needs[Unit.command] \subseteq Arguments(Unit)
    BY <2>2, <2>4 DEF Arguments, Given
  <2> QED
    BY <2>3, <2>5 DEF Callable
<1> QED
  BY <1>1, Invariance, PTL

-----------------------------------------------------------------------------
(* Lists that enumerate sets.                                              *)

\* t lists the elements of X, each one once.
Enumerates(t, X) == t \in Seq(X) /\ IsInjective(t) /\ ToSet(t) = X

\* What an enumeration of a set is, position by position.
LEMMA ListedElements ==
  ASSUME NEW t, NEW X, Enumerates(t, X)
  PROVE  /\ Len(t) \in Nat /\ DOMAIN t = 1..Len(t)
         /\ \A i \in 1..Len(t) : t[i] \in X
         /\ \A x \in X : \E i \in 1..Len(t) : t[i] = x
         /\ \A i, j \in 1..Len(t) : t[i] = t[j] => i = j
         /\ t \in Seq(X) /\ ToSet(t) = X
<1>1. t \in Seq(X) /\ IsInjective(t) /\ ToSet(t) = X
  BY DEF Enumerates
<1>2. Len(t) \in Nat /\ DOMAIN t = 1..Len(t)
  BY <1>1
<1> QED
  BY <1>1, <1>2 DEF ToSet, IsInjective

\* A function that takes every value of a set once enumerates it.
LEMMA Listed ==
  ASSUME NEW t, NEW n \in Nat, DOMAIN t = 1..n, t = [i \in 1..n |-> t[i]],
         NEW X, \A i \in 1..n : t[i] \in X, \A x \in X : \E i \in 1..n : t[i] = x,
         \A i, j \in 1..n : t[i] = t[j] => i = j
  PROVE  Enumerates(t, X) /\ Len(t) = n
<1>1. t \in [1..n -> X]
  OBVIOUS
<1>2. t \in Seq(X) /\ Len(t) = n
  BY <1>1
<1>3. IsInjective(t)
  BY DEF IsInjective
<1>4. ToSet(t) = X
  BY DEF ToSet
<1> QED
  BY <1>2, <1>3, <1>4 DEF Enumerates

\* The empty set is enumerated by nothing.
LEMMA NothingListed == Enumerates(<<>>, {})
BY DEF Enumerates, IsInjective, ToSet

\* One element is enumerated by itself.
LEMMA OneListed == ASSUME NEW e PROVE Enumerates(<<e>>, {e})
<1> DEFINE t == <<e>>
<1>1. DOMAIN t = 1..1 /\ t[1] = e /\ t = [i \in 1..1 |-> t[i]]
  OBVIOUS
<1>2. t \in Seq({e}) /\ IsInjective(t) /\ ToSet(t) = {e}
  BY <1>1 DEF IsInjective, ToSet
<1> QED
  BY <1>2 DEF Enumerates

\* Enumerations of two sets, one after the other: where their elements are, and
\* that they enumerate both sets if these have nothing in common.
LEMMA JoinedList ==
  ASSUME NEW s, NEW X, Enumerates(s, X), NEW t, NEW Y, Enumerates(t, Y)
  PROVE  /\ Len(s \o t) = Len(s) + Len(t) /\ DOMAIN (s \o t) = 1..(Len(s) + Len(t))
         /\ s \o t \in Seq(X \cup Y)
         /\ \A i \in 1..Len(s) : (s \o t)[i] = s[i]
         /\ \A i \in (Len(s) + 1)..(Len(s) + Len(t)) :
              i - Len(s) \in 1..Len(t) /\ (s \o t)[i] = t[i - Len(s)]
         /\ X \cap Y = {} => Enumerates(s \o t, X \cup Y)
<1> DEFINE u == s \o t
           Z == X \cup Y
<1>1. /\ s \in Seq(X) /\ Len(s) \in Nat /\ DOMAIN s = 1..Len(s)
      /\ \A i \in 1..Len(s) : s[i] \in X
      /\ \A x \in X : \E i \in 1..Len(s) : s[i] = x
      /\ \A i, j \in 1..Len(s) : s[i] = s[j] => i = j
  BY ListedElements
<1>2. /\ t \in Seq(Y) /\ Len(t) \in Nat /\ DOMAIN t = 1..Len(t)
      /\ \A i \in 1..Len(t) : t[i] \in Y
      /\ \A x \in Y : \E i \in 1..Len(t) : t[i] = x
      /\ \A i, j \in 1..Len(t) : t[i] = t[j] => i = j
  BY ListedElements
<1> DEFINE m == Len(s)
           n == Len(t)
<1>3. /\ u \in Seq(Z) /\ Len(u) = m + n /\ DOMAIN u = 1..(m + n)
      /\ u = [i \in 1..(m + n) |-> u[i]]
  <2>1. s \in Seq(Z) /\ t \in Seq(Z)
    BY <1>1, <1>2
  <2> HIDE DEF Z
  <2>2. u \in Seq(Z) /\ Len(u) = m + n
    BY <2>1
  <2> HIDE DEF u
  <2> QED
    BY <1>1, <1>2, <2>2
<1>4. \A i \in 1..m : u[i] = s[i]
  BY <1>1, <1>2
<1>5. \A i \in (m + 1)..(m + n) : i - m \in 1..n /\ u[i] = t[i - m]
  BY <1>1, <1>2
<1> HIDE DEF u, Z
<1>6. ASSUME X \cap Y = {}
      PROVE  Enumerates(u, Z)
  <2>0. m \in Nat /\ n \in Nat /\ m + n \in Nat
    BY <1>1, <1>2
  <2> HIDE DEF m, n
  <2>1. ASSUME NEW i \in 1..(m + n)
        PROVE  \/ i \in 1..m /\ u[i] \in X
               \/ i \in (m + 1)..(m + n) /\ u[i] \in Y
    <3>1. i \in 1..m \/ i \in (m + 1)..(m + n)
      BY <2>0
    <3> QED
      BY <1>1, <1>2, <1>4, <1>5, <3>1 DEF m, n
  <2>2. \A i \in 1..(m + n) : u[i] \in Z
    BY <2>1 DEF Z
  <2>3. ASSUME NEW z \in Z
        PROVE  \E i \in 1..(m + n) : u[i] = z
    <3>1. CASE z \in X
      <4>1. PICK i \in 1..m : s[i] = z
        BY <1>1, <3>1 DEF m
      <4> QED
        BY <1>4, <2>0, <4>1
    <3>2. CASE z \in Y
      <4>1. PICK i \in 1..n : t[i] = z
        BY <1>2, <3>2 DEF n
      <4>2. m + i \in (m + 1)..(m + n) /\ m + i \in 1..(m + n) /\ (m + i) - m = i
        BY <2>0
      <4> QED
        BY <1>5, <4>1, <4>2
    <3> QED
      BY <3>1, <3>2 DEF Z
  <2>4. ASSUME NEW i \in 1..(m + n), NEW j \in 1..(m + n), u[i] = u[j]
        PROVE  i = j
    <3>1. CASE i \in 1..m /\ j \in 1..m
      BY <1>1, <1>4, <2>4, <3>1 DEF m
    <3>2. CASE i \in (m + 1)..(m + n) /\ j \in (m + 1)..(m + n)
      <4>1. i - m = j - m
        BY <1>2, <1>5, <2>4, <3>2 DEF n
      <4> QED
        BY <2>0, <4>1
    <3>3. CASE (u[i] \in X /\ u[j] \in Y) \/ (u[i] \in Y /\ u[j] \in X)
      BY <1>6, <2>4, <3>3
    <3>4. \/ i \in 1..m /\ u[i] \in X
          \/ i \in (m + 1)..(m + n) /\ u[i] \in Y
      BY <2>1
    <3>5. \/ j \in 1..m /\ u[j] \in X
          \/ j \in (m + 1)..(m + n) /\ u[j] \in Y
      BY <2>1
    <3> QED
      BY <3>1, <3>2, <3>3, <3>4, <3>5
  <2> QED
    BY <1>3, <2>0, <2>2, <2>3, <2>4, Listed
<1> QED
  BY <1>1, <1>3, <1>4, <1>5, <1>6 DEF u, Z

\* Every set of numbers has a least one.
LEMMA LeastNumber ==
  ASSUME NEW T \in SUBSET Nat, T # {}
  PROVE  \E m \in T : \A k \in T : m <= k
<1>1. PICK m \in T : \A k \in Nat : <<k, m>> \in OpToRel(<, Nat) => k \notin T
  BY NatLessThanWellFounded, WFMin
<1>2. \A k \in Nat : k < m => <<k, m>> \in OpToRel(<, Nat)
  BY DEF OpToRel
<1>3. \A k \in T : ~(k < m)
  BY <1>1, <1>2, Zenon
<1> QED
  BY <1>3

\* What holds of the first 0 lists, and of one list more each time, holds of all.
LEMMA AllPrefixes ==
  ASSUME NEW n \in Nat, NEW T \in SUBSET (0..n), 0 \in T, \A m \in 1..n : m - 1 \in T => m \in T
  PROVE  T = 0..n
<1> SUFFICES ASSUME (0..n) \ T # {}
             PROVE  FALSE
  OBVIOUS
<1>1. PICK m \in (0..n) \ T : \A k \in (0..n) \ T : m <= k
  <2>1. (0..n) \ T \in SUBSET Nat
    OBVIOUS
  <2> QED
    BY <2>1, LeastNumber
<1>2. m \in 1..n /\ m - 1 \in 0..n /\ ~(m <= m - 1)
  BY <1>1
<1> QED
  BY <1>1, <1>2

\* f[i] joins the first i lists of s.
IsFlattening(f, m, s) == f = [i \in 1..m |-> IF i = 1 THEN s[i] ELSE f[i-1] \o s[i]]

\* The function FlattenSeq chooses exists for every list of lists.
LEMMA FlatteningExists ==
  ASSUME NEW n \in Nat, NEW S, NEW s \in [1..n -> Seq(S)]
  PROVE  \E f \in [1..n -> Seq(S)] : IsFlattening(f, n, s)
<1> DEFINE T == {m \in 0..n : \E f \in [1..m -> Seq(S)] : IsFlattening(f, m, s)}
<1>1. 0 \in T
  <2>1. \E f \in [1..0 -> Seq(S)] : IsFlattening(f, 0, s)
    <3> DEFINE f == [i \in 1..0 |-> <<>>]
    <3>1. f \in [1..0 -> Seq(S)] /\ IsFlattening(f, 0, s)
      BY DEF IsFlattening
    <3> QED
      BY <3>1
  <2>2. 0 \in 0..n
    OBVIOUS
  <2> QED
    BY <2>1, <2>2
<1>2. ASSUME NEW m \in 1..n, m - 1 \in T
      PROVE  m \in T
  <2>1. PICK f \in [1..(m - 1) -> Seq(S)] : IsFlattening(f, m - 1, s)
    BY <1>2
  <2> DEFINE last == IF m = 1 THEN s[m] ELSE f[m - 1] \o s[m]
             g == [i \in 1..m |-> IF i = m THEN last ELSE f[i]]
  <2>2. last \in Seq(S)
    <3>1. CASE m = 1
      BY <3>1
    <3>2. CASE m # 1
      <4>1. m - 1 \in 1..(m - 1)
        BY <3>2
      <4>2. f[m - 1] \in Seq(S) /\ s[m] \in Seq(S)
        BY <2>1, <4>1
      <4> QED
        BY <3>2, <4>2
    <3> QED
      BY <3>1, <3>2
  <2> HIDE DEF last
  <2>3. g \in [1..m -> Seq(S)]
    BY <2>1, <2>2
  <2>4. \A i \in 1..(m - 1) : g[i] = f[i]
    OBVIOUS
  <2>5. \A i \in 1..(m - 1) : f[i] = IF i = 1 THEN s[i] ELSE f[i-1] \o s[i]
    BY <2>1 DEF IsFlattening
  <2>6. g[m] = IF m = 1 THEN s[m] ELSE g[m - 1] \o s[m]
    <3>1. g[m] = last
      OBVIOUS
    <3> HIDE DEF g
    <3>2. m # 1 => g[m - 1] = f[m - 1]
      BY <2>4
    <3> QED
      BY <3>1, <3>2 DEF last
  <2>7. g = [i \in 1..m |-> g[i]]
    BY <2>3
  <2> HIDE DEF g
  <2>8. \A i \in 1..m : g[i] = IF i = 1 THEN s[i] ELSE g[i-1] \o s[i]
    <3> SUFFICES ASSUME NEW i \in 1..m
                 PROVE  g[i] = IF i = 1 THEN s[i] ELSE g[i-1] \o s[i]
      OBVIOUS
    <3>1. CASE i = m
      BY <2>6, <3>1
    <3>2. CASE i # m
      <4>1. i \in 1..(m - 1) /\ (i # 1 => i - 1 \in 1..(m - 1))
        BY <3>2
      <4>2. g[i] = f[i] /\ (i # 1 => g[i - 1] = f[i - 1])
        BY <2>4, <4>1
      <4> QED
        BY <2>5, <4>1, <4>2
    <3> QED
      BY <3>1, <3>2
  <2>9. IsFlattening(g, m, s)
    BY <2>7, <2>8 DEF IsFlattening
  <2> QED
    BY <2>3, <2>9
<1> HIDE DEF T
<1>3. T \in SUBSET (0..n)
  BY DEF T
<1>4. T = 0..n
  BY <1>1, <1>2, <1>3, AllPrefixes
<1> QED
  BY <1>4 DEF T

\* FlattenSeq enumerates what its lists enumerate, if they have nothing in common.
LEMMA FlattenedList ==
  ASSUME NEW n \in Nat, NEW s, DOMAIN s = 1..n, s = [i \in 1..n |-> s[i]],
         NEW X, \A i \in 1..n : Enumerates(s[i], X[i]),
         \A i, j \in 1..n : i # j => X[i] \cap X[j] = {}
  PROVE  Enumerates(FlattenSeq(s), UNION {X[i] : i \in 1..n})
<1> DEFINE S == UNION {X[i] : i \in 1..n}
           Of == [m \in 0..n |-> UNION {X[i] : i \in 1..m}]
<1>1. \A i \in 1..n : s[i] \in Seq(S)
  <2> SUFFICES ASSUME NEW i \in 1..n
               PROVE  s[i] \in Seq(S)
    OBVIOUS
  <2>1. s[i] \in Seq(X[i]) /\ X[i] \subseteq S
    BY DEF Enumerates
  <2> HIDE DEF S
  <2> QED
    BY <2>1
<1>2. s \in [1..n -> Seq(S)] /\ s \in Seq(Seq(S)) /\ Len(s) = n
  <2> HIDE DEF S
  <2> QED
    BY <1>1
<1>3. CASE n = 0
  <2>1. s = <<>> /\ S = {}
    BY <1>2, <1>3
  <2>2. FlattenSeq(s) = <<>>
    BY <1>2, <1>3, <2>1 DEF FlattenSeq
  <2> QED
    BY <2>1, <2>2, NothingListed
<1>4. CASE n # 0
  <2> DEFINE f == CHOOSE g : IsFlattening(g, n, s)
  <2> HIDE DEF S
  <2>1. \E g : IsFlattening(g, n, s)
    BY <1>2, FlatteningExists
  <2>2. IsFlattening(f, n, s)
    BY <2>1
  <2>3. FlattenSeq(s) = f[n]
    BY <1>2, <1>4 DEF FlattenSeq, IsFlattening
  <2> HIDE DEF f
  <2>4. \A i \in 1..n : f[i] = IF i = 1 THEN s[i] ELSE f[i-1] \o s[i]
    BY <2>2 DEF IsFlattening
  <2>0. \A m \in 0..n : Of[m] = UNION {X[i] : i \in 1..m}
    OBVIOUS
  <2>9. \A m \in 0..n : \A y : y \in Of[m] <=> \E i \in 1..m : y \in X[i]
    BY <2>0
  <2> HIDE DEF Of
  <2> DEFINE T == {m \in 0..n : m # 0 => Enumerates(f[m], Of[m])}
  <2>5. ASSUME NEW m \in 1..n, m - 1 \in T
        PROVE  m \in T
    <3>1. CASE m = 1
      <4>1. Of[1] = X[1] /\ f[1] = s[1]
        <5>1. 1 \in 0..n /\ 1 \in 1..1 /\ \A i \in 1..1 : i = 1
          BY <3>1
        <5>2. \A y : y \in Of[1] <=> y \in X[1]
          BY <2>9, <5>1
        <5> QED
          BY <2>4, <3>1, <5>2
      <4> QED
        BY <3>1, <4>1
    <3>2. CASE m # 1
      <4>1. m - 1 \in 1..n /\ Enumerates(f[m - 1], Of[m - 1])
        BY <2>5, <3>2
      <4>2. f[m] = f[m - 1] \o s[m] /\ Of[m] = Of[m - 1] \cup X[m]
        <5>1. f[m] = f[m - 1] \o s[m]
          BY <2>4, <3>2
        <5>2. m - 1 \in 0..n /\ 1..m = 1..(m - 1) \cup {m}
          BY <3>2
        <5>3. \A y : y \in Of[m] <=> y \in Of[m - 1] \/ y \in X[m]
          BY <2>9, <5>2
        <5> QED
          BY <5>1, <5>3
      <4>3. Of[m - 1] \cap X[m] = {}
        <5>1. \A i \in 1..(m - 1) : i \in 1..n /\ i # m
          OBVIOUS
        <5>2. m - 1 \in 0..n
          OBVIOUS
        <5> QED
          BY <2>9, <5>1, <5>2
      <4>4. Enumerates(f[m - 1] \o s[m], Of[m - 1] \cup X[m])
        BY <4>1, <4>3, JoinedList
      <4>5. Enumerates(f[m], Of[m])
        BY <4>2, <4>4
      <4> QED
        BY <4>5
    <3> QED
      BY <3>1, <3>2
  <2> HIDE DEF T
  <2>6. T \in SUBSET (0..n) /\ 0 \in T
    BY DEF T
  <2>7. T = 0..n
    BY <2>5, <2>6, AllPrefixes
  <2>8. Enumerates(f[n], Of[n])
    BY <1>4, <2>7 DEF T
  <2> QED
    BY <2>3, <2>8 DEF Of
<1> QED
  BY <1>3, <1>4

-----------------------------------------------------------------------------
(* Configurations and their keys.                                          *)

\* Where keeps the elements it should, each one once.
LEMMA FilteredList ==
  ASSUME NEW s, NEW X, Enumerates(s, X), NEW K
  PROVE  Enumerates(Where(s, K), X \cap K)
<1> DEFINE n == Len(s)
           u == [i \in 1..n |-> IF s[i] \in K THEN <<s[i]>> ELSE <<>>]
           Y == [i \in 1..n |-> {s[i]} \cap K]
<1>1. /\ n \in Nat
      /\ \A i \in 1..n : s[i] \in X
      /\ \A x \in X : \E i \in 1..n : s[i] = x
      /\ \A i, j \in 1..n : s[i] = s[j] => i = j
  BY ListedElements
<1>2. Where(s, K) = FlattenSeq(u)
  BY DEF Where
<1>3. DOMAIN u = 1..n /\ u = [i \in 1..n |-> u[i]]
  OBVIOUS
<1>4. \A i \in 1..n : u[i] = (IF s[i] \in K THEN <<s[i]>> ELSE <<>>) /\ Y[i] = {s[i]} \cap K
  OBVIOUS
<1> HIDE DEF n, u, Y
<1>5. ASSUME NEW i \in 1..n
      PROVE  Enumerates(u[i], Y[i])
  <2>1. CASE s[i] \in K
    <3>1. u[i] = <<s[i]>> /\ Y[i] = {s[i]}
      BY <1>4, <2>1
    <3> QED
      BY <3>1, OneListed
  <2>2. CASE s[i] \notin K
    <3>1. u[i] = <<>> /\ Y[i] = {}
      BY <1>4, <2>2
    <3> QED
      BY <3>1, NothingListed
  <2> QED
    BY <2>1, <2>2
<1>6. ASSUME NEW i \in 1..n, NEW j \in 1..n, i # j
      PROVE  Y[i] \cap Y[j] = {}
  <2>1. s[i] # s[j]
    BY <1>1, <1>6
  <2>2. Y[i] \subseteq {s[i]} /\ Y[j] \subseteq {s[j]}
    BY <1>4
  <2> QED
    BY <2>1, <2>2
<1>7. Enumerates(FlattenSeq(u), UNION {Y[i] : i \in 1..n})
  BY <1>1, <1>3, <1>5, <1>6, FlattenedList
<1>8. UNION {Y[i] : i \in 1..n} = X \cap K
  <2>1. \A x : x \in UNION {Y[i] : i \in 1..n} <=> \E i \in 1..n : x = s[i] /\ s[i] \in K
    <3>1. \A i \in 1..n : \A x : x \in Y[i] <=> x = s[i] /\ s[i] \in K
      BY <1>4
    <3> QED
      BY <3>1
  <2> QED
    BY <1>1, <2>1
<1> QED
  BY <1>2, <1>7, <1>8

\* Sets of options, as they are joined in keys.
Words == Seq(STRING)
ModelKeys == Formats \X Words
Configs == [format : Formats, options : Words, parent : {NullModel} \cup ModelKeys]

\* No two of the configurations have the same key.
KeysDiffer(X) == \A c, d \in X : Key(c) = Key(d) => c = d

\* A list of configurations of one format.
IsConfigList(t, f) ==
  /\ Enumerates(t, ToSet(t)) /\ ToSet(t) \subseteq Configs
  /\ \A c \in ToSet(t) : c.format = f
  /\ KeysDiffer(ToSet(t))

\* a \o b, which the provers take apart only where it is expanded.
Chained(a, b) == a \o b

\* The words of a chain are those of its parts.
LEMMA WordsChained ==
  ASSUME NEW a \in Words, NEW b \in Words
  PROVE  /\ Chained(a, b) \in Words /\ Len(a) \in Nat /\ Len(b) \in Nat
         /\ Len(Chained(a, b)) = Len(a) + Len(b)
         /\ \A i \in 1..Len(a) : Chained(a, b)[i] = a[i]
         /\ \A i \in 1..Len(b) : Chained(a, b)[Len(a) + i] = b[i]
BY DEF Words, Chained

\* Words are the same if they are the same letter by letter.
LEMMA SameWords ==
  ASSUME NEW a \in Words, NEW b \in Words, Len(a) = Len(b), \A i \in 1..Len(a) : a[i] = b[i]
  PROVE  a = b
BY DEF Words

\* A chain whose second part has a known length tells both its parts: what makes
\* the key of a configuration tell its parent.
LEMMA ChainedWords ==
  ASSUME NEW a \in Words, NEW b \in Words, NEW c \in Words, NEW d \in Words,
         Len(b) = Len(d), Chained(a, b) = Chained(c, d)
  PROVE  a = c /\ b = d
<1> DEFINE e == Chained(a, b)
           g == Chained(c, d)
<1>1. /\ Len(a) \in Nat /\ Len(b) \in Nat /\ Len(e) = Len(a) + Len(b)
      /\ \A i \in 1..Len(a) : e[i] = a[i]
      /\ \A i \in 1..Len(b) : e[Len(a) + i] = b[i]
  BY WordsChained
<1>2. /\ Len(c) \in Nat /\ Len(d) \in Nat /\ Len(g) = Len(c) + Len(d)
      /\ \A i \in 1..Len(c) : g[i] = c[i]
      /\ \A i \in 1..Len(d) : g[Len(c) + i] = d[i]
  BY WordsChained
<1>6. e = g
  OBVIOUS
<1> HIDE DEF e, g
<1>3. Len(a) = Len(c)
  BY <1>1, <1>2, <1>6
<1>4. \A i \in 1..Len(a) : a[i] = c[i]
  BY <1>1, <1>2, <1>3, <1>6
<1>5. \A i \in 1..Len(b) : b[i] = d[i]
  BY <1>1, <1>2, <1>3, <1>6
<1> QED
  BY <1>3, <1>4, <1>5, SameWords

\* What Config makes of a format and its options.
LEMMA RootConfig ==
  ASSUME NEW f \in Formats, NEW o \in Words
  PROVE  /\ Config(f, o, <<>>) \in Configs
         /\ Config(f, o, <<>>).format = f /\ Config(f, o, <<>>).options = o
         /\ Config(f, o, <<>>).parent = NullModel
         /\ Key(Config(f, o, <<>>)) = <<f, o>>
<1>1. <<>> \o o = o
  BY DEF Words
<1> QED
  BY <1>1 DEF Config, Configs, NullModel, Key

\* What Config makes of a format, its options and a parent.
LEMMA ChildConfig ==
  ASSUME NEW f \in Formats, NEW o \in Words, NEW p \in Configs
  PROVE  /\ Config(f, o, <<p>>) \in Configs
         /\ Config(f, o, <<p>>).format = f /\ Config(f, o, <<p>>).options = Chained(p.options, o)
         /\ Config(f, o, <<p>>).parent = Key(p)
         /\ Key(Config(f, o, <<p>>)) = <<f, Chained(p.options, o)>>
<1>1. p.format \in Formats /\ p.options \in Words
  BY DEF Configs
<1>2. Chained(p.options, o) \in Words
  BY <1>1, WordsChained
<1>3. <<p>> # <<>> /\ <<p>>[1] = p
  OBVIOUS
<1>4. Config(f, o, <<p>>) = [format |-> f, options |-> Chained(p.options, o),
                             parent |-> <<p.format, p.options>>]
  BY <1>3 DEF Config, Chained
<1>5. <<p.format, p.options>> \in ModelKeys
  BY <1>1 DEF ModelKeys
<1>6. Key(p) = <<p.format, p.options>>
  BY DEF Key
<1> DEFINE c == Config(f, o, <<p>>)
<1>7. c.format = f /\ c.options = Chained(p.options, o) /\ c.parent = Key(p)
  BY <1>4, <1>6
<1>8. c \in Configs
  <2> DEFINE a == Chained(p.options, o)
             b == <<p.format, p.options>>
  <2>1. c = [format |-> f, options |-> a, parent |-> b] /\ a \in Words
    BY <1>2, <1>4
  <2>2. b \in {NullModel} \cup ModelKeys
    BY <1>5
  <2> HIDE DEF a, b, c
  <2> QED
    BY <2>1, <2>2 DEF Configs
<1> QED
  BY <1>7, <1>8 DEF Key

\* No configuration is a list of configurations.
LEMMA NoConfigs == ASSUME NEW f PROVE IsConfigList(<<>>, f) /\ ToSet(<<>>) = {}
<1>1. ToSet(<<>>) = {}
  BY DEF ToSet
<1> QED
  BY <1>1, NothingListed DEF IsConfigList, KeysDiffer

\* Roots lists one configuration per option, without parents.
LEMMA RootList ==
  ASSUME NEW f \in Formats, NEW o, AreOptions(o)
  PROVE  /\ IsConfigList(Roots(f, o), f)
         /\ ToSet(Roots(f, o)) = {Config(f, o[i], <<>>) : i \in DOMAIN o}
         /\ \A c \in ToSet(Roots(f, o)) :
              c.parent = NullModel /\ \E i \in DOMAIN o : c.options = o[i]
<1> DEFINE n == Len(o)
           t == Roots(f, o)
           X == {Config(f, o[i], <<>>) : i \in 1..n}
<1>1. /\ n \in Nat /\ DOMAIN o = 1..n /\ \A i \in 1..n : o[i] \in Words
      /\ \A i, j \in 1..n : o[i] = o[j] => i = j
  BY DEF AreOptions, IsInjective, Words
<1>2. DOMAIN t = 1..n /\ t = [i \in 1..n |-> t[i]] /\ \A i \in 1..n : t[i] = Config(f, o[i], <<>>)
  BY DEF Roots
<1> HIDE DEF n, t
<1>3. \A i \in 1..n : /\ t[i] \in Configs /\ t[i].format = f /\ t[i].options = o[i]
                      /\ t[i].parent = NullModel /\ Key(t[i]) = <<f, o[i]>>
  BY <1>1, <1>2, RootConfig
<1>4. /\ \A i \in 1..n : t[i] \in X
      /\ \A x \in X : \E i \in 1..n : t[i] = x
  BY <1>2
<1>5. \A i, j \in 1..n : t[i] = t[j] => i = j
  BY <1>1, <1>3
<1> HIDE DEF X
<1>6. Enumerates(t, X)
  BY <1>1, <1>2, <1>4, <1>5, Listed
<1>7. ToSet(t) = X
  BY <1>6 DEF Enumerates
<1>8. KeysDiffer(X)
  <2> SUFFICES ASSUME NEW c \in X, NEW d \in X, Key(c) = Key(d)
               PROVE  c = d
    BY DEF KeysDiffer
  <2>1. PICK i \in 1..n : t[i] = c
    BY <1>4
  <2>2. PICK j \in 1..n : t[j] = d
    BY <1>4
  <2>3. o[i] = o[j]
    BY <1>3, <2>1, <2>2
  <2> QED
    BY <1>1, <2>1, <2>2, <2>3
<1>9. \A c \in X : /\ c \in Configs /\ c.format = f /\ c.parent = NullModel
                   /\ \E i \in 1..n : c.options = o[i]
  BY <1>3, <1>4
<1> QED
  BY <1>1, <1>6, <1>7, <1>8, <1>9 DEF IsConfigList, X, t

\* No option is the beginning of another.
SameLength(o) == \A i, j \in DOMAIN o : Len(o[i]) = Len(o[j])

\* Each configuration has one of the parents and one of the options after its own.
AreChildren(t, f, ps, o) ==
  \A c \in ToSet(t) : \E p \in ToSet(ps), i \in DOMAIN o :
    c = Config(f, o[i], <<p>>) /\ c.parent = Key(p) /\ c.options = Chained(p.options, o[i])

\* Product lists children, no two with the same key: the options have one length.
LEMMA ProductList ==
  ASSUME NEW f \in Formats, NEW g, NEW ps, IsConfigList(ps, g), NEW o, AreOptions(o), SameLength(o)
  PROVE  /\ IsConfigList(Product(f, ps, o), f)
         /\ AreChildren(Product(f, ps, o), f, ps, o)
<1> DEFINE n == Len(o)
           m == Len(ps)
           P == ToSet(ps)
           Of(p) == {Config(f, o[j], <<p>>) : j \in 1..n}
           Both(p, j) == Chained(p.options, o[j])
           s == [i \in 1..m |-> [j \in 1..n |-> Config(f, o[j], <<ps[i]>>)]]
           X == [i \in 1..m |-> Of(ps[i])]
           Y == UNION {X[i] : i \in 1..m}
<1>1. /\ n \in Nat /\ DOMAIN o = 1..n /\ \A i \in 1..n : o[i] \in Words
      /\ \A i, j \in 1..n : o[i] = o[j] => i = j
  BY DEF AreOptions, IsInjective, Words
<1>2. /\ m \in Nat /\ \A i \in 1..m : ps[i] \in P
      /\ \A p \in P : \E i \in 1..m : ps[i] = p
      /\ \A i, j \in 1..m : ps[i] = ps[j] => i = j
  BY ListedElements DEF IsConfigList
<1>3. P \subseteq Configs /\ KeysDiffer(P) /\ \A p \in P : p.format = g
  BY DEF IsConfigList
<1>4. Product(f, ps, o) = FlattenSeq(s)
  BY DEF Product
<1>5. DOMAIN s = 1..m /\ s = [i \in 1..m |-> s[i]]
  OBVIOUS
<1>6. \A i \in 1..m : s[i] = [j \in 1..n |-> Config(f, o[j], <<ps[i]>>)] /\ X[i] = Of(ps[i])
  OBVIOUS
<1>7. ASSUME NEW p \in P, NEW j \in 1..n
      PROVE  /\ Config(f, o[j], <<p>>) \in Configs /\ Config(f, o[j], <<p>>).format = f
             /\ Config(f, o[j], <<p>>).options = Both(p, j)
             /\ Config(f, o[j], <<p>>).parent = Key(p)
             /\ Key(Config(f, o[j], <<p>>)) = <<f, Both(p, j)>>
  <2>1. p \in Configs /\ o[j] \in Words
    BY <1>1, <1>3
  <2> QED
    BY <2>1, ChildConfig
<1> HIDE DEF n, m, P, s, X, Both
\* The options of a child tell its parent and its own option.
<1>8. ASSUME NEW p \in P, NEW q \in P, NEW i \in 1..n, NEW j \in 1..n,
             Both(p, i) = Both(q, j)
      PROVE  p = q /\ i = j
  <2>1. p.options \in Words /\ q.options \in Words
    BY <1>3 DEF Configs
  <2>2. Len(o[i]) = Len(o[j])
    BY <1>1 DEF SameLength
  <2>3. p.options = q.options /\ o[i] = o[j]
    <3>1. o[i] \in Words /\ o[j] \in Words
      BY <1>1
    <3> QED
      BY <1>8, <2>1, <2>2, <3>1, ChainedWords DEF Both
  <2> QED
    BY <1>1, <1>3, <2>3 DEF KeysDiffer, Key
<1>9. ASSUME NEW i \in 1..m
      PROVE  Enumerates(s[i], X[i])
  <2> DEFINE t == s[i]
             Z == X[i]
  <2>1. DOMAIN t = 1..n /\ t = [j \in 1..n |-> t[j]]
        /\ \A j \in 1..n : t[j] = Config(f, o[j], <<ps[i]>>)
    BY <1>6
  <2>2. Z = {Config(f, o[j], <<ps[i]>>) : j \in 1..n}
    BY <1>6
  <2> HIDE DEF t, Z
  <2>3. (\A j \in 1..n : t[j] \in Z) /\ \A x \in Z : \E j \in 1..n : t[j] = x
    BY <2>1, <2>2
  <2>4. \A j, l \in 1..n : t[j] = t[l] => j = l
    <3> SUFFICES ASSUME NEW j \in 1..n, NEW l \in 1..n, t[j] = t[l]
                 PROVE  j = l
      OBVIOUS
    <3>1. ps[i] \in P
      BY <1>2
    <3>2. t[j].options = Both(ps[i], j) /\ t[l].options = Both(ps[i], l)
      BY <1>7, <2>1, <3>1
    <3>3. Both(ps[i], j) = Both(ps[i], l)
      BY <3>2
    <3> QED
      BY <1>8, <3>1, <3>3
  <2>5. Enumerates(t, Z)
    BY <1>1, <2>1, <2>3, <2>4, Listed
  <2> QED
    BY <2>5 DEF t, Z
<1>10. ASSUME NEW i \in 1..m, NEW j \in 1..m, i # j
       PROVE  X[i] \cap X[j] = {}
  <2>1. ps[i] # ps[j] /\ ps[i] \in P /\ ps[j] \in P
    BY <1>2, <1>10
  <2>2. \A x \in X[i], y \in X[j] : x.parent = Key(ps[i]) /\ y.parent = Key(ps[j])
    <3>1. X[i] = {Config(f, o[l], <<ps[i]>>) : l \in 1..n}
      BY <1>6
    <3>2. X[j] = {Config(f, o[l], <<ps[j]>>) : l \in 1..n}
      BY <1>6
    <3>3. \A l \in 1..n : /\ Config(f, o[l], <<ps[i]>>).parent = Key(ps[i])
                          /\ Config(f, o[l], <<ps[j]>>).parent = Key(ps[j])
      BY <1>7, <2>1
    <3> QED
      BY <3>1, <3>2, <3>3
  <2>3. Key(ps[i]) # Key(ps[j])
    BY <1>3, <2>1 DEF KeysDiffer
  <2> QED
    BY <2>2, <2>3
<1>11. Enumerates(FlattenSeq(s), Y)
  BY <1>2, <1>5, <1>9, <1>10, FlattenedList
<1>12. ASSUME NEW c \in Y
       PROVE  \E p \in P, j \in 1..n : c = Config(f, o[j], <<p>>)
  <2>1. PICK i \in 1..m : c \in X[i]
    OBVIOUS
  <2>2. ps[i] \in P /\ X[i] = {Config(f, o[j], <<ps[i]>>) : j \in 1..n}
    BY <1>2, <1>6
  <2> QED
    BY <2>1, <2>2
<1> HIDE DEF Y
<1>13. \A c \in Y : c \in Configs /\ c.format = f
  BY <1>7, <1>12
<1>14. KeysDiffer(Y)
  <2> SUFFICES ASSUME NEW c \in Y, NEW d \in Y, Key(c) = Key(d)
               PROVE  c = d
    BY DEF KeysDiffer
  <2>1. PICK p \in P, i \in 1..n : c = Config(f, o[i], <<p>>)
    BY <1>12
  <2>2. PICK q \in P, j \in 1..n : d = Config(f, o[j], <<q>>)
    BY <1>12
  <2>3. <<f, Both(p, i)>> = <<f, Both(q, j)>>
    BY <1>7, <2>1, <2>2
  <2>4. p = q /\ i = j
    <3>1. Both(p, i) = Both(q, j)
      BY <2>3
    <3> QED
      BY <1>8, <3>1
  <2> QED
    BY <2>1, <2>2, <2>4
<1>15. ToSet(FlattenSeq(s)) = Y
  BY <1>11 DEF Enumerates
<1>16. IsConfigList(FlattenSeq(s), f)
  BY <1>11, <1>13, <1>14, <1>15 DEF IsConfigList
<1>17. ASSUME NEW c \in Y
       PROVE  \E p \in P, i \in DOMAIN o :
                /\ c = Config(f, o[i], <<p>>) /\ c.parent = Key(p)
                /\ c.options = Chained(p.options, o[i])
  <2>1. PICK p \in P, i \in 1..n : c = Config(f, o[i], <<p>>)
    BY <1>12
  <2> QED
    BY <1>1, <1>7, <2>1 DEF Both
<1> QED
  BY <1>4, <1>15, <1>16, <1>17 DEF AreChildren, P

-----------------------------------------------------------------------------
(* The lists of each format (ModelConfigs).                                *)

\* The formats that are not a framework's own.
SerializedFormats == {"torchscript", "torch-trt", "tf-savedmodel", "onnx", "trt", "tf-trt"}

\* The two orders of formats in the code hold every format exactly once.
LEMMA Orders ==
  /\ Enumerates(SourceOrder, SourceFormats) /\ Enumerates(SerializedOrder, SerializedFormats)
  /\ Formats = SourceFormats \cup SerializedFormats
  /\ SourceFormats \cap SerializedFormats = {}
<1>1. Enumerates(SourceOrder, SourceFormats)
  <2> DEFINE t == SourceOrder
  <2>1. /\ DOMAIN t = 1..4 /\ t = [i \in 1..4 |-> t[i]]
        /\ t[1] = "python" /\ t[2] = "torch" /\ t[3] = "tensorflow" /\ t[4] = "jax"
    BY DEF SourceOrder
  <2> HIDE DEF t
  <2>2. /\ \A i \in 1..4 : t[i] \in SourceFormats
        /\ \A x \in SourceFormats : \E i \in 1..4 : t[i] = x
    BY <2>1 DEF SourceFormats
  <2>3. \A i, j \in 1..4 : t[i] = t[j] => i = j
    BY <2>1
  <2>4. Enumerates(t, SourceFormats)
    <3> DEFINE n == 4
    <3>1. n \in Nat
      OBVIOUS
    <3> HIDE DEF n
    <3>2. DOMAIN t = 1..n /\ t = [i \in 1..n |-> t[i]]
      BY <2>1 DEF n
    <3> QED
      BY <2>2, <2>3, <3>1, <3>2, Listed DEF n
  <2> QED
    BY <2>4 DEF t
<1>2. Enumerates(SerializedOrder, SerializedFormats)
  <2> DEFINE t == SerializedOrder
  <2>1. /\ DOMAIN t = 1..6 /\ t = [i \in 1..6 |-> t[i]]
        /\ t[1] = "torchscript" /\ t[2] = "torch-trt" /\ t[3] = "tf-savedmodel"
        /\ t[4] = "onnx" /\ t[5] = "trt" /\ t[6] = "tf-trt"
    BY DEF SerializedOrder
  <2> HIDE DEF t
  <2>2. /\ \A i \in 1..6 : t[i] \in SerializedFormats
        /\ \A x \in SerializedFormats : \E i \in 1..6 : t[i] = x
    BY <2>1 DEF SerializedFormats
  <2>3. \A i, j \in 1..6 : t[i] = t[j] => i = j
    BY <2>1
  <2>4. Enumerates(t, SerializedFormats)
    <3> DEFINE n == 6
    <3>1. n \in Nat
      OBVIOUS
    <3> HIDE DEF n
    <3>2. DOMAIN t = 1..n /\ t = [i \in 1..n |-> t[i]]
      BY <2>1 DEF n
    <3> QED
      BY <2>2, <2>3, <3>1, <3>2, Listed DEF n
  <2> QED
    BY <2>4 DEF t
<1>3. Formats = SourceFormats \cup SerializedFormats /\ SourceFormats \cap SerializedFormats = {}
  BY DEF Formats, SourceFormats, SerializedFormats
<1> QED
  BY <1>1, <1>2, <1>3

\* The keys of a list of configurations.
KeysOf(t) == {Key(c) : c \in ToSet(t)}

\* The tables of formats and of base formats, framework by framework.
LEMMA AvailableFormats ==
  ASSUME NEW fw \in Frameworks
  PROVE  /\ AvailableTargetFormats[fw] \subseteq Formats
         /\ SourceFormatOf[fw] \in AvailableTargetFormats[fw]
         /\ \A f \in AvailableTargetFormats[fw] :
              BaseFormat(f, fw) \subseteq AvailableTargetFormats[fw]
         /\ "torchscript" \in AvailableTargetFormats[fw] <=> fw = "torch"
         /\ "tf-savedmodel" \in AvailableTargetFormats[fw] <=> fw \in {"tensorflow", "jax"}
         /\ "onnx" \in AvailableTargetFormats[fw] <=> fw # "none"
         /\ "torch-trt" \in AvailableTargetFormats[fw] <=> fw = "torch"
         /\ "tf-trt" \in AvailableTargetFormats[fw] <=> fw \in {"tensorflow", "jax"}
         /\ "trt" \in AvailableTargetFormats[fw] <=> fw # "none"
<1>1. CASE fw = "none"
  BY <1>1 DEF AvailableTargetFormats, SourceFormatOf, BaseFormat, Formats, SourceFormats
<1>2. CASE fw = "torch"
  BY <1>2 DEF AvailableTargetFormats, SourceFormatOf, BaseFormat, Formats, SourceFormats
<1>3. CASE fw = "tensorflow"
  BY <1>3 DEF AvailableTargetFormats, SourceFormatOf, BaseFormat, Formats, SourceFormats
<1>4. CASE fw = "jax"
  BY <1>4 DEF AvailableTargetFormats, SourceFormatOf, BaseFormat, Formats, SourceFormats
<1>5. CASE fw = "onnx"
  BY <1>5 DEF AvailableTargetFormats, SourceFormatOf, BaseFormat, Formats, SourceFormats
<1> QED
  BY <1>1, <1>2, <1>3, <1>4, <1>5 DEF Frameworks

\* Base formats and the framework's own are available targets.
LEMMA FormatsAreAvailable ==
  ASSUME NEW fw \in Frameworks, NEW targets, targets \subseteq AvailableTargetFormats[fw]
  PROVE  /\ WithBaseFormats(targets, fw) \subseteq AvailableTargetFormats[fw]
         /\ OptimizeTargets(fw, targets) \subseteq AvailableTargetFormats[fw]
BY AvailableFormats DEF WithBaseFormats, OptimizeTargets

\* The one combination of no option.
LEMMA NoOption ==
  /\ AreOptions(<< <<>> >>) /\ DOMAIN << <<>> >> = {1} /\ << <<>> >>[1] = <<>>
  /\ Len(<< <<>> >>[1]) = 0
BY DEF AreOptions, IsInjective

\* TorchScript models have no parent and are those of torch.
LEMMA TorchScriptList ==
  ASSUME NEW fw \in Frameworks, NEW formats, NEW custom, IsCustom(custom)
  PROVE  LET t == TorchScriptConfigs(fw, formats, custom) IN
         /\ IsConfigList(t, "torchscript")
         /\ \A c \in ToSet(t) : c.parent = NullModel /\ Len(c.options) = 1
         /\ ToSet(t) # {} => fw = "torch"
<1>0. "torchscript" \in Formats
  BY DEF Formats
<1>1. CASE fw = "torch" /\ ("torchscript" \in formats \/ ("onnx" \in formats /\ custom.extended))
  <2>1. TorchScriptConfigs(fw, formats, custom) = Roots("torchscript", custom.jit)
    BY <1>1 DEF TorchScriptConfigs
  <2>2. AreOptions(custom.jit) /\ \A i \in DOMAIN custom.jit : Len(custom.jit[i]) = 1
    BY DEF IsCustom, AreWords
  <2>3. /\ IsConfigList(Roots("torchscript", custom.jit), "torchscript")
        /\ \A c \in ToSet(Roots("torchscript", custom.jit)) :
             c.parent = NullModel /\ \E i \in DOMAIN custom.jit : c.options = custom.jit[i]
    BY <1>0, <2>2, RootList
  <2> QED
    BY <1>1, <2>1, <2>2, <2>3
<1>2. CASE ~(fw = "torch" /\ ("torchscript" \in formats \/ ("onnx" \in formats /\ custom.extended)))
  <2>1. TorchScriptConfigs(fw, formats, custom) = <<>>
    BY <1>2 DEF TorchScriptConfigs
  <2> QED
    BY <2>1, NoConfigs
<1> QED
  BY <1>1, <1>2

\* SavedModels have no parent and are made only if asked for.
LEMMA SavedModelList ==
  ASSUME NEW formats, NEW custom, IsCustom(custom)
  PROVE  LET t == SavedModelConfigs(formats, custom) IN
         /\ IsConfigList(t, "tf-savedmodel")
         /\ \A c \in ToSet(t) : c.parent = NullModel
         /\ ToSet(t) # {} => "tf-savedmodel" \in formats
<1>0. "tf-savedmodel" \in Formats
  BY DEF Formats
<1>1. CASE "tf-savedmodel" \in formats
  <2>1. SavedModelConfigs(formats, custom) = Roots("tf-savedmodel", custom.compile)
    BY <1>1 DEF SavedModelConfigs
  <2>2. AreOptions(custom.compile)
    BY DEF IsCustom
  <2> QED
    BY <1>0, <1>1, <2>1, <2>2, RootList
<1>2. CASE "tf-savedmodel" \notin formats
  <2>1. SavedModelConfigs(formats, custom) = <<>>
    BY <1>2 DEF SavedModelConfigs
  <2> QED
    BY <2>1, NoConfigs
<1> QED
  BY <1>1, <1>2

\* The models of one parent or none: Product with the empty option.
LEMMA ChildList ==
  ASSUME NEW f \in Formats, NEW g, NEW ps, IsConfigList(ps, g)
  PROVE  LET t == Product(f, ps, << <<>> >>) IN
         /\ IsConfigList(t, f)
         /\ \A c \in ToSet(t) :
              c.parent \in KeysOf(ps) /\ \E p \in ToSet(ps) : c.options = p.options
<1> DEFINE o == << <<>> >>
<1>1. AreOptions(o) /\ SameLength(o) /\ DOMAIN o = {1} /\ o[1] = <<>>
  BY NoOption DEF SameLength
<1> HIDE DEF o
<1>2. IsConfigList(Product(f, ps, o), f) /\ AreChildren(Product(f, ps, o), f, ps, o)
  BY <1>1, ProductList
<1>3. \A p \in ToSet(ps) : Chained(p.options, <<>>) = p.options
  <2>1. \A p \in ToSet(ps) : p.options \in Words
    BY DEF IsConfigList, Configs
  <2> QED
    BY <2>1 DEF Chained, Words
<1>4. ASSUME NEW c \in ToSet(Product(f, ps, o))
      PROVE  c.parent \in KeysOf(ps) /\ \E p \in ToSet(ps) : c.options = p.options
  <2>1. PICK p \in ToSet(ps), i \in DOMAIN o :
          c = Config(f, o[i], <<p>>) /\ c.parent = Key(p) /\ c.options = Chained(p.options, o[i])
    BY <1>2 DEF AreChildren
  <2>2. o[i] = <<>>
    BY <1>1
  <2>3. c.options = p.options
    BY <1>3, <2>1, <2>2
  <2> QED
    BY <2>1, <2>3 DEF KeysOf
<1> QED
  BY <1>2, <1>4 DEF o

\* The models of TensorRT, per parent and precision.
LEMMA PrecisionList ==
  ASSUME NEW f \in Formats, NEW g, NEW ps, IsConfigList(ps, g), NEW o, AreWords(o)
  PROVE  LET t == Product(f, ps, o) IN
         IsConfigList(t, f) /\ \A c \in ToSet(t) : c.parent \in KeysOf(ps)
<1>1. AreOptions(o) /\ SameLength(o)
  BY DEF AreWords, SameLength
<1>2. IsConfigList(Product(f, ps, o), f) /\ AreChildren(Product(f, ps, o), f, ps, o)
  BY <1>1, ProductList
<1> QED
  BY <1>2 DEF KeysOf, AreChildren

\* Nothing is added by the empty list.
LEMMA EmptyJoined ==
  ASSUME NEW t, NEW X, Enumerates(t, X)
  PROVE  t \o <<>> = t /\ <<>> \o t = t
<1>1. t \in Seq(X)
  BY DEF Enumerates
<1> QED
  BY <1>1

\* Two lists of configurations without common keys, one after the other.
LEMMA ConfigListsJoined ==
  ASSUME NEW f, NEW s, IsConfigList(s, f), NEW t, IsConfigList(t, f),
         \A c \in ToSet(s), d \in ToSet(t) : Key(c) # Key(d)
  PROVE  IsConfigList(s \o t, f) /\ ToSet(s \o t) = ToSet(s) \cup ToSet(t)
<1>1. ToSet(s) \cap ToSet(t) = {}
  OBVIOUS
<1>2. Enumerates(s \o t, ToSet(s) \cup ToSet(t))
  BY <1>1, JoinedList DEF IsConfigList
<1>3. ToSet(s \o t) = ToSet(s) \cup ToSet(t)
  BY <1>2 DEF Enumerates
<1>4. KeysDiffer(ToSet(s) \cup ToSet(t))
  BY DEF IsConfigList, KeysDiffer
<1> QED
  BY <1>2, <1>3, <1>4 DEF IsConfigList

\* Options of different lengths are different.
LEMMA LengthsDiffer ==
  ASSUME NEW a, NEW b, Len(a) = 0, Len(b) = 1
  PROVE  a # b
OBVIOUS

\* ONNX models come from the source, from TorchScript and from SavedModels, and
\* no two of them have the same key.
LEMMA OnnxList ==
  ASSUME NEW fw \in Frameworks, NEW formats, formats \subseteq AvailableTargetFormats[fw],
         NEW custom, IsCustom(custom)
  PROVE  LET t  == OnnxConfigs(fw, formats, custom)
             ts == TorchScriptConfigs(fw, formats, custom)
             sm == SavedModelConfigs(formats, custom)
         IN /\ IsConfigList(t, "onnx")
            /\ ToSet(t) # {} => "onnx" \in formats
            /\ \A c \in ToSet(t) : \/ c.parent = NullModel
                                   \/ c.parent \in KeysOf(ts) /\ fw = "torch"
                                   \/ c.parent \in KeysOf(sm) /\ fw \in {"tensorflow", "jax"}
<1> DEFINE t  == OnnxConfigs(fw, formats, custom)
           ts == TorchScriptConfigs(fw, formats, custom)
           sm == SavedModelConfigs(formats, custom)
           root == Roots("onnx", << <<>> >>)
           Of(ps) == Product("onnx", ps, << <<>> >>)
<1>0. "onnx" \in Formats /\ IsConfigList(ts, "torchscript") /\ IsConfigList(sm, "tf-savedmodel")
  BY TorchScriptList, SavedModelList DEF Formats
<1>1. /\ IsConfigList(root, "onnx")
      /\ \A c \in ToSet(root) : c.parent = NullModel /\ c.options = <<>>
  BY <1>0, NoOption, RootList
<1>2. /\ IsConfigList(Of(ts), "onnx")
      /\ \A c \in ToSet(Of(ts)) :
           c.parent \in KeysOf(ts) /\ \E p \in ToSet(ts) : c.options = p.options
  BY <1>0, ChildList
<1>3. IsConfigList(Of(sm), "onnx") /\ \A c \in ToSet(Of(sm)) : c.parent \in KeysOf(sm)
  BY <1>0, ChildList
<1>4. \A c \in ToSet(root), d \in ToSet(Of(ts)) : Key(c) # Key(d)
  <2>1. \A p \in ToSet(ts) : Len(p.options) = 1
    BY TorchScriptList
  <2>2. \A c \in ToSet(root), d \in ToSet(Of(ts)) : Len(c.options) = 0 /\ Len(d.options) = 1
    BY <1>1, <1>2, <2>1
  <2>3. ASSUME NEW c \in ToSet(root), NEW d \in ToSet(Of(ts)), Key(c) = Key(d)
        PROVE  FALSE
    <3>1. c.options = d.options
      BY <2>3 DEF Key
    <3>2. Len(c.options) = 0 /\ Len(d.options) = 1
      BY <2>2
    <3> QED
      BY <3>1, <3>2, LengthsDiffer
  <2> QED
    BY <2>3
<1>5. /\ IsConfigList(root \o Of(ts), "onnx")
      /\ ToSet(root \o Of(ts)) = ToSet(root) \cup ToSet(Of(ts))
  BY <1>1, <1>2, <1>4, ConfigListsJoined
<1>6. /\ <<>> \o root = root /\ root \o <<>> = root
      /\ Of(sm) \o <<>> = Of(sm)
  BY <1>1, <1>3, EmptyJoined DEF IsConfigList
<1>7. CASE "onnx" \notin formats
  <2>1. t = <<>>
    BY <1>7 DEF OnnxConfigs
  <2> QED
    BY <2>1, NoConfigs
<1>8. CASE "onnx" \in formats /\ fw \in {"tensorflow", "jax"}
  <2>1. t = Of(sm) \o <<>> \o <<>>
    BY <1>8 DEF OnnxConfigs
  <2>2. t = Of(sm)
    BY <1>6, <2>1
  <2> QED
    BY <1>3, <1>8, <2>2
<1>9. CASE "onnx" \in formats /\ (fw = "onnx" \/ (fw = "torch" /\ ~custom.extended))
  <2>1. t = <<>> \o root \o <<>>
    BY <1>9 DEF OnnxConfigs
  <2>2. t = root
    BY <1>6, <2>1
  <2> QED
    BY <1>1, <1>9, <2>2
<1>10. CASE "onnx" \in formats /\ fw = "torch" /\ custom.extended
  <2>1. t = <<>> \o root \o Of(ts)
    BY <1>10 DEF OnnxConfigs
  <2>2. t = root \o Of(ts)
    BY <1>6, <2>1
  <2> QED
    BY <1>1, <1>2, <1>5, <1>10, <2>2
<1>11. "onnx" \in formats => fw # "none"
  BY AvailableFormats
<1> QED
  BY <1>7, <1>8, <1>9, <1>10, <1>11 DEF Frameworks

\* Lists of configurations per format, and all of them.
AreLists(lists) == \A f \in Formats : IsConfigList(lists[f], f)

ConfigsIn(lists) == UNION {ToSet(lists[f]) : f \in Formats}

\* The formats the model of a format can be made of.
ParentFormats(f) ==
  CASE f = "torch-trt" -> {"torchscript"}
    [] f = "tf-trt"    -> {"tf-savedmodel"}
    [] f = "trt"       -> {"onnx"}
    [] f = "onnx"      -> {"torchscript", "tf-savedmodel"}
    [] OTHER           -> {}

\* generate_model_config: the lists of all formats, with every parent in the list
\* of a format it can be made of.
LEMMA ModelConfigLists ==
  ASSUME NEW fw \in Frameworks, NEW targets, targets \subseteq AvailableTargetFormats[fw],
         NEW custom, IsCustom(custom)
  PROVE  LET lists == GenerateModelConfig(fw, targets, custom) IN
         /\ AreLists(lists)
         /\ \A f \in Formats : ToSet(lists[f]) # {} => f \in AvailableTargetFormats[fw]
         /\ \A f \in Formats : \A c \in ToSet(lists[f]) :
              c.parent # NullModel => \E g \in ParentFormats(f) : c.parent \in KeysOf(lists[g])
<1> DEFINE formats == WithBaseFormats(targets, fw)
           lists == GenerateModelConfig(fw, targets, custom)
           ts == TorchScriptConfigs(fw, formats, custom)
           sm == SavedModelConfigs(formats, custom)
           onnx == OnnxConfigs(fw, formats, custom)
           Adaptive(f, ps) == IF f \in formats THEN Product(f, ps, custom.precision[f]) ELSE <<>>
<1>1. formats \subseteq AvailableTargetFormats[fw]
  BY FormatsAreAvailable
<1>2. /\ lists["torchscript"] = ts /\ lists["tf-savedmodel"] = sm /\ lists["onnx"] = onnx
      /\ lists["torch-trt"] = Adaptive("torch-trt", ts)
      /\ lists["trt"] = Adaptive("trt", onnx)
      /\ lists["tf-trt"] = Adaptive("tf-trt", sm)
      /\ \A f \in SourceFormats :
           lists[f] = IF f \in formats THEN Roots(f, << <<>> >>) ELSE <<>>
  <2>1. ToSet(SourceOrder) \cup ToSet(SerializedOrder) = SourceFormats \cup SerializedFormats
    BY Orders DEF Enumerates
  <2> QED
    BY <2>1 DEF GenerateModelConfig, SourceFormats, SerializedFormats
<1> HIDE DEF lists
<1>3. /\ IsConfigList(ts, "torchscript") /\ IsConfigList(sm, "tf-savedmodel")
      /\ IsConfigList(onnx, "onnx")
  BY <1>1, TorchScriptList, SavedModelList, OnnxList
<1>4. /\ \A c \in ToSet(ts) : c.parent = NullModel
      /\ \A c \in ToSet(sm) : c.parent = NullModel
      /\ \A c \in ToSet(onnx) :
           c.parent = NullModel \/ c.parent \in KeysOf(ts) \/ c.parent \in KeysOf(sm)
  BY <1>1, TorchScriptList, SavedModelList, OnnxList
<1>5. /\ ToSet(ts) # {} => fw = "torch"
      /\ ToSet(sm) # {} => "tf-savedmodel" \in formats
      /\ ToSet(onnx) # {} => "onnx" \in formats
  BY <1>1, TorchScriptList, SavedModelList, OnnxList
<1>6. ASSUME NEW f \in TensorRTFormats, NEW g, NEW ps, IsConfigList(ps, g)
      PROVE  /\ IsConfigList(Adaptive(f, ps), f)
             /\ ToSet(Adaptive(f, ps)) # {} => f \in formats
             /\ \A c \in ToSet(Adaptive(f, ps)) : c.parent \in KeysOf(ps)
  <2>1. CASE f \in formats
    <3>1. f \in Formats /\ AreWords(custom.precision[f])
      BY DEF TensorRTFormats, Formats, IsCustom
    <3> QED
      BY <1>6, <2>1, <3>1, PrecisionList
  <2>2. CASE f \notin formats
    BY <2>2, NoConfigs
  <2> QED
    BY <2>1, <2>2
<1>7. ASSUME NEW f \in SourceFormats
      PROVE  /\ IsConfigList(lists[f], f)
             /\ ToSet(lists[f]) # {} => f \in formats
             /\ \A c \in ToSet(lists[f]) : c.parent = NullModel
  <2>1. f \in Formats
    BY DEF Formats
  <2>2. CASE f \in formats
    BY <1>2, <2>1, <2>2, NoOption, RootList
  <2>3. CASE f \notin formats
    BY <1>2, <2>3, NoConfigs
  <2> QED
    BY <2>2, <2>3
<1> HIDE DEF formats, ts, sm, onnx, Adaptive
<1>8. ASSUME NEW f \in Formats
      PROVE  /\ IsConfigList(lists[f], f)
             /\ ToSet(lists[f]) # {} => f \in AvailableTargetFormats[fw]
             /\ \A c \in ToSet(lists[f]) :
                  c.parent # NullModel => \E g \in ParentFormats(f) : c.parent \in KeysOf(lists[g])
  <2>1. CASE f \in SourceFormats
    BY <1>1, <1>7, <2>1
  <2>2. CASE f = "torchscript"
    BY <1>2, <1>3, <1>4, <1>5, <2>2, AvailableFormats
  <2>3. CASE f = "tf-savedmodel"
    BY <1>1, <1>2, <1>3, <1>4, <1>5, <2>3
  <2>4. CASE f = "onnx"
    BY <1>1, <1>2, <1>3, <1>4, <1>5, <2>4 DEF ParentFormats
  <2>5. CASE f = "torch-trt"
    BY <1>1, <1>2, <1>3, <1>6, <2>5 DEF ParentFormats, TensorRTFormats
  <2>6. CASE f = "tf-trt"
    BY <1>1, <1>2, <1>3, <1>6, <2>6 DEF ParentFormats, TensorRTFormats
  <2>7. CASE f = "trt"
    BY <1>1, <1>2, <1>3, <1>6, <2>7 DEF ParentFormats, TensorRTFormats
  <2> QED
    BY <2>1, <2>2, <2>3, <2>4, <2>5, <2>6, <2>7, Orders DEF SerializedFormats
<1> QED
  BY <1>8 DEF AreLists, lists

-----------------------------------------------------------------------------
(* Segments of a plan: units in the order of their makers' turns.        *)

\* Each of the two ways to go through the lists visits every format once.
LEMMA FormatOrders ==
  /\ Enumerates(SourceOrder \o SerializedOrder, Formats)
  /\ Enumerates(SerializedOrder \o SourceOrder, Formats)
<1>1. Enumerates(SourceOrder \o SerializedOrder, SourceFormats \cup SerializedFormats)
  BY Orders, JoinedList
<1>2. Enumerates(SerializedOrder \o SourceOrder, SerializedFormats \cup SourceFormats)
  BY Orders, JoinedList
<1>3. /\ SourceFormats \cup SerializedFormats = Formats
      /\ SerializedFormats \cup SourceFormats = Formats
  BY Orders
<1> QED
  BY <1>1, <1>2, <1>3

\* The lists of all formats, joined in any order of the formats.
LEMMA JoinedConfigs ==
  ASSUME NEW lists, AreLists(lists), NEW order, Enumerates(order, Formats)
  PROVE  Enumerates(Joined(order, lists), ConfigsIn(lists))
<1> DEFINE n == Len(order)
           s == [i \in 1..n |-> lists[order[i]]]
           X == [i \in 1..n |-> ToSet(lists[order[i]])]
<1>1. /\ n \in Nat /\ \A i \in 1..n : order[i] \in Formats
      /\ \A f \in Formats : \E i \in 1..n : order[i] = f
      /\ \A i, j \in 1..n : order[i] = order[j] => i = j
  BY ListedElements
<1>2. Joined(order, lists) = FlattenSeq(s)
  BY DEF Joined
<1>3. DOMAIN s = 1..n /\ s = [i \in 1..n |-> s[i]]
  OBVIOUS
<1>4. \A i \in 1..n : s[i] = lists[order[i]] /\ X[i] = ToSet(lists[order[i]])
  OBVIOUS
<1> HIDE DEF n, s, X
<1>5. \A i \in 1..n : Enumerates(s[i], X[i])
  BY <1>1, <1>4 DEF AreLists, IsConfigList
<1>6. ASSUME NEW i \in 1..n, NEW j \in 1..n, i # j
      PROVE  X[i] \cap X[j] = {}
  <2>1. order[i] # order[j] /\ order[i] \in Formats /\ order[j] \in Formats
    BY <1>1, <1>6
  <2>2. (\A c \in X[i] : c.format = order[i]) /\ \A c \in X[j] : c.format = order[j]
    BY <1>4, <2>1 DEF AreLists, IsConfigList
  <2> QED
    BY <2>1, <2>2
<1>7. Enumerates(FlattenSeq(s), UNION {X[i] : i \in 1..n})
  BY <1>1, <1>3, <1>5, <1>6, FlattenedList
<1>8. UNION {X[i] : i \in 1..n} = ConfigsIn(lists)
  <2>1. \A c : c \in UNION {X[i] : i \in 1..n} <=> \E i \in 1..n : c \in ToSet(lists[order[i]])
    BY <1>4
  <2>2. \A c : c \in ConfigsIn(lists) <=> \E f \in Formats : c \in ToSet(lists[f])
    BY DEF ConfigsIn
  <2>3. \A c : (\E i \in 1..n : c \in ToSet(lists[order[i]]))
               <=> \E f \in Formats : c \in ToSet(lists[f])
    BY <1>1
  <2> QED
    BY <2>1, <2>2, <2>3
<1> QED
  BY <1>2, <1>7, <1>8

\* All configurations, with different keys, in both orders the code uses.
LEMMA AllConfigsListed ==
  ASSUME NEW lists, AreLists(lists)
  PROVE  /\ Enumerates(AllConfigs(lists), ConfigsIn(lists))
         /\ Enumerates(SourceLast(lists), ConfigsIn(lists))
         /\ ConfigsIn(lists) \subseteq Configs /\ KeysDiffer(ConfigsIn(lists))
         /\ \A f \in Formats : ToSet(lists[f]) = {c \in ConfigsIn(lists) : c.format = f}
<1>1. /\ Enumerates(AllConfigs(lists), ConfigsIn(lists))
      /\ Enumerates(SourceLast(lists), ConfigsIn(lists))
  BY FormatOrders, JoinedConfigs DEF AllConfigs, SourceLast
<1>2. \A f \in Formats : \A c \in ToSet(lists[f]) : c \in Configs /\ c.format = f
  BY DEF AreLists, IsConfigList
<1>3. \A c : c \in ConfigsIn(lists) <=> \E f \in Formats : c \in ToSet(lists[f])
  BY DEF ConfigsIn
<1>4. \A f \in Formats : ToSet(lists[f]) = {c \in ConfigsIn(lists) : c.format = f}
  BY <1>2, <1>3
<1>5. KeysDiffer(ConfigsIn(lists))
  <2> SUFFICES ASSUME NEW c \in ConfigsIn(lists), NEW d \in ConfigsIn(lists), Key(c) = Key(d)
               PROVE  c = d
    BY DEF KeysDiffer
  <2>1. PICK f \in Formats : c \in ToSet(lists[f])
    BY <1>3
  <2>2. PICK g \in Formats : d \in ToSet(lists[g])
    BY <1>3
  <2>3. c.format = f /\ d.format = g
    BY <1>2, <2>1, <2>2
  <2>4. c.format = d.format
    BY DEF Key
  <2>5. KeysDiffer(ToSet(lists[f])) /\ f = g
    BY <2>3, <2>4 DEF AreLists, IsConfigList
  <2> QED
    BY <2>1, <2>2, <2>5 DEF KeysDiffer
<1> QED
  BY <1>1, <1>2, <1>3, <1>4, <1>5

\* The one order in which the commands come in the plans of every entry point.
Turn ==
  [InferInputMetadata |-> 1, LoadMetadata |-> 2, FetchInputModelData |-> 3,
   InferOutputMetadata |-> 4, FetchOutputModelData |-> 5,
   ExportTorch2TorchScript |-> 6, ExportTF2SavedModel |-> 7, ExportJAX2SavedModel |-> 8,
   ExportTorch2ONNX |-> 9, CopyONNX |-> 10, FindMaxBatchSize |-> 11,
   ConvertTorchScript2ONNX |-> 12, ConvertSavedModel2ONNX |-> 13,
   ConvertTorchScript2TorchTensorRT |-> 14, ConvertSavedModel2TFTRT |-> 15,
   ConvertONNX2TRT |-> 16, Correctness |-> 17, Performance |-> 18, Profile |-> 19,
   VerifyModel |-> 20]

\* The units U, each once, in the order of their commands, which have turns a to b.
Segment(s, U, a, b) ==
  /\ Enumerates(s, U)
  /\ \A u \in U : Turn[u.command] \in a..b
  /\ \A i, j \in DOMAIN s : Turn[s[i].command] < Turn[s[j].command] => i < j

\* Two segments whose turns follow each other.
LEMMA SegmentsJoined ==
  ASSUME NEW a \in Nat, NEW b \in Nat, NEW c \in Nat, NEW d \in Nat, a <= c, b < c, b <= d,
         NEW s, NEW U, Segment(s, U, a, b), NEW t, NEW V, Segment(t, V, c, d)
  PROVE  Segment(s \o t, U \cup V, a, d)
<1>1. Enumerates(s, U) /\ Enumerates(t, V)
  BY DEF Segment
<1>2. (\A u \in U : Turn[u.command] \in a..b) /\ \A u \in V : Turn[u.command] \in c..d
  BY DEF Segment
<1>3. U \cap V = {}
  BY <1>2
<1> DEFINE w == s \o t
           m == Len(s)
           n == Len(t)
<1>4. /\ Enumerates(w, U \cup V) /\ DOMAIN w = 1..(m + n)
      /\ \A i \in 1..m : w[i] = s[i]
      /\ \A i \in (m + 1)..(m + n) : i - m \in 1..n /\ w[i] = t[i - m]
  BY <1>1, <1>3, JoinedList
<1>5. /\ m \in Nat /\ DOMAIN s = 1..m /\ \A i \in 1..m : s[i] \in U
      /\ n \in Nat /\ DOMAIN t = 1..n /\ \A i \in 1..n : t[i] \in V
  BY <1>1, ListedElements
<1> HIDE DEF w, m, n
<1>6. ASSUME NEW i \in 1..(m + n), NEW j \in 1..(m + n), Turn[w[i].command] < Turn[w[j].command]
      PROVE  i < j
  <2>1. CASE i \in 1..m /\ j \in 1..m
    <3>1. w[i] = s[i] /\ w[j] = s[j] /\ i \in DOMAIN s /\ j \in DOMAIN s
      BY <1>4, <1>5, <2>1
    <3> QED
      BY <1>6, <3>1 DEF Segment
  <2>2. CASE i \in (m + 1)..(m + n) /\ j \in (m + 1)..(m + n)
    <3>1. w[i] = t[i - m] /\ w[j] = t[j - m] /\ i - m \in DOMAIN t /\ j - m \in DOMAIN t
      BY <1>4, <1>5, <2>2
    <3>2. i - m < j - m
      BY <1>6, <3>1 DEF Segment
    <3> QED
      BY <1>5, <3>2
  <2>3. CASE i \in 1..m /\ j \in (m + 1)..(m + n)
    BY <1>5, <2>3
  <2>4. CASE i \in (m + 1)..(m + n) /\ j \in 1..m
    <3>1. w[i] \in V /\ w[j] \in U
      BY <1>4, <1>5, <2>4
    <3>2. Turn[w[i].command] \in c..d /\ Turn[w[j].command] \in a..b
      BY <1>2, <3>1
    <3> QED
      BY <1>6, <3>2
  <2> QED
    BY <1>5, <2>1, <2>2, <2>3, <2>4
<1>7. \A u \in U \cup V : Turn[u.command] \in a..d
  BY <1>2
<1> QED
  BY <1>4, <1>6, <1>7 DEF Segment, w

\* No units are a segment of any turns.
LEMMA EmptySegment ==
  ASSUME NEW a \in Nat, NEW b \in Nat
  PROVE  Segment(<<>>, {}, a, b)
<1>1. Enumerates(<<>>, {}) /\ DOMAIN <<>> = {}
  BY NothingListed
<1> QED
  BY <1>1 DEF Segment

\* The units of one command, in any order.
LEMMA OneCommand ==
  ASSUME NEW command, NEW n \in Nat, Turn[command] = n, NEW s, NEW U, Enumerates(s, U),
         \A u \in U : u.command = command
  PROVE  Segment(s, U, n, n)
<1>1. DOMAIN s = 1..Len(s) /\ \A i \in 1..Len(s) : s[i] \in U
  BY ListedElements
<1>2. \A i \in DOMAIN s : Turn[s[i].command] = n
  BY <1>1
<1> QED
  BY <1>2 DEF Segment

\* The units of a command, per configuration and per runner.
ModelUnits(command, X) == {ModelUnit(command, c) : c \in X}

\* The runners of a configuration (ForEachRunner).
Suitable(config, settings) ==
  {r \in ToSet(RunnerRegistry) : /\ r.format = config.format
                                /\ r.name \in settings.runners
                                /\ settings.device \in r.devices}

RunnerUnits(command, X, settings) ==
  UNION {{RunnerUnit(command, c, r) : r \in Suitable(c, settings)} : c \in X}

\* ForEach: a command for every configuration.
LEMMA ModelUnitsListed ==
  ASSUME NEW command, NEW n \in Nat, Turn[command] = n,
         NEW t, NEW X, Enumerates(t, X), KeysDiffer(X)
  PROVE  Segment(ForEach(command, t), ModelUnits(command, X), n, n)
<1> DEFINE m == Len(t)
           s == ForEach(command, t)
           U == ModelUnits(command, X)
<1>1. /\ m \in Nat /\ \A i \in 1..m : t[i] \in X
      /\ \A x \in X : \E i \in 1..m : t[i] = x
      /\ \A i, j \in 1..m : t[i] = t[j] => i = j
  BY ListedElements
<1>2. /\ DOMAIN s = 1..m /\ s = [i \in 1..m |-> s[i]]
      /\ \A i \in 1..m : s[i] = ModelUnit(command, t[i])
  BY DEF ForEach
<1>3. \A u : u \in U <=> \E c \in X : u = ModelUnit(command, c)
  BY DEF ModelUnits
<1> HIDE DEF m, s, U
<1>4. (\A i \in 1..m : s[i] \in U) /\ \A u \in U : \E i \in 1..m : s[i] = u
  BY <1>1, <1>2, <1>3
<1>5. ASSUME NEW i \in 1..m, NEW j \in 1..m, s[i] = s[j]
      PROVE  i = j
  <2>1. ModelUnit(command, t[i]).model = Key(t[i]) /\ ModelUnit(command, t[j]).model = Key(t[j])
    BY DEF ModelUnit
  <2>2. Key(t[i]) = Key(t[j])
    BY <1>2, <1>5, <2>1
  <2> QED
    BY <1>1, <2>2 DEF KeysDiffer
<1>6. Enumerates(s, U)
  BY <1>1, <1>2, <1>4, <1>5, Listed
<1>7. \A u \in U : u.command = command
  BY <1>3 DEF ModelUnit
<1> QED
  BY <1>6, <1>7, OneCommand DEF s, U

\* The registry has no name twice, and TensorRT runners want a GPU.
LEMMA RegisteredRunners ==
  /\ Enumerates(RunnerRegistry, ToSet(RunnerRegistry))
  /\ \A r, q \in ToSet(RunnerRegistry) : r.name = q.name => r = q
  /\ \A r \in ToSet(RunnerRegistry) : /\ r.name # NullRunner
                                      /\ r.format \in TensorRTFormats => r.devices = {"cuda"}
<1> DEFINE t == RunnerRegistry
           n == 19
           X == ToSet(t)
<1>1. DOMAIN t = 1..n /\ t = [i \in 1..n |-> t[i]] /\ n \in Nat
  BY DEF RunnerRegistry
<1>2. \A i, j \in 1..n : t[i].name = t[j].name => i = j
  BY DEF RunnerRegistry
<1>3. \A i \in 1..n : /\ t[i].name # NullRunner
                      /\ t[i].format \in TensorRTFormats => t[i].devices = {"cuda"}
  BY DEF RunnerRegistry, NullRunner, TensorRTFormats
<1> HIDE DEF t, n
<1>4. (\A i \in 1..n : t[i] \in X) /\ \A r \in X : \E i \in 1..n : t[i] = r
  BY <1>1 DEF ToSet
<1> HIDE DEF X
<1>5. Enumerates(t, X)
  BY <1>1, <1>2, <1>4, Listed
<1> QED
  BY <1>2, <1>3, <1>4, <1>5 DEF t, X

\* ForEachRunner: a command for every configuration and suitable runner.
LEMMA RunnerUnitsListed ==
  ASSUME NEW command, NEW n \in Nat, Turn[command] = n,
         NEW t, NEW X, Enumerates(t, X), KeysDiffer(X), NEW settings
  PROVE  Segment(ForEachRunner(command, t, settings), RunnerUnits(command, X, settings), n, n)
<1> DEFINE m == Len(t)
           RunnersOf(c) == Where(RunnerRegistry, Suitable(c, settings))
           s == [i \in 1..m |-> [j \in 1..Len(RunnersOf(t[i])) |->
                   RunnerUnit(command, t[i], RunnersOf(t[i])[j])]]
           Of(c) == {RunnerUnit(command, c, r) : r \in Suitable(c, settings)}
           Y == [i \in 1..m |-> Of(t[i])]
<1>1. /\ m \in Nat /\ \A i \in 1..m : t[i] \in X
      /\ \A x \in X : \E i \in 1..m : t[i] = x
      /\ \A i, j \in 1..m : t[i] = t[j] => i = j
  BY ListedElements
<1>2. ForEachRunner(command, t, settings) = FlattenSeq(s)
  BY DEF ForEachRunner, Suitable
<1>3. DOMAIN s = 1..m /\ s = [i \in 1..m |-> s[i]]
  OBVIOUS
<1>4. \A i \in 1..m : /\ s[i] = [j \in 1..Len(RunnersOf(t[i])) |->
                                   RunnerUnit(command, t[i], RunnersOf(t[i])[j])]
                      /\ Y[i] = Of(t[i])
  OBVIOUS
<1>41. ASSUME NEW i \in 1..m
       PROVE  \A u : u \in Y[i] <=> \E r \in Suitable(t[i], settings) :
                       u = RunnerUnit(command, t[i], r)
  <2>1. Y[i] = {RunnerUnit(command, t[i], r) : r \in Suitable(t[i], settings)}
    OBVIOUS
  <2> QED
    BY <2>1, Zenon
<1> HIDE DEF m, s, Y
<1>5. ASSUME NEW c
      PROVE  Enumerates(RunnersOf(c), Suitable(c, settings))
  <2>1. Suitable(c, settings) = ToSet(RunnerRegistry) \cap Suitable(c, settings)
    BY DEF Suitable
  <2> QED
    BY <2>1, RegisteredRunners, FilteredList
<1> HIDE DEF RunnersOf
<1>6. ASSUME NEW i \in 1..m
      PROVE  Enumerates(s[i], Y[i])
  <2> DEFINE v == RunnersOf(t[i])
             l == Len(v)
             R == Suitable(t[i], settings)
             z == s[i]
             Z == Y[i]
  <2>1. /\ l \in Nat /\ \A j \in 1..l : v[j] \in R
        /\ \A r \in R : \E j \in 1..l : v[j] = r
        /\ \A j, k \in 1..l : v[j] = v[k] => j = k
    BY <1>5, ListedElements
  <2>2. /\ DOMAIN z = 1..l /\ z = [j \in 1..l |-> z[j]]
        /\ \A j \in 1..l : z[j] = RunnerUnit(command, t[i], v[j])
    BY <1>4
  <2>3. \A u : u \in Z <=> \E r \in R : u = RunnerUnit(command, t[i], r)
    BY <1>41
  <2>4. R \subseteq ToSet(RunnerRegistry)
    BY DEF Suitable
  <2> HIDE DEF v, l, R, z, Z
  <2>5. (\A j \in 1..l : z[j] \in Z) /\ \A u \in Z : \E j \in 1..l : z[j] = u
    BY <2>1, <2>2, <2>3
  <2>6. ASSUME NEW j \in 1..l, NEW k \in 1..l, z[j] = z[k]
        PROVE  j = k
    <3>1. /\ RunnerUnit(command, t[i], v[j]).runner = v[j].name
          /\ RunnerUnit(command, t[i], v[k]).runner = v[k].name
      BY DEF RunnerUnit
    <3>2. v[j].name = v[k].name /\ v[j] \in ToSet(RunnerRegistry) /\ v[k] \in ToSet(RunnerRegistry)
      BY <2>1, <2>2, <2>4, <2>6, <3>1
    <3> QED
      BY <2>1, <3>2, RegisteredRunners
  <2>7. Enumerates(z, Z)
    BY <2>1, <2>2, <2>5, <2>6, Listed
  <2> QED
    BY <2>7 DEF z, Z
<1>7. ASSUME NEW i \in 1..m, NEW j \in 1..m, i # j
      PROVE  Y[i] \cap Y[j] = {}
  <2>1. (\A u \in Y[i] : u.model = Key(t[i])) /\ \A u \in Y[j] : u.model = Key(t[j])
    <3>1. \A c, r : RunnerUnit(command, c, r).model = Key(c)
      BY DEF RunnerUnit
    <3> QED
      BY <1>41, <3>1
  <2>2. Key(t[i]) # Key(t[j])
    BY <1>1, <1>7 DEF KeysDiffer
  <2> QED
    BY <2>1, <2>2
<1>8. Enumerates(FlattenSeq(s), UNION {Y[i] : i \in 1..m})
  BY <1>1, <1>3, <1>6, <1>7, FlattenedList
<1>9. UNION {Y[i] : i \in 1..m} = RunnerUnits(command, X, settings)
  <2>1. \A u : u \in UNION {Y[i] : i \in 1..m} <=> \E i \in 1..m : u \in Of(t[i])
    BY <1>4
  <2>2. \A u : u \in RunnerUnits(command, X, settings) <=> \E c \in X : u \in Of(c)
    BY DEF RunnerUnits
  <2> HIDE DEF Of
  <2>3. \A u : (\E i \in 1..m : u \in Of(t[i])) <=> \E c \in X : u \in Of(c)
    BY <1>1
  <2> QED
    BY <2>1, <2>2, <2>3
<1>10. \A u \in RunnerUnits(command, X, settings) : u.command = command
  BY DEF RunnerUnits, RunnerUnit
<1> QED
  BY <1>2, <1>8, <1>9, <1>10, OneCommand

-----------------------------------------------------------------------------
(* The units that make models.                                             *)

\* What generate_model_config returns for the framework: AreLists, of formats
\* that are available, with the parent of every configuration.
ListsOf(lists, fw) ==
  /\ AreLists(lists)
  /\ \A f \in Formats : ToSet(lists[f]) # {} => f \in AvailableTargetFormats[fw]
  /\ \A f \in Formats : \A c \in ToSet(lists[f]) :
       c.parent # NullModel => \E g \in ParentFormats(f) : c.parent \in KeysOf(lists[g])

\* The lists of a request.
LEMMA RequestedLists ==
  ASSUME NEW r \in Requests
  PROVE  r.framework \in Frameworks /\ ListsOf(Lists(r), r.framework)
<1>1. /\ r.framework \in Frameworks /\ r.custom \in Customs
      /\ r.targets \subseteq AvailableTargetFormats[r.framework]
  BY DEF Requests
<1>2. IsCustom(r.custom)
  BY <1>1, CustomAssumption
<1>3. OptimizeTargets(r.framework, r.targets) \subseteq AvailableTargetFormats[r.framework]
  BY <1>1, FormatsAreAvailable
<1> DEFINE targets == IF r.flow = "optimize" THEN OptimizeTargets(r.framework, r.targets)
                                             ELSE r.targets
<1>4. targets \subseteq AvailableTargetFormats[r.framework]
  BY <1>1, <1>3
<1>5. Lists(r) = GenerateModelConfig(r.framework, targets, r.custom)
  BY DEF Lists
<1> HIDE DEF targets
<1> QED
  BY <1>1, <1>2, <1>4, <1>5, ModelConfigLists DEF ListsOf

\* The command that makes the model of a configuration.
MakerCommand(c, fw) ==
  CASE c.format = "torchscript"                              -> "ExportTorch2TorchScript"
    [] c.format = "tf-savedmodel" /\ fw = "tensorflow"       -> "ExportTF2SavedModel"
    [] c.format = "tf-savedmodel" /\ fw = "jax"              -> "ExportJAX2SavedModel"
    [] c.format = "onnx" /\ fw = "onnx"                      -> "CopyONNX"
    [] c.format = "onnx" /\ fw \in {"tensorflow", "jax"}     -> "ConvertSavedModel2ONNX"
    [] c.format = "onnx" /\ fw = "torch" /\ c.parent = NullModel -> "ExportTorch2ONNX"
    [] c.format = "onnx" /\ fw = "torch" /\ c.parent # NullModel -> "ConvertTorchScript2ONNX"
    [] c.format = "torch-trt"                                -> "ConvertTorchScript2TorchTensorRT"
    [] c.format = "tf-trt"                                   -> "ConvertSavedModel2TFTRT"
    [] c.format = "trt"                                      -> "ConvertONNX2TRT"
    [] OTHER                                                 -> "none"

\* The configurations of cs the commands make, and the units that make them.
MadeConfigs(cs, fw, makers) == {c \in cs : MakerCommand(c, fw) \in makers}

MadeBy(cs, fw, makers) == {ModelUnit(MakerCommand(c, fw), c) : c \in MadeConfigs(cs, fw, makers)}

\* What two sets of commands make together.
LEMMA MadeByBoth ==
  ASSUME NEW cs, NEW fw, NEW A, NEW B
  PROVE  MadeBy(cs, fw, A) \cup MadeBy(cs, fw, B) = MadeBy(cs, fw, A \cup B)
BY DEF MadeBy, MadeConfigs

\* What one command makes.
LEMMA MadeByOne ==
  ASSUME NEW cs, NEW fw, NEW command
  PROVE  MadeBy(cs, fw, {command}) = ModelUnits(command, MadeConfigs(cs, fw, {command}))
<1>1. \A c \in MadeConfigs(cs, fw, {command}) : MakerCommand(c, fw) = command
  BY DEF MadeConfigs
<1> QED
  BY <1>1 DEF MadeBy, ModelUnits

\* Sets of commands that make the same configurations.
LEMMA MadeByThese ==
  ASSUME NEW cs, NEW fw, NEW A, NEW B,
         \A c \in cs : MakerCommand(c, fw) \in A <=> MakerCommand(c, fw) \in B
  PROVE  MadeBy(cs, fw, A) = MadeBy(cs, fw, B)
<1>1. MadeConfigs(cs, fw, A) = MadeConfigs(cs, fw, B)
  BY DEF MadeConfigs
<1> QED
  BY <1>1 DEF MadeBy

\* A command over an enumeration of the configurations it makes.
LEMMA CommandMakes ==
  ASSUME NEW lists, AreLists(lists), NEW fw, NEW command, NEW n \in Nat, Turn[command] = n,
         NEW t, Enumerates(t, MadeConfigs(ConfigsIn(lists), fw, {command}))
  PROVE  Segment(ForEach(command, t), MadeBy(ConfigsIn(lists), fw, {command}), n, n)
<1> DEFINE X == MadeConfigs(ConfigsIn(lists), fw, {command})
<1>1. KeysDiffer(X)
  BY AllConfigsListed DEF KeysDiffer, MadeConfigs
<1>2. Segment(ForEach(command, t), ModelUnits(command, X), n, n)
  BY <1>1, ModelUnitsListed
<1> QED
  BY <1>2, MadeByOne

\* A command over the list of the only format it makes, and of no other command.
LEMMA FormatMakes ==
  ASSUME NEW lists, AreLists(lists), NEW fw, NEW command, NEW n \in Nat, Turn[command] = n,
         NEW f \in Formats,
         \A c \in ConfigsIn(lists) : MakerCommand(c, fw) = command <=> c.format = f
  PROVE  Segment(ForEach(command, lists[f]), MadeBy(ConfigsIn(lists), fw, {command}), n, n)
<1>1. ToSet(lists[f]) = {c \in ConfigsIn(lists) : c.format = f}
  BY AllConfigsListed
<1>2. ToSet(lists[f]) = MadeConfigs(ConfigsIn(lists), fw, {command})
  BY <1>1 DEF MadeConfigs
<1>3. Enumerates(lists[f], ToSet(lists[f]))
  BY DEF AreLists, IsConfigList
<1> QED
  BY <1>2, <1>3, CommandMakes

\* The same for a part of the list of a format.
LEMMA FormatKept ==
  ASSUME NEW lists, AreLists(lists), NEW fw, NEW command, NEW n \in Nat, Turn[command] = n,
         NEW f \in Formats, NEW kept,
         \A c \in ConfigsIn(lists) :
           MakerCommand(c, fw) = command <=> c.format = f /\ c \in kept
  PROVE  Segment(ForEach(command, Where(lists[f], kept)),
                 MadeBy(ConfigsIn(lists), fw, {command}), n, n)
<1>1. ToSet(lists[f]) = {c \in ConfigsIn(lists) : c.format = f}
  BY AllConfigsListed
<1>2. ToSet(lists[f]) \cap kept = MadeConfigs(ConfigsIn(lists), fw, {command})
  BY <1>1 DEF MadeConfigs
<1>3. Enumerates(lists[f], ToSet(lists[f]))
  BY DEF AreLists, IsConfigList
<1>4. Enumerates(Where(lists[f], kept), MadeConfigs(ConfigsIn(lists), fw, {command}))
  BY <1>2, <1>3, FilteredList
<1> QED
  BY <1>4, CommandMakes

\* The formats of a framework's configurations, and where the ONNX models come from.
LEMMA ConfigsOfFramework ==
  ASSUME NEW fw \in Frameworks, NEW lists, ListsOf(lists, fw)
  PROVE  \A c \in ConfigsIn(lists) :
           /\ c \in Configs /\ c.format \in AvailableTargetFormats[fw]
           /\ c.format = "onnx" =>
                /\ fw = "torch" /\ c.parent # NullModel => c.parent[1] = "torchscript"
                /\ fw \in {"torch", "tensorflow", "jax", "onnx"}
<1>1. \A c \in ConfigsIn(lists) : \E f \in Formats : c \in ToSet(lists[f])
  BY DEF ConfigsIn
<1>2. \A f \in Formats : \A c \in ToSet(lists[f]) : c \in Configs /\ c.format = f
  BY DEF ListsOf, AreLists, IsConfigList
<1>3. \A f \in Formats : \A c \in ToSet(lists[f]) : f \in AvailableTargetFormats[fw]
  BY DEF ListsOf
<1>4. ASSUME NEW c \in ToSet(lists["onnx"]), fw = "torch", c.parent # NullModel
      PROVE  c.parent[1] = "torchscript"
  <2>1. "onnx" \in Formats /\ "torchscript" \in Formats /\ "tf-savedmodel" \in Formats
    BY DEF Formats
  <2>2. PICK g \in ParentFormats("onnx") : c.parent \in KeysOf(lists[g])
    BY <1>4, <2>1 DEF ListsOf
  <2>3. g \in {"torchscript", "tf-savedmodel"}
    BY <2>2 DEF ParentFormats
  <2>4. PICK d \in ToSet(lists[g]) : c.parent = Key(d)
    BY <2>2 DEF KeysOf
  <2>5. g \in AvailableTargetFormats[fw] /\ d.format = g
    BY <1>2, <1>3, <2>1, <2>3, <2>4
  <2>6. g = "torchscript"
    BY <1>4, <2>3, <2>5, AvailableFormats
  <2> QED
    BY <2>4, <2>5, <2>6 DEF Key
<1>5. "onnx" \in AvailableTargetFormats[fw] => fw \in {"torch", "tensorflow", "jax", "onnx"}
  BY AvailableFormats DEF Frameworks
<1> QED
  BY <1>1, <1>2, <1>3, <1>4, <1>5

\* The command of a configuration tells its format, and the other way round.
IsMadeByItsCommand(c, fw) ==
  LET command == MakerCommand(c, fw) IN
  /\ command = "ExportTorch2TorchScript" <=> c.format = "torchscript"
  /\ command = "ConvertTorchScript2TorchTensorRT" <=> c.format = "torch-trt"
  /\ command = "ConvertSavedModel2TFTRT" <=> c.format = "tf-trt"
  /\ command = "ConvertONNX2TRT" <=> c.format = "trt"
  /\ command = "ExportTF2SavedModel" <=> (c.format = "tf-savedmodel" /\ fw = "tensorflow")
  /\ command = "ExportJAX2SavedModel" <=> (c.format = "tf-savedmodel" /\ fw = "jax")
  /\ command = "CopyONNX" <=> (c.format = "onnx" /\ fw = "onnx")
  /\ command = "ConvertSavedModel2ONNX" <=> (c.format = "onnx" /\ fw \in {"tensorflow", "jax"})
  /\ command = "ExportTorch2ONNX" <=>
       (c.format = "onnx" /\ fw = "torch" /\ c.parent = NullModel)
  /\ command = "ConvertTorchScript2ONNX" <=>
       (c.format = "onnx" /\ fw = "torch" /\ c.parent # NullModel)
  /\ c.format \in AvailableTargetFormats[fw]
  /\ c.format \in SourceFormats <=> command = "none"
  /\ command \in Makers \cup {"none"}

\* In every framework the builders can tell commands from formats.
LEMMA CommandsOfFramework ==
  ASSUME NEW fw \in Frameworks, NEW lists, ListsOf(lists, fw)
  PROVE  \A c \in ConfigsIn(lists) : IsMadeByItsCommand(c, fw)
<1> SUFFICES ASSUME NEW c \in ConfigsIn(lists)
             PROVE  IsMadeByItsCommand(c, fw)
  OBVIOUS
<1>1. c.format \in AvailableTargetFormats[fw] /\ c.format \in Formats
  BY ConfigsOfFramework, AvailableFormats
<1>2. /\ c.format = "tf-savedmodel" => fw \in {"tensorflow", "jax"}
      /\ c.format = "onnx" => fw \in {"torch", "tensorflow", "jax", "onnx"}
  BY <1>1, ConfigsOfFramework, AvailableFormats
<1>3. CASE c.format \in SourceFormats
  BY <1>1, <1>3 DEF IsMadeByItsCommand, MakerCommand, SourceFormats
<1>4. CASE c.format = "torchscript"
  BY <1>1, <1>4 DEF IsMadeByItsCommand, MakerCommand, SourceFormats, Makers, Exporters
<1>5. CASE c.format = "torch-trt"
  BY <1>1, <1>5 DEF IsMadeByItsCommand, MakerCommand, SourceFormats, Makers, Converters
<1>6. CASE c.format = "tf-trt"
  BY <1>1, <1>6 DEF IsMadeByItsCommand, MakerCommand, SourceFormats, Makers, Converters
<1>7. CASE c.format = "trt"
  BY <1>1, <1>7 DEF IsMadeByItsCommand, MakerCommand, SourceFormats, Makers, Converters
<1>8. CASE c.format = "tf-savedmodel"
  BY <1>1, <1>2, <1>8 DEF IsMadeByItsCommand, MakerCommand, SourceFormats, Makers, Exporters
<1>9. CASE c.format = "onnx"
  <2>1. CASE fw = "torch" /\ c.parent = NullModel
    BY <1>1, <1>9, <2>1 DEF IsMadeByItsCommand, MakerCommand, SourceFormats, Makers, Exporters
  <2>2. CASE fw = "torch" /\ c.parent # NullModel
    BY <1>1, <1>9, <2>2 DEF IsMadeByItsCommand, MakerCommand, SourceFormats, Makers, Converters
  <2>3. CASE fw = "onnx"
    BY <1>1, <1>9, <2>3 DEF IsMadeByItsCommand, MakerCommand, SourceFormats, Makers, Exporters
  <2>4. CASE fw \in {"tensorflow", "jax"}
    BY <1>1, <1>9, <2>4 DEF IsMadeByItsCommand, MakerCommand, SourceFormats, Makers, Converters
  <2> QED
    BY <1>2, <1>9, <2>1, <2>2, <2>3, <2>4
<1> QED
  BY <1>1, <1>3, <1>4, <1>5, <1>6, <1>7, <1>8, <1>9, Orders DEF SerializedFormats

\* The export builder of every framework makes what it should, in order.
LEMMA ExportUnits ==
  ASSUME NEW fw \in Frameworks, NEW lists, ListsOf(lists, fw),
         NEW settings, settings.framework = fw
  PROVE  Segment(Export(lists, settings), MadeBy(ConfigsIn(lists), fw, Exporters), 6, 10)
<1> DEFINE cs == ConfigsIn(lists)
           Made(makers) == MadeBy(cs, fw, makers)
<1>1. AreLists(lists)
  BY DEF ListsOf
<1>2. CASE fw = "torch"
  <2> DEFINE kept == {c \in ToSet(lists["onnx"]) : c.parent = <<>>}
             s == ForEach("ExportTorch2TorchScript", lists["torchscript"])
             t == ForEach("ExportTorch2ONNX", Where(lists["onnx"], kept))
  <2>1. Segment(s, Made({"ExportTorch2TorchScript"}), 6, 6)
    <3>1. "torchscript" \in Formats /\ Turn["ExportTorch2TorchScript"] = 6
      BY DEF Formats, Turn
    <3>2. \A c \in cs : MakerCommand(c, fw) = "ExportTorch2TorchScript" <=> c.format = "torchscript"
      BY CommandsOfFramework DEF IsMadeByItsCommand
    <3> HIDE DEF kept
    <3> QED
      BY <1>1, <3>1, <3>2, FormatMakes
  <2>2. Segment(t, Made({"ExportTorch2ONNX"}), 9, 9)
    <3>1. "onnx" \in Formats /\ Turn["ExportTorch2ONNX"] = 9
      BY DEF Formats, Turn
    <3>2. \A c \in cs : c.format = "onnx" => (c \in kept <=> c.parent = NullModel)
      <4>1. ToSet(lists["onnx"]) = {c \in cs : c.format = "onnx"}
        BY <1>1, <3>1, AllConfigsListed
      <4> QED
        BY <4>1 DEF NullModel
    <3>3. \A c \in cs : MakerCommand(c, fw) = "ExportTorch2ONNX" <=> c.format = "onnx" /\ c \in kept
      BY <1>2, <3>2, CommandsOfFramework DEF IsMadeByItsCommand
    <3> HIDE DEF kept
    <3> QED
      BY <1>1, <3>1, <3>3, FormatKept
  <2>3. Export(lists, settings) = s \o t
    BY <1>2 DEF Export, TorchExport
  <2> HIDE DEF s, t
  <2>4. Segment(s \o t, Made({"ExportTorch2TorchScript"}) \cup Made({"ExportTorch2ONNX"}), 6, 9)
    BY <2>1, <2>2, SegmentsJoined
  <2>5. Made({"ExportTorch2TorchScript"}) \cup Made({"ExportTorch2ONNX"})
          = Made({"ExportTorch2TorchScript"} \cup {"ExportTorch2ONNX"})
    BY MadeByBoth
  <2>6. Made({"ExportTorch2TorchScript"} \cup {"ExportTorch2ONNX"}) = Made(Exporters)
    <3>1. \A c \in cs :
            MakerCommand(c, fw) \in {"ExportTorch2TorchScript"} \cup {"ExportTorch2ONNX"}
                          <=> MakerCommand(c, fw) \in Exporters
      BY <1>2, CommandsOfFramework DEF IsMadeByItsCommand, Exporters
    <3> QED
      BY <3>1, MadeByThese
  <2>7. Segment(s \o t, Made(Exporters), 6, 9)
    BY <2>4, <2>5, <2>6
  <2> QED
    BY <2>3, <2>7 DEF Segment
<1>3. CASE fw = "tensorflow"
  <2>1. Turn["ExportTF2SavedModel"] = 7 /\ "tf-savedmodel" \in Formats
    BY DEF Turn, Formats
  <2>2. Segment(ForEach("ExportTF2SavedModel", lists["tf-savedmodel"]),
                Made({"ExportTF2SavedModel"}), 7, 7)
    BY <1>1, <1>3, <2>1, FormatMakes, CommandsOfFramework DEF IsMadeByItsCommand
  <2>3. Made({"ExportTF2SavedModel"}) = Made(Exporters)
    <3>1. \A c \in cs : MakerCommand(c, fw) \in {"ExportTF2SavedModel"}
                          <=> MakerCommand(c, fw) \in Exporters
      BY <1>3, CommandsOfFramework, AvailableFormats DEF IsMadeByItsCommand, Exporters
    <3> QED
      BY <3>1, MadeByThese
  <2>4. Export(lists, settings) = ForEach("ExportTF2SavedModel", lists["tf-savedmodel"])
    BY <1>3 DEF Export, TensorFlowExport
  <2> QED
    BY <2>2, <2>3, <2>4 DEF Segment
<1>4. CASE fw = "jax"
  <2>1. Turn["ExportJAX2SavedModel"] = 8 /\ "tf-savedmodel" \in Formats
    BY DEF Turn, Formats
  <2>2. Segment(ForEach("ExportJAX2SavedModel", lists["tf-savedmodel"]),
                Made({"ExportJAX2SavedModel"}), 8, 8)
    BY <1>1, <1>4, <2>1, FormatMakes, CommandsOfFramework DEF IsMadeByItsCommand
  <2>3. Made({"ExportJAX2SavedModel"}) = Made(Exporters)
    <3>1. \A c \in cs : MakerCommand(c, fw) \in {"ExportJAX2SavedModel"}
                          <=> MakerCommand(c, fw) \in Exporters
      BY <1>4, CommandsOfFramework, AvailableFormats DEF IsMadeByItsCommand, Exporters
    <3> QED
      BY <3>1, MadeByThese
  <2>4. Export(lists, settings) = ForEach("ExportJAX2SavedModel", lists["tf-savedmodel"])
    BY <1>4 DEF Export, JaxExport
  <2> QED
    BY <2>2, <2>3, <2>4 DEF Segment
<1>5. CASE fw = "onnx"
  <2>1. Turn["CopyONNX"] = 10 /\ "onnx" \in Formats
    BY DEF Turn, Formats
  <2>2. Segment(ForEach("CopyONNX", lists["onnx"]), Made({"CopyONNX"}), 10, 10)
    BY <1>1, <1>5, <2>1, FormatMakes, CommandsOfFramework DEF IsMadeByItsCommand
  <2>3. Made({"CopyONNX"}) = Made(Exporters)
    <3>1. \A c \in cs : MakerCommand(c, fw) \in {"CopyONNX"} <=> MakerCommand(c, fw) \in Exporters
      BY <1>5, CommandsOfFramework, AvailableFormats DEF IsMadeByItsCommand, Exporters
    <3> QED
      BY <3>1, MadeByThese
  <2>4. Export(lists, settings) = ForEach("CopyONNX", lists["onnx"])
    BY <1>5 DEF Export, OnnxExport
  <2> QED
    BY <2>2, <2>3, <2>4 DEF Segment
<1>6. CASE fw = "none"
  <2>1. \A c \in cs : MakerCommand(c, fw) \notin Exporters
    BY <1>6, CommandsOfFramework, AvailableFormats
       DEF IsMadeByItsCommand, Exporters, AvailableTargetFormats
  <2>2. Made(Exporters) = {}
    BY <2>1 DEF MadeBy, MadeConfigs
  <2>3. Export(lists, settings) = <<>>
    BY <1>6 DEF Export
  <2> QED
    BY <2>2, <2>3, EmptySegment
<1> QED
  BY <1>2, <1>3, <1>4, <1>5, <1>6 DEF Frameworks

\* The conversions a device allows.
Converting(settings) ==
  IF settings.device = "cuda" THEN Converters
  ELSE {"ConvertTorchScript2ONNX", "ConvertSavedModel2ONNX"}

\* No command makes nothing.
LEMMA NothingMade == ASSUME NEW cs, NEW fw PROVE MadeBy(cs, fw, {}) = {}
BY DEF MadeBy, MadeConfigs

\* What is left out without a GPU.
LEMMA OnlyOnCuda ==
  ASSUME NEW settings, NEW s, NEW cs, NEW fw, NEW makers, NEW a \in Nat, NEW b \in Nat,
         Segment(s, MadeBy(cs, fw, makers), a, b)
  PROVE  Segment(OnCuda(settings, s),
                 MadeBy(cs, fw, IF settings.device = "cuda" THEN makers ELSE {}), a, b)
<1>1. CASE settings.device = "cuda"
  BY <1>1 DEF OnCuda
<1>2. CASE settings.device # "cuda"
  BY <1>2, EmptySegment, NothingMade DEF OnCuda
<1> QED
  BY <1>1, <1>2

\* The conversions of ONNX models to TensorRT.
LEMMA TensorRTUnits ==
  ASSUME NEW fw \in Frameworks, NEW lists, ListsOf(lists, fw), NEW settings
  PROVE  Segment(OnCuda(settings, ForEach("ConvertONNX2TRT", lists["trt"])),
                 MadeBy(ConfigsIn(lists), fw,
                        IF settings.device = "cuda" THEN {"ConvertONNX2TRT"} ELSE {}), 16, 16)
<1>1. AreLists(lists) /\ "trt" \in Formats /\ Turn["ConvertONNX2TRT"] = 16
  BY DEF ListsOf, Formats, Turn
<1>2. \A c \in ConfigsIn(lists) : MakerCommand(c, fw) = "ConvertONNX2TRT" <=> c.format = "trt"
  BY CommandsOfFramework DEF IsMadeByItsCommand
<1>3. Segment(ForEach("ConvertONNX2TRT", lists["trt"]),
              MadeBy(ConfigsIn(lists), fw, {"ConvertONNX2TRT"}), 16, 16)
  BY <1>1, <1>2, FormatMakes
<1> QED
  BY <1>3, OnlyOnCuda

\* The TensorRT based models of a framework and those of ONNX.
LEMMA CudaUnits ==
  ASSUME NEW fw \in Frameworks, NEW lists, ListsOf(lists, fw), NEW settings,
         NEW command, NEW f \in Formats, NEW n \in Nat, Turn[command] = n, n < 16,
         \A c \in ConfigsIn(lists) : MakerCommand(c, fw) = command <=> c.format = f
  PROVE  Segment(OnCuda(settings, ForEach(command, lists[f])
                                  \o ForEach("ConvertONNX2TRT", lists["trt"])),
                 MadeBy(ConfigsIn(lists), fw,
                        IF settings.device = "cuda"
                        THEN {command} \cup {"ConvertONNX2TRT"} ELSE {}), n, 16)
<1> DEFINE s == ForEach(command, lists[f])
           t == ForEach("ConvertONNX2TRT", lists["trt"])
           Made(makers) == MadeBy(ConfigsIn(lists), fw, makers)
<1>1. AreLists(lists) /\ "trt" \in Formats /\ Turn["ConvertONNX2TRT"] = 16
  BY DEF ListsOf, Formats, Turn
<1>2. \A c \in ConfigsIn(lists) : MakerCommand(c, fw) = "ConvertONNX2TRT" <=> c.format = "trt"
  BY CommandsOfFramework DEF IsMadeByItsCommand
<1>3. Segment(s, Made({command}), n, n) /\ Segment(t, Made({"ConvertONNX2TRT"}), 16, 16)
  BY <1>1, <1>2, FormatMakes
<1> DEFINE U == Made({command})
           V == Made({"ConvertONNX2TRT"})
<1>4. U \cup V = Made({command} \cup {"ConvertONNX2TRT"})
  BY MadeByBoth
<1>5. Segment(s, U, n, n) /\ Segment(t, V, 16, 16)
  BY <1>3
<1> HIDE DEF s, t, U, V
<1>8. Segment(s \o t, U \cup V, n, 16)
  <2> DEFINE m == 16
  <2>1. m \in Nat /\ n < m /\ n <= m /\ m <= m /\ Segment(t, V, m, m) /\ n <= n
    BY <1>5
  <2> HIDE DEF m
  <2>2. Segment(s \o t, U \cup V, n, m)
    BY <1>5, <2>1, SegmentsJoined
  <2> QED
    BY <2>2 DEF m
<1>7. Segment(s \o t, Made({command} \cup {"ConvertONNX2TRT"}), n, 16)
  BY <1>4, <1>8
<1>6. Segment(OnCuda(settings, s \o t),
              Made(IF settings.device = "cuda" THEN {command} \cup {"ConvertONNX2TRT"} ELSE {}),
              n, 16)
  BY <1>7, OnlyOnCuda
<1> QED
  BY <1>6 DEF s, t

\* The conversion builder of every framework makes what it should, in order.
LEMMA ConversionUnits ==
  ASSUME NEW fw \in Frameworks, NEW lists, ListsOf(lists, fw),
         NEW settings, settings.framework = fw
  PROVE  Segment(Conversion(lists, settings),
                 MadeBy(ConfigsIn(lists), fw, Converting(settings)), 12, 16)
<1> DEFINE cs == ConfigsIn(lists)
           Made(makers) == MadeBy(cs, fw, makers)
           OnDevice(makers) == IF settings.device = "cuda" THEN makers ELSE {}
<1>1. AreLists(lists)
  BY DEF ListsOf
<1>2. \A c \in cs : IsMadeByItsCommand(c, fw)
  BY CommandsOfFramework
<1>3. CASE fw = "torch"
  <2> DEFINE kept == {c \in ToSet(lists["onnx"]) : c.parent # <<>> /\ c.parent[1] = "torchscript"}
             s == ForEach("ConvertTorchScript2ONNX", Where(lists["onnx"], kept))
             t == OnCuda(settings, ForEach("ConvertTorchScript2TorchTensorRT", lists["torch-trt"])
                                   \o ForEach("ConvertONNX2TRT", lists["trt"]))
             A == {"ConvertTorchScript2ONNX"}
             B == OnDevice({"ConvertTorchScript2TorchTensorRT"} \cup {"ConvertONNX2TRT"})
  <2>1. Segment(s, Made(A), 12, 12)
    <3>1. "onnx" \in Formats /\ Turn["ConvertTorchScript2ONNX"] = 12
      BY DEF Formats, Turn
    <3>2. \A c \in cs : c.format = "onnx" => (c \in kept <=> c.parent # NullModel)
      <4>1. ToSet(lists["onnx"]) = {c \in cs : c.format = "onnx"}
        BY <1>1, <3>1, AllConfigsListed
      <4>2. \A c \in cs : c.format = "onnx" /\ c.parent # NullModel => c.parent[1] = "torchscript"
        BY <1>3, ConfigsOfFramework
      <4> QED
        BY <4>1, <4>2 DEF NullModel
    <3>3. \A c \in cs : MakerCommand(c, fw) = "ConvertTorchScript2ONNX"
                          <=> c.format = "onnx" /\ c \in kept
      BY <1>2, <1>3, <3>2 DEF IsMadeByItsCommand
    <3> HIDE DEF kept
    <3> QED
      BY <1>1, <3>1, <3>3, FormatKept
  <2>2. Segment(t, Made(B), 14, 16)
    <3> DEFINE command == "ConvertTorchScript2TorchTensorRT"
               f == "torch-trt"
               n == 14
    <3>1. f \in Formats /\ Turn[command] = n /\ n \in Nat /\ n < 16
      BY DEF Formats, Turn
    <3>2. \A c \in cs : MakerCommand(c, fw) = command <=> c.format = f
      BY <1>2 DEF IsMadeByItsCommand
    <3> HIDE DEF kept, s, A, command, f, n
    <3>3. Segment(OnCuda(settings, ForEach(command, lists[f])
                                   \o ForEach("ConvertONNX2TRT", lists["trt"])),
                  Made(OnDevice({command} \cup {"ConvertONNX2TRT"})), n, 16)
      BY <3>1, <3>2, CudaUnits
    <3> QED
      BY <3>3 DEF command, f, n
  <2>3. Conversion(lists, settings) = s \o t
    BY <1>3 DEF Conversion, TorchConversion
  <2> HIDE DEF s, t
  <2>4. Segment(s \o t, Made(A) \cup Made(B), 12, 16)
    <3> HIDE DEF A, B
    <3> QED
      BY <2>1, <2>2, SegmentsJoined
  <2>5. Made(A) \cup Made(B) = Made(A \cup B)
    BY MadeByBoth
  <2>6. Made(A \cup B) = Made(Converting(settings))
    <3>1. \A c \in cs : MakerCommand(c, fw) \in A \cup B
                          <=> MakerCommand(c, fw) \in Converting(settings)
      <4>1. \A c \in cs :
              MakerCommand(c, fw) \notin {"ConvertSavedModel2ONNX", "ConvertSavedModel2TFTRT"}
        BY <1>2, <1>3, AvailableFormats DEF IsMadeByItsCommand
      <4> QED
        BY <4>1 DEF Converting, Converters
    <3> HIDE DEF A, B
    <3> QED
      BY <3>1, MadeByThese
  <2> HIDE DEF A, B
  <2> QED
    BY <2>3, <2>4, <2>5, <2>6
<1>4. CASE fw \in {"tensorflow", "jax"}
  <2> DEFINE s == ForEach("ConvertSavedModel2ONNX", lists["onnx"])
             t == OnCuda(settings, ForEach("ConvertSavedModel2TFTRT", lists["tf-trt"])
                                   \o ForEach("ConvertONNX2TRT", lists["trt"]))
             A == {"ConvertSavedModel2ONNX"}
             B == OnDevice({"ConvertSavedModel2TFTRT"} \cup {"ConvertONNX2TRT"})
  <2>1. Segment(s, Made(A), 13, 13)
    <3>1. "onnx" \in Formats /\ Turn["ConvertSavedModel2ONNX"] = 13
      BY DEF Formats, Turn
    <3>2. \A c \in cs : MakerCommand(c, fw) = "ConvertSavedModel2ONNX" <=> c.format = "onnx"
      BY <1>2, <1>4 DEF IsMadeByItsCommand
    <3> QED
      BY <1>1, <3>1, <3>2, FormatMakes
  <2>2. Segment(t, Made(B), 15, 16)
    <3>1. "tf-trt" \in Formats /\ Turn["ConvertSavedModel2TFTRT"] = 15
      BY DEF Formats, Turn
    <3>2. \A c \in cs : MakerCommand(c, fw) = "ConvertSavedModel2TFTRT" <=> c.format = "tf-trt"
      BY <1>2 DEF IsMadeByItsCommand
    <3> DEFINE n == 15
    <3>3. n \in Nat /\ n < 16 /\ Turn["ConvertSavedModel2TFTRT"] = n
      BY <3>1
    <3> HIDE DEF n
    <3>4. Segment(t, Made(B), n, 16)
      BY <3>1, <3>2, <3>3, CudaUnits
    <3> QED
      BY <3>4 DEF n
  <2>3. Conversion(lists, settings) = s \o t
    BY <1>4 DEF Conversion, TensorFlowConversion
  <2> HIDE DEF s, t
  <2>4. Segment(s \o t, Made(A) \cup Made(B), 12, 16)
    <3>1. Segment(s \o t, Made(A) \cup Made(B), 13, 16)
      <4> HIDE DEF A, B
      <4> QED
        BY <2>1, <2>2, SegmentsJoined
    <3> QED
      BY <3>1 DEF Segment
  <2>5. Made(A) \cup Made(B) = Made(A \cup B)
    BY MadeByBoth
  <2>6. Made(A \cup B) = Made(Converting(settings))
    <3>1. \A c \in cs : MakerCommand(c, fw) \in A \cup B
                          <=> MakerCommand(c, fw) \in Converting(settings)
      <4>1. \A c \in cs : MakerCommand(c, fw) \notin
                            {"ConvertTorchScript2ONNX", "ConvertTorchScript2TorchTensorRT"}
        BY <1>2, <1>4, AvailableFormats DEF IsMadeByItsCommand
      <4> QED
        BY <4>1 DEF Converting, Converters
    <3> HIDE DEF A, B
    <3> QED
      BY <3>1, MadeByThese
  <2> HIDE DEF A, B
  <2> QED
    BY <2>3, <2>4, <2>5, <2>6
<1>5. CASE fw = "onnx"
  <2> DEFINE B == OnDevice({"ConvertONNX2TRT"})
  <2>1. Conversion(lists, settings) = OnCuda(settings, ForEach("ConvertONNX2TRT", lists["trt"]))
    BY <1>5 DEF Conversion, OnnxConversion
  <2>2. Segment(Conversion(lists, settings), Made(B), 16, 16)
    BY <2>1, TensorRTUnits
  <2>3. Made(B) = Made(Converting(settings))
    <3>1. \A c \in cs : MakerCommand(c, fw) \in B <=> MakerCommand(c, fw) \in Converting(settings)
      <4>1. \A c \in cs : MakerCommand(c, fw) \notin
                            {"ConvertTorchScript2ONNX", "ConvertTorchScript2TorchTensorRT",
                             "ConvertSavedModel2ONNX", "ConvertSavedModel2TFTRT"}
        BY <1>2, <1>5, AvailableFormats DEF IsMadeByItsCommand
      <4> QED
        BY <4>1 DEF Converting, Converters
    <3> HIDE DEF B
    <3> QED
      BY <3>1, MadeByThese
  <2> QED
    BY <2>2, <2>3 DEF Segment
<1>6. CASE fw = "none"
  <2>1. Made(Converting(settings)) = {}
    <3>1. \A c \in cs : MakerCommand(c, fw) \notin Converting(settings)
      BY <1>2, <1>6, AvailableFormats DEF IsMadeByItsCommand, Converting, Converters
    <3> QED
      BY <3>1 DEF MadeBy, MadeConfigs
  <2>2. Conversion(lists, settings) = <<>>
    BY <1>6 DEF Conversion
  <2> QED
    BY <2>1, <2>2, EmptySegment
<1> QED
  BY <1>3, <1>4, <1>5, <1>6 DEF Frameworks

-----------------------------------------------------------------------------
(* The plan of a request.                                                  *)

SourceCommands ==
  {"InferInputMetadata", "FetchInputModelData", "InferOutputMetadata", "FetchOutputModelData"}

\* The commands that describe the inputs and outputs in a run of each kind.
Preparing(flow) == IF flow = "optimize" THEN SourceCommands ELSE {"LoadMetadata"}

PreparationUnits(flow) == {GlobalUnit(c, {}) : c \in Preparing(flow)}

\* The unit that searches for the device's batch size, if the run has one.
SearchUnit == GlobalUnit("FindMaxBatchSize", {"configurations"})

SearchUnits(lists, settings) == ToSet(FindDeviceMaxBatchSize(lists, settings))

\* The commands that make models in a run.
MakersIn(r) ==
  CASE r.flow = "optimize"         -> Exporters \cup Converting(Settings(r))
    [] r.flow = "package_optimize" -> Converting(Settings(r))
    [] OTHER                       -> {}

EvaluationUnits(X, settings) ==
  RunnerUnits("Correctness", X, settings) \cup RunnerUnits("Performance", X, settings)
  \cup RunnerUnits("VerifyModel", X, settings)

\* The units of the plan of a request.
UnitsOf(r) ==
  LET lists    == Lists(r)
      settings == Settings(r)
      X        == ConfigsIn(lists)
  IN PreparationUnits(r.flow)
     \cup (IF r.flow = "package_profile" THEN {} ELSE SearchUnits(lists, settings))
     \cup MadeBy(X, r.framework, MakersIn(r))
     \cup (IF r.flow = "package_profile" THEN RunnerUnits("Profile", X, settings)
                                         ELSE EvaluationUnits(X, settings))

\* A segment of some turns is one of more turns.
LEMMA SegmentWidened ==
  ASSUME NEW s, NEW U, NEW a \in Nat, NEW b \in Nat, NEW c \in Nat, NEW d \in Nat,
         Segment(s, U, c, d), a <= c, d <= b
  PROVE  Segment(s, U, a, b)
<1>1. \A n \in c..d : n \in a..b
  OBVIOUS
<1> QED
  BY <1>1 DEF Segment

\* A command without a model.
LEMMA GlobalSegment ==
  ASSUME NEW command, NEW kwargs, NEW n \in Nat, Turn[command] = n
  PROVE  Segment(<<GlobalUnit(command, kwargs)>>, {GlobalUnit(command, kwargs)}, n, n)
<1> DEFINE u == GlobalUnit(command, kwargs)
<1>1. Enumerates(<<u>>, {u}) /\ u.command = command
  BY OneListed DEF GlobalUnit
<1> HIDE DEF u
<1>2. \A v \in {u} : v.command = command
  BY <1>1
<1>3. Segment(<<u>>, {u}, n, n)
  BY <1>1, <1>2, OneCommand
<1> QED
  BY <1>3 DEF u

\* The units of the preprocessing builder, for runs from the source and on packages.
LEMMA PreparationSegment ==
  /\ Segment(Preprocessing(TRUE), PreparationUnits("optimize"), 1, 5)
  /\ \A flow : flow # "optimize" => Segment(Preprocessing(FALSE), PreparationUnits(flow), 1, 5)
<1>1. Segment(Preprocessing(TRUE), PreparationUnits("optimize"), 1, 5)
  <2> DEFINE t == Preprocessing(TRUE)
             U == PreparationUnits("optimize")
             n == 4
  <2>1. /\ DOMAIN t = 1..n /\ t = [i \in 1..n |-> t[i]] /\ n \in Nat
        /\ t[1] = GlobalUnit("InferInputMetadata", {})
        /\ t[2] = GlobalUnit("FetchInputModelData", {})
        /\ t[3] = GlobalUnit("InferOutputMetadata", {})
        /\ t[4] = GlobalUnit("FetchOutputModelData", {})
    BY DEF Preprocessing
  <2>2. \A u : u \in U <=> \/ u = GlobalUnit("InferInputMetadata", {})
                           \/ u = GlobalUnit("FetchInputModelData", {})
                           \/ u = GlobalUnit("InferOutputMetadata", {})
                           \/ u = GlobalUnit("FetchOutputModelData", {})
    BY DEF PreparationUnits, Preparing, SourceCommands
  <2>3. \A c : GlobalUnit(c, {}).command = c
    BY DEF GlobalUnit
  <2> HIDE DEF t, U
  <2>4. /\ t[1].command = "InferInputMetadata" /\ t[2].command = "FetchInputModelData"
        /\ t[3].command = "InferOutputMetadata" /\ t[4].command = "FetchOutputModelData"
    BY <2>1, <2>3
  <2>5. (\A i \in 1..n : t[i] \in U) /\ \A u \in U : \E i \in 1..n : t[i] = u
    BY <2>1, <2>2
  <2>6. \A i, j \in 1..n : t[i] = t[j] => i = j
    BY <2>4
  <2>7. /\ Turn[t[1].command] = 1 /\ Turn[t[2].command] = 3
        /\ Turn[t[3].command] = 4 /\ Turn[t[4].command] = 5
    BY <2>4 DEF Turn
  <2>8. /\ \A i, j \in 1..n : Turn[t[i].command] < Turn[t[j].command] => i < j
        /\ \A i \in 1..n : Turn[t[i].command] \in 1..5
    BY <2>7
  <2>9. \A u \in U : Turn[u.command] \in 1..5
    BY <2>5, <2>8
  <2> HIDE DEF n
  <2>10. Enumerates(t, U)
    BY <2>1, <2>5, <2>6, Listed
  <2>11. Segment(t, U, 1, 5)
    BY <2>1, <2>8, <2>9, <2>10 DEF Segment
  <2> QED
    BY <2>11 DEF t, U
<1>2. ASSUME NEW flow, flow # "optimize"
      PROVE  Segment(Preprocessing(FALSE), PreparationUnits(flow), 1, 5)
  <2>1. PreparationUnits(flow) = {GlobalUnit("LoadMetadata", {})}
    BY <1>2 DEF PreparationUnits, Preparing
  <2>2. Preprocessing(FALSE) = << GlobalUnit("LoadMetadata", {}) >>
    BY DEF Preprocessing
  <2>3. Segment(<<GlobalUnit("LoadMetadata", {})>>, {GlobalUnit("LoadMetadata", {})}, 2, 2)
    <3> DEFINE n == 2
    <3>1. n \in Nat /\ Turn["LoadMetadata"] = n
      BY DEF Turn
    <3> HIDE DEF n
    <3>2. Segment(<<GlobalUnit("LoadMetadata", {})>>, {GlobalUnit("LoadMetadata", {})}, n, n)
      BY <3>1, GlobalSegment
    <3> QED
      BY <3>2 DEF n
  <2> QED
    <3> DEFINE t == <<GlobalUnit("LoadMetadata", {})>>
               U == {GlobalUnit("LoadMetadata", {})}
    <3>1. Segment(t, U, 2, 2)
      BY <2>3
    <3> HIDE DEF t, U
    <3>2. Segment(t, U, 1, 5)
      BY <3>1, SegmentWidened
    <3> QED
      BY <2>1, <2>2, <3>2 DEF t, U
<1> QED
  BY <1>1, <1>2

\* The unit that searches for the batch size, if there is one.
LEMMA SearchSegment ==
  ASSUME NEW lists, NEW settings
  PROVE  /\ Segment(FindDeviceMaxBatchSize(lists, settings), SearchUnits(lists, settings), 11, 11)
         /\ SearchUnits(lists, settings) \subseteq {SearchUnit}
<1> DEFINE s == FindDeviceMaxBatchSize(lists, settings)
<1>1. s = <<>> \/ s = <<SearchUnit>>
  BY DEF FindDeviceMaxBatchSize, SearchUnit
<1> HIDE DEF s
<1> DEFINE n == 11
<1>2. n \in Nat /\ Turn["FindMaxBatchSize"] = n
  BY DEF Turn
<1> HIDE DEF n
<1>3. CASE s = <<>>
  <2>1. ToSet(s) = {} /\ Segment(<<>>, {}, n, n)
    BY <1>2, <1>3, EmptySegment DEF ToSet
  <2> QED
    BY <1>3, <2>1 DEF SearchUnits, s, n
<1>4. CASE s = <<SearchUnit>>
  <2>1. Segment(s, {SearchUnit}, n, n)
    BY <1>2, <1>4, GlobalSegment DEF SearchUnit
  <2>2. ToSet(s) = {SearchUnit}
    BY <2>1 DEF Segment, Enumerates
  <2> QED
    BY <2>1, <2>2 DEF SearchUnits, s, n
<1> QED
  BY <1>1, <1>3, <1>4

\* The units that evaluate models: per model and runner, verification last.
LEMMA EvaluationSegment ==
  ASSUME NEW lists, AreLists(lists), NEW settings
  PROVE  /\ Segment(Evaluation(lists, settings),
                    EvaluationUnits(ConfigsIn(lists), settings), 17, 20)
         /\ Segment(ForEachRunner("Profile", SourceLast(lists), settings),
                    RunnerUnits("Profile", ConfigsIn(lists), settings), 17, 20)
<1> DEFINE X == ConfigsIn(lists)
           s == ForEachRunner("Correctness", AllConfigs(lists), settings)
           t == ForEachRunner("Performance", SourceLast(lists), settings)
           v == ForEachRunner("VerifyModel", AllConfigs(lists), settings)
           w == ForEachRunner("Profile", SourceLast(lists), settings)
           S == RunnerUnits("Correctness", X, settings)
           T == RunnerUnits("Performance", X, settings)
           V == RunnerUnits("VerifyModel", X, settings)
           W == RunnerUnits("Profile", X, settings)
<1>1. /\ Enumerates(AllConfigs(lists), X) /\ Enumerates(SourceLast(lists), X)
      /\ KeysDiffer(X)
  BY AllConfigsListed
<1>2. /\ Turn["Correctness"] = 17 /\ Turn["Performance"] = 18 /\ Turn["VerifyModel"] = 20
      /\ Turn["Profile"] = 19
  BY DEF Turn
<1>3. Segment(s, S, 17, 17)
  BY <1>1, <1>2, RunnerUnitsListed
<1>4. Segment(t, T, 18, 18)
  BY <1>1, <1>2, RunnerUnitsListed
<1>5. Segment(v, V, 20, 20)
  BY <1>1, <1>2, RunnerUnitsListed
<1>6. Segment(w, W, 19, 19)
  BY <1>1, <1>2, RunnerUnitsListed
<1>7. Evaluation(lists, settings) = s \o t \o v
  BY DEF Evaluation
<1>8. EvaluationUnits(X, settings) = S \cup T \cup V
  BY DEF EvaluationUnits
<1> HIDE DEF s, t, v, S, T, V
<1>9. Segment(s \o t, S \cup T, 17, 18)
  BY <1>3, <1>4, SegmentsJoined
<1> DEFINE st == s \o t
           ST == S \cup T
<1>10. Segment(st, ST, 17, 18)
  BY <1>9
<1> HIDE DEF st, ST
<1>11. Segment(st \o v, ST \cup V, 17, 20)
  BY <1>5, <1>10, SegmentsJoined
<1>12. Segment(Evaluation(lists, settings), EvaluationUnits(X, settings), 17, 20)
  BY <1>7, <1>8, <1>11 DEF st, ST
<1> QED
  BY <1>6, <1>12 DEF Segment

\* Only the empty list enumerates nothing.
LEMMA NothingEnumerated ==
  ASSUME NEW t, Enumerates(t, {})
  PROVE  t = <<>>
<1>1. t \in Seq({})
  BY DEF Enumerates
<1> QED
  BY <1>1

\* Every plan enumerates its units, in the one order of the commands.
THEOREM PlansAreOrdered ==
  ASSUME NEW r \in Requests
  PROVE  Segment(PlanOf(r), UnitsOf(r), 1, 20)
<1> DEFINE lists == Lists(r)
           settings == Settings(r)
           fw == r.framework
           X == ConfigsIn(lists)
           P == PreparationUnits(r.flow)
           F == SearchUnits(lists, settings)
           E == MadeBy(X, fw, Exporters)
           C == MadeBy(X, fw, Converting(settings))
           p == Preprocessing(TRUE)
           q == Preprocessing(FALSE)
           f == FindDeviceMaxBatchSize(lists, settings)
           e == Export(lists, settings)
           c == Conversion(lists, settings)
           V == EvaluationUnits(X, settings)
           v == Evaluation(lists, settings)
           W == RunnerUnits("Profile", X, settings)
           w == ForEachRunner("Profile", SourceLast(lists), settings)
<1>1. /\ fw \in Frameworks /\ ListsOf(lists, fw) /\ AreLists(lists)
      /\ settings.framework = fw
  BY RequestedLists DEF ListsOf, Settings
<1>2. r.flow \in {"optimize", "package_optimize", "package_profile"}
  BY FlowAssumption DEF Requests
<1>3. Segment(f, F, 11, 11) /\ F \subseteq {SearchUnit}
  BY SearchSegment
<1>4. Segment(e, E, 6, 10) /\ Segment(c, C, 12, 16)
  BY <1>1, ExportUnits, ConversionUnits
<1>5. Segment(v, V, 17, 20) /\ Segment(w, W, 17, 20)
  BY <1>1, EvaluationSegment
<1>6. CASE r.flow = "optimize"
  <2>1. Segment(p, P, 1, 5)
    BY <1>6, PreparationSegment
  <2>2. PlanOf(r) = p \o (IF fw = "none" THEN <<>> ELSE e \o f \o c) \o v
    BY <1>1, <1>6 DEF PlanOf, OptimizePlan
  <2>3. UnitsOf(r) = P \cup F \cup (E \cup C) \cup V
    <3>1. MakersIn(r) = Exporters \cup Converting(settings)
      BY <1>6 DEF MakersIn
    <3>2. MadeBy(X, fw, MakersIn(r)) = E \cup C
      BY <3>1, MadeByBoth
    <3> QED
      BY <1>6, <3>2 DEF UnitsOf
  <2>4. CASE fw = "none"
    <3>1. E = {} /\ C = {} /\ F = {}
      <4>1. \A d \in X : IsMadeByItsCommand(d, fw)
        BY <1>1, CommandsOfFramework
      <4>2. \A d \in X : MakerCommand(d, fw) \notin Exporters \cup Converters
        BY <1>1, <2>4, <4>1, AvailableFormats
           DEF IsMadeByItsCommand, Exporters, Converters
      <4>3. E = {} /\ C = {}
        BY <4>2 DEF MadeBy, MadeConfigs, Converting, Converters
      <4>4. \A g \in {"torch-trt", "trt", "tf-trt"} : lists[g] = <<>>
        <5>1. \A g \in {"torch-trt", "trt", "tf-trt"} :
                g \in Formats /\ g \notin AvailableTargetFormats[fw]
          BY <2>4, AvailableFormats DEF Frameworks, Formats
        <5>2. \A g \in {"torch-trt", "trt", "tf-trt"} : ToSet(lists[g]) = {}
          BY <1>1, <5>1 DEF ListsOf
        <5>3. \A g \in {"torch-trt", "trt", "tf-trt"} : Enumerates(lists[g], {})
          BY <1>1, <5>1, <5>2 DEF AreLists, IsConfigList
        <5> QED
          BY <5>3, NothingEnumerated
      <4>5. lists["torch-trt"] \o lists["trt"] \o lists["tf-trt"] = <<>>
        <5>1. lists["torch-trt"] = <<>> /\ lists["trt"] = <<>> /\ lists["tf-trt"] = <<>>
          BY <4>4
        <5>2. <<>> \o <<>> \o <<>> = <<>>
          OBVIOUS
        <5> QED
          BY <5>1, <5>2
      <4>6. f = <<>>
        BY <4>5 DEF FindDeviceMaxBatchSize
      <4> QED
        BY <4>3, <4>6 DEF SearchUnits, ToSet
    <3> HIDE DEF p, v, P, V, E, C, F
    <3>2. PlanOf(r) = p \o v
      <4>1. p \o <<>> = p
        BY <2>1, EmptyJoined DEF Segment
      <4> QED
        BY <2>2, <2>4, <4>1
    <3>3. Segment(p \o v, P \cup V, 1, 20)
      BY <1>5, <2>1, SegmentsJoined
    <3>4. UnitsOf(r) = P \cup V
      BY <2>3, <3>1
    <3> QED
      BY <3>2, <3>3, <3>4
  <2>5. CASE fw # "none"
    <3> HIDE DEF p, v, P, V, E, C, F, e, f, c
    <3> DEFINE ef == e \o f
               EF == E \cup F
               efc == ef \o c
               EFC == EF \cup C
               pe == p \o efc
               PE == P \cup EFC
    <3>1. Segment(ef, EF, 6, 11)
      BY <1>3, <1>4, SegmentsJoined
    <3>2. PlanOf(r) = pe \o v /\ UnitsOf(r) = PE \cup V
      BY <2>2, <2>3, <2>5
    <3> HIDE DEF ef, EF
    <3>3. Segment(efc, EFC, 6, 16)
      BY <1>4, <3>1, SegmentsJoined
    <3> HIDE DEF efc, EFC
    <3>4. Segment(pe, PE, 1, 16)
      BY <2>1, <3>3, SegmentsJoined
    <3> HIDE DEF pe, PE
    <3>5. Segment(pe \o v, PE \cup V, 1, 20)
      BY <1>5, <3>4, SegmentsJoined
    <3> QED
      BY <3>2, <3>5
  <2> QED
    BY <2>4, <2>5
<1>7. CASE r.flow = "package_optimize"
  <2>1. Segment(q, P, 1, 5)
    BY <1>7, PreparationSegment
  <2>2. PlanOf(r) = q \o f \o c \o v
    BY <1>7 DEF PlanOf, PackageOptimizePlan
  <2>3. UnitsOf(r) = P \cup F \cup C \cup V
    BY <1>7 DEF UnitsOf, MakersIn
  <2> HIDE DEF q, v, P, V, C, F, f, c
  <2> DEFINE qf == q \o f
             PF == P \cup F
             qc == qf \o c
             PC == PF \cup C
  <2>4. Segment(qf, PF, 1, 11)
    BY <1>3, <2>1, SegmentsJoined
  <2>5. PlanOf(r) = qc \o v /\ UnitsOf(r) = PC \cup V
    BY <2>2, <2>3
  <2> HIDE DEF qf, PF
  <2>6. Segment(qc, PC, 1, 16)
    BY <1>4, <2>4, SegmentsJoined
  <2> HIDE DEF qc, PC
  <2>7. Segment(qc \o v, PC \cup V, 1, 20)
    BY <1>5, <2>6, SegmentsJoined
  <2> QED
    BY <2>5, <2>7
<1>8. CASE r.flow = "package_profile"
  <2>1. Segment(q, P, 1, 5)
    BY <1>8, PreparationSegment
  <2>2. PlanOf(r) = q \o w
    BY <1>8 DEF PlanOf, PackageProfilePlan
  <2>3. UnitsOf(r) = P \cup W
    <3>1. MadeBy(X, fw, MakersIn(r)) = {}
      BY <1>8, NothingMade DEF MakersIn
    <3> QED
      BY <1>8, <3>1 DEF UnitsOf
  <2> HIDE DEF q, w, P, W
  <2>4. Segment(q \o w, P \cup W, 1, 20)
    BY <1>5, <2>1, SegmentsJoined
  <2> QED
    BY <2>2, <2>3, <2>4
<1> QED
  BY <1>2, <1>6, <1>7, <1>8

-----------------------------------------------------------------------------
(* Units and places of a plan.                                             *)

\* The keyword arguments of a command.
KwargsOf(command) == IF command = "FindMaxBatchSize" THEN {"configurations"} ELSE {}

\* The commands that evaluate models in a run of each kind.
Evaluating(flow) ==
  IF flow = "package_profile" THEN {"Profile"} ELSE {"Correctness", "Performance", "VerifyModel"}

\* The configurations of a request.
ConfigsOf(r) == ConfigsIn(Lists(r))

\* The four kinds of units.
IsPreparationUnit(u, r) ==
  u.command \in Preparing(r.flow) /\ u.model = NullModel /\ u.runner = NullRunner

IsSearchUnit(u) ==
  u.command = "FindMaxBatchSize" /\ u.model = NullModel /\ u.runner = NullRunner

Makes(u, c, r) ==
  /\ u.command = MakerCommand(c, r.framework) /\ u.command \in MakersIn(r)
  /\ u.model = Key(c) /\ u.runner = NullRunner

Evaluates(u, c, q, r) ==
  /\ u.command \in Evaluating(r.flow)
  /\ u.model = Key(c) /\ u.runner = q.name /\ q \in Suitable(c, Settings(r))

IsMakerUnit(u, r) == \E c \in ConfigsOf(r) : Makes(u, c, r)

IsEvaluationUnit(u, r) == \E c \in ConfigsOf(r), q \in ToSet(RunnerRegistry) : Evaluates(u, c, q, r)

\* Every unit of a plan prepares, searches, makes a model or evaluates one.
LEMMA UnitKinds ==
  ASSUME NEW r \in Requests, NEW u \in UnitsOf(r)
  PROVE  /\ u = [command |-> u.command, model |-> u.model, runner |-> u.runner,
                 kwargs |-> KwargsOf(u.command)]
         /\ \/ IsPreparationUnit(u, r) \/ IsSearchUnit(u)
            \/ IsMakerUnit(u, r) \/ IsEvaluationUnit(u, r)
<1> DEFINE X == ConfigsIn(Lists(r))
           settings == Settings(r)
           fw == r.framework
<1>1. \/ u \in PreparationUnits(r.flow)
      \/ u \in SearchUnits(Lists(r), settings)
      \/ u \in MadeBy(X, fw, MakersIn(r))
      \/ \E e \in Evaluating(r.flow) : u \in RunnerUnits(e, X, settings)
  BY DEF UnitsOf, EvaluationUnits, Evaluating
<1>2. CASE u \in PreparationUnits(r.flow)
  <2>1. PICK c \in Preparing(r.flow) : u = GlobalUnit(c, {})
    BY <1>2 DEF PreparationUnits
  <2>2. c # "FindMaxBatchSize"
    BY DEF Preparing, SourceCommands
  <2> QED
    BY <2>1, <2>2 DEF GlobalUnit, KwargsOf, IsPreparationUnit
<1>3. CASE u \in SearchUnits(Lists(r), settings)
  <2>1. u = SearchUnit
    BY <1>3, SearchSegment
  <2> QED
    BY <2>1 DEF SearchUnit, GlobalUnit, KwargsOf, IsSearchUnit
<1>4. CASE u \in MadeBy(X, fw, MakersIn(r))
  <2>1. PICK c \in MadeConfigs(X, fw, MakersIn(r)) : u = ModelUnit(MakerCommand(c, fw), c)
    BY <1>4 DEF MadeBy
  <2>2. c \in ConfigsOf(r) /\ MakerCommand(c, fw) \in MakersIn(r)
    BY <2>1 DEF MadeConfigs, ConfigsOf
  <2>3. MakerCommand(c, fw) # "FindMaxBatchSize"
    BY <2>2 DEF MakersIn, Converting, Exporters, Converters
  <2>4. Makes(u, c, r)
    BY <2>1, <2>2 DEF Makes, ModelUnit
  <2>5. u.command # "FindMaxBatchSize"
    BY <2>3, <2>4 DEF Makes
  <2>6. u = [command |-> u.command, model |-> u.model, runner |-> u.runner, kwargs |-> {}]
    BY <2>1 DEF ModelUnit
  <2> QED
    BY <2>2, <2>4, <2>5, <2>6 DEF IsMakerUnit, KwargsOf
<1>5. CASE \E e \in Evaluating(r.flow) : u \in RunnerUnits(e, X, settings)
  <2>0. PICK e \in Evaluating(r.flow) : u \in RunnerUnits(e, X, settings)
    BY <1>5
  <2>7. PICK c \in X : u \in {RunnerUnit(e, c, q) : q \in Suitable(c, settings)}
    BY <2>0 DEF RunnerUnits
  <2>1. PICK q \in Suitable(c, settings) : u = RunnerUnit(e, c, q)
    BY <2>7
  <2>2. e # "FindMaxBatchSize"
    BY DEF Evaluating
  <2>3. u.command = e /\ u.model = Key(c) /\ u.runner = q.name
    BY <2>1 DEF RunnerUnit
  <2>4. u = [command |-> u.command, model |-> u.model, runner |-> u.runner, kwargs |-> {}]
    BY <2>1 DEF RunnerUnit
  <2>5. q \in ToSet(RunnerRegistry)
    BY DEF Suitable
  <2>6. Evaluates(u, c, q, r) /\ c \in ConfigsOf(r)
    BY <2>3 DEF Evaluates, ConfigsOf
  <2> QED
    BY <2>2, <2>3, <2>4, <2>5, <2>6 DEF IsEvaluationUnit, KwargsOf
<1> QED
  BY <1>1, <1>2, <1>3, <1>4, <1>5

\* The units every plan must have.
LEMMA PlannedUnits ==
  ASSUME NEW r \in Requests
  PROVE  /\ \A c \in Preparing(r.flow) : GlobalUnit(c, {}) \in UnitsOf(r)
         /\ \A c \in ConfigsOf(r) : MakerCommand(c, r.framework) \in MakersIn(r) =>
              ModelUnit(MakerCommand(c, r.framework), c) \in UnitsOf(r)
         /\ \A e \in Evaluating(r.flow), c \in ConfigsOf(r) :
              \A q \in Suitable(c, Settings(r)) : RunnerUnit(e, c, q) \in UnitsOf(r)
<1> DEFINE X == ConfigsIn(Lists(r))
           settings == Settings(r)
           fw == r.framework
<1>1. \A c \in Preparing(r.flow) : GlobalUnit(c, {}) \in PreparationUnits(r.flow)
  BY DEF PreparationUnits
<1>2. ASSUME NEW c \in X, MakerCommand(c, fw) \in MakersIn(r)
      PROVE  ModelUnit(MakerCommand(c, fw), c) \in MadeBy(X, fw, MakersIn(r))
  BY <1>2 DEF MadeBy, MadeConfigs
<1>3. ASSUME NEW e, NEW c \in X, NEW q \in Suitable(c, settings)
      PROVE  RunnerUnit(e, c, q) \in RunnerUnits(e, X, settings)
  BY DEF RunnerUnits
<1>4. /\ PreparationUnits(r.flow) \subseteq UnitsOf(r)
      /\ MadeBy(X, fw, MakersIn(r)) \subseteq UnitsOf(r)
  BY DEF UnitsOf
<1>5. \A e \in Evaluating(r.flow) : RunnerUnits(e, X, settings) \subseteq UnitsOf(r)
  BY DEF UnitsOf, EvaluationUnits, Evaluating
<1> QED
  BY <1>1, <1>2, <1>3, <1>4, <1>5 DEF ConfigsOf

\* The configurations of a request.
LEMMA RequestedConfigs ==
  ASSUME NEW r \in Requests
  PROVE  /\ r.framework \in Frameworks /\ ListsOf(Lists(r), r.framework)
         /\ Enumerates(AllConfigs(Lists(r)), ConfigsOf(r))
         /\ ConfigsOf(r) \subseteq Configs /\ KeysDiffer(ConfigsOf(r))
         /\ \A c \in ConfigsOf(r) : IsMadeByItsCommand(c, r.framework)
<1>1. r.framework \in Frameworks /\ ListsOf(Lists(r), r.framework)
  BY RequestedLists
<1>2. AreLists(Lists(r))
  BY <1>1 DEF ListsOf
<1> QED
  BY <1>1, <1>2, AllConfigsListed, CommandsOfFramework DEF ConfigsOf

\* Where the units of a plan are.
LEMMA PlanPositions ==
  ASSUME NEW r \in Requests
  PROVE  /\ Len(PlanOf(r)) \in Nat /\ DOMAIN PlanOf(r) = 1..Len(PlanOf(r))
         /\ \A i \in DOMAIN PlanOf(r) : PlanOf(r)[i] \in UnitsOf(r)
         /\ \A u \in UnitsOf(r) : \E i \in DOMAIN PlanOf(r) : PlanOf(r)[i] = u
         /\ \A i, j \in DOMAIN PlanOf(r) : PlanOf(r)[i] = PlanOf(r)[j] => i = j
         /\ \A i, j \in DOMAIN PlanOf(r) :
              Turn[PlanOf(r)[i].command] < Turn[PlanOf(r)[j].command] => i < j
<1>1. Segment(PlanOf(r), UnitsOf(r), 1, 20)
  BY PlansAreOrdered
<1>2. Enumerates(PlanOf(r), UnitsOf(r))
  BY <1>1 DEF Segment
<1>3. \A i, j \in DOMAIN PlanOf(r) :
        Turn[PlanOf(r)[i].command] < Turn[PlanOf(r)[j].command] => i < j
  BY <1>1 DEF Segment
<1> QED
  BY <1>2, <1>3, ListedElements

\* Every command is of one of the kinds, and the kinds come one after the other.
LEMMA TurnsOfKinds ==
  /\ \A c \in Required : Turn[c] \in 1..5
  /\ \A c \in Exporters : Turn[c] \in 6..10
  /\ Turn["FindMaxBatchSize"] = 11
  /\ \A c \in Converters : Turn[c] \in 12..16
  /\ \A c \in Evaluators : Turn[c] \in 17..19
  /\ Turn["VerifyModel"] = 20
  /\ \A flow : Preparing(flow) \subseteq Required
  /\ \A flow : Evaluating(flow) \subseteq Evaluators \cup {"VerifyModel"}
<1>1. \A c \in Required : Turn[c] \in 1..5
  BY DEF Required, Turn
<1>2. \A c \in Exporters : Turn[c] \in 6..10
  BY DEF Exporters, Turn
<1>3. \A c \in Converters : Turn[c] \in 12..16
  BY DEF Converters, Turn
<1>4. \A c \in Evaluators : Turn[c] \in 17..19
  BY DEF Evaluators, Turn
<1>5. Turn["FindMaxBatchSize"] = 11 /\ Turn["VerifyModel"] = 20
  BY DEF Turn
<1>6. /\ \A flow : Preparing(flow) \subseteq Required
      /\ \A flow : Evaluating(flow) \subseteq Evaluators \cup {"VerifyModel"}
  BY DEF Preparing, SourceCommands, Required, Evaluating, Evaluators
<1> QED
  BY <1>1, <1>2, <1>3, <1>4, <1>5, <1>6

\* The commands of a unit tell its kind.
LEMMA KindsOfCommands ==
  ASSUME NEW r \in Requests, NEW u \in UnitsOf(r)
  PROVE  /\ u.command \in Makers => IsMakerUnit(u, r)
         /\ u.command \in Evaluators \cup {"VerifyModel"} => IsEvaluationUnit(u, r)
         /\ IsMakerUnit(u, r) => u.command \in Makers
         /\ IsEvaluationUnit(u, r) => u.command \in Evaluators \cup {"VerifyModel"}
         /\ IsPreparationUnit(u, r) => u.command \in Required
<1>1. \/ IsPreparationUnit(u, r) \/ IsSearchUnit(u)
      \/ IsMakerUnit(u, r) \/ IsEvaluationUnit(u, r)
  BY UnitKinds
<1>2. IsPreparationUnit(u, r) => u.command \in Required
  BY TurnsOfKinds DEF IsPreparationUnit
<1>3. IsMakerUnit(u, r) => u.command \in Makers
  BY DEF IsMakerUnit, Makes, MakersIn, Converting, Makers, Converters
<1>4. IsEvaluationUnit(u, r) => u.command \in Evaluators \cup {"VerifyModel"}
  BY TurnsOfKinds DEF IsEvaluationUnit, Evaluates
<1>5. IsSearchUnit(u) => u.command = "FindMaxBatchSize"
  BY DEF IsSearchUnit
<1>6. \A c \in Makers : Turn[c] \in 6..16 /\ Turn[c] # 11
  BY TurnsOfKinds DEF Makers
<1>7. \A c \in Evaluators \cup {"VerifyModel"} : Turn[c] \in 17..20
  BY TurnsOfKinds
<1>8. (\A c \in Required : Turn[c] \in 1..5) /\ Turn["FindMaxBatchSize"] = 11
  BY TurnsOfKinds
<1>9. u.command \in Makers => IsMakerUnit(u, r)
  BY <1>1, <1>2, <1>4, <1>5, <1>6, <1>7, <1>8
<1>10. u.command \in Evaluators \cup {"VerifyModel"} => IsEvaluationUnit(u, r)
  BY <1>1, <1>2, <1>3, <1>5, <1>6, <1>7, <1>8
<1> QED
  BY <1>2, <1>3, <1>4, <1>9, <1>10

\* Units with one place to record their status are the same unit.
LEMMA OneUnitAPlace ==
  ASSUME NEW r \in Requests, NEW u \in UnitsOf(r), NEW v \in UnitsOf(r), SameUnit(u, v)
  PROVE  u = v
<1>1. /\ u = [command |-> u.command, model |-> u.model, runner |-> u.runner,
              kwargs |-> KwargsOf(u.command)]
      /\ v = [command |-> v.command, model |-> v.model, runner |-> v.runner,
              kwargs |-> KwargsOf(v.command)]
  BY UnitKinds
<1>2. u.command = v.command /\ u.model = v.model /\ u.runner = v.runner
  BY DEF SameUnit
<1> QED
  BY <1>1, <1>2

\* Only one unit makes the model of a key.
LEMMA OneMaker ==
  ASSUME NEW r \in Requests, NEW u \in UnitsOf(r), NEW v \in UnitsOf(r),
         u.command \in Makers, v.command \in Makers, u.model = v.model
  PROVE  u = v
<1>1. PICK c \in ConfigsOf(r) : Makes(u, c, r)
  BY KindsOfCommands DEF IsMakerUnit
<1>2. PICK d \in ConfigsOf(r) : Makes(v, d, r)
  BY KindsOfCommands DEF IsMakerUnit
<1>3. Key(c) = Key(d)
  BY <1>1, <1>2 DEF Makes
<1>4. c = d
  BY <1>3, RequestedConfigs DEF KeysDiffer
<1>5. SameUnit(u, v)
  BY <1>1, <1>2, <1>4 DEF Makes, SameUnit
<1> QED
  BY <1>5, OneUnitAPlace

-----------------------------------------------------------------------------
(* The invariant of PipelinePlanning and what it implies.                  *)

\* Nothing is planned yet, or what the request asks for.
PlanIsOfRequest ==
  /\ request \in Requests
  /\ \/ configs = <<>> /\ plan = <<>>
     \/ configs = AllConfigs(Lists(request)) /\ plan = PlanOf(request)

\* PlanIsOfRequest is an invariant: what PipelineManager builds is a function of
\* the request.
THEOREM PlansOfRequests == Planning => []PlanIsOfRequest
<1>1. Requested => PlanIsOfRequest
  BY DEF Requested, PlanIsOfRequest
<1>2. PlanIsOfRequest /\ [BuildPipelines]_planning => PlanIsOfRequest'
  <2> SUFFICES ASSUME PlanIsOfRequest, [BuildPipelines]_planning
               PROVE  PlanIsOfRequest'
    OBVIOUS
  <2>1. CASE BuildPipelines
    BY <2>1 DEF BuildPipelines, PlanIsOfRequest
  <2>2. CASE UNCHANGED planning
    BY <2>2 DEF planning, PlanIsOfRequest
  <2> QED
    BY <2>1, <2>2
<1> QED
  BY <1>1, <1>2, PTL DEF Planning

\* Before planning there is nothing.
LEMMA NothingPlanned ==
  ASSUME configs = <<>>, plan = <<>>
  PROVE  DOMAIN plan = {} /\ DOMAIN configs = {} /\ Configured = {}
BY DEF Configured

\* What is known of the plan of a request that was built.
LEMMA Planned ==
  ASSUME request \in Requests, configs = AllConfigs(Lists(request)), plan = PlanOf(request)
  PROVE  /\ Len(plan) \in Nat /\ DOMAIN plan = 1..Len(plan)
         /\ \A i \in DOMAIN plan : plan[i] \in UnitsOf(request)
         /\ \A u \in UnitsOf(request) : \E i \in DOMAIN plan : plan[i] = u
         /\ \A i, j \in DOMAIN plan : plan[i] = plan[j] => i = j
         /\ \A i, j \in DOMAIN plan : Turn[plan[i].command] < Turn[plan[j].command] => i < j
         /\ Configured = ConfigsOf(request)
         /\ \A i, j \in DOMAIN configs : configs[i] = configs[j] => i = j
<1>1. Enumerates(configs, ConfigsOf(request))
  BY RequestedConfigs
<1>2. /\ Configured = ConfigsOf(request)
      /\ \A i, j \in DOMAIN configs : configs[i] = configs[j] => i = j
  <2> DEFINE t == configs
             X == ConfigsOf(request)
  <2>1. Enumerates(t, X)
    BY <1>1
  <2> HIDE DEF t, X
  <2>2. /\ DOMAIN t = 1..Len(t) /\ \A i \in 1..Len(t) : t[i] \in X
        /\ \A x \in X : \E i \in 1..Len(t) : t[i] = x
        /\ \A i, j \in 1..Len(t) : t[i] = t[j] => i = j
    BY <2>1, ListedElements
  <2>3. {t[i] : i \in DOMAIN t} = X /\ \A i, j \in DOMAIN t : t[i] = t[j] => i = j
    BY <2>2
  <2> QED
    BY <2>3 DEF t, X, Configured
<1> QED
  BY <1>2, PlanPositions

\* OneUnitAPlace and KeysDiffer, position by position.
LEMMA OverwritingNothing == PlanIsOfRequest => NothingIsOverwritten
<1> SUFFICES ASSUME PlanIsOfRequest PROVE NothingIsOverwritten
  OBVIOUS
<1>1. CASE configs = <<>> /\ plan = <<>>
  BY <1>1, NothingPlanned DEF NothingIsOverwritten
<1>2. CASE configs = AllConfigs(Lists(request)) /\ plan = PlanOf(request)
  <2>0. request \in Requests
    BY DEF PlanIsOfRequest
  <2>1. ASSUME NEW i \in DOMAIN plan, NEW j \in DOMAIN plan, SameUnit(plan[i], plan[j])
        PROVE  i = j
    <3>1. plan[i] \in UnitsOf(request) /\ plan[j] \in UnitsOf(request)
      BY <1>2, <2>0, Planned
    <3>2. plan[i] = plan[j]
      BY <2>0, <2>1, <3>1, OneUnitAPlace
    <3> QED
      BY <1>2, <2>0, <3>2, Planned
  <2>2. ASSUME NEW i \in DOMAIN configs, NEW j \in DOMAIN configs,
               Key(configs[i]) = Key(configs[j])
        PROVE  i = j
    <3>1. configs[i] \in ConfigsOf(request) /\ configs[j] \in ConfigsOf(request)
      BY <1>2, <2>0, Planned DEF Configured
    <3>2. configs[i] = configs[j]
      BY <2>0, <2>2, <3>1, RequestedConfigs DEF KeysDiffer
    <3> QED
      BY <1>2, <2>0, <3>2, Planned
  <2> QED
    BY <2>1, <2>2 DEF NothingIsOverwritten
<1> QED
  BY <1>1, <1>2 DEF PlanIsOfRequest

\* Required commands have an earlier turn and suit the same runners.
LEMMA RequirementsFirst == PlanIsOfRequest => RequirementsComeFirst
<1> SUFFICES ASSUME PlanIsOfRequest PROVE RequirementsComeFirst
  OBVIOUS
<1>1. CASE configs = <<>> /\ plan = <<>>
  BY <1>1, NothingPlanned DEF RequirementsComeFirst
<1>2. CASE configs = AllConfigs(Lists(request)) /\ plan = PlanOf(request)
  <2>0. request \in Requests
    BY DEF PlanIsOfRequest
  <2>1. ASSUME NEW i \in DOMAIN plan, NEW e \in Requires(plan[i].command)
        PROVE  \E j \in 1..(i - 1) : SameUnit(plan[j], [plan[i] EXCEPT !.command = e])
    <3>1. plan[i].command = "VerifyModel" /\ e \in {"Correctness", "Performance"}
      BY <2>1 DEF Requires
    <3>2. plan[i] \in UnitsOf(request)
      BY <1>2, <2>0, Planned
    <3>3. IsEvaluationUnit(plan[i], request)
      BY <2>0, <3>1, <3>2, KindsOfCommands
    <3>4. PICK c \in ConfigsOf(request), q \in ToSet(RunnerRegistry) :
            Evaluates(plan[i], c, q, request)
      BY <3>3 DEF IsEvaluationUnit
    <3>5. e \in Evaluating(request.flow)
      BY <3>1, <3>4 DEF Evaluates, Evaluating
    <3> DEFINE u == RunnerUnit(e, c, q)
    <3>6. u \in UnitsOf(request)
      BY <2>0, <3>4, <3>5, PlannedUnits DEF Evaluates
    <3>7. PICK j \in DOMAIN plan : plan[j] = u
      BY <1>2, <2>0, <3>6, Planned
    <3>8. u.command = e /\ u.model = plan[i].model /\ u.runner = plan[i].runner
      BY <3>4 DEF RunnerUnit, Evaluates
    <3>9. Turn[e] < Turn[plan[i].command]
      BY <3>1 DEF Turn
    <3>10. j < i /\ i \in Nat /\ j \in Nat /\ j >= 1
      BY <1>2, <2>0, <3>7, <3>8, <3>9, Planned
    <3>11. plan[i] = [command |-> plan[i].command, model |-> plan[i].model,
                      runner |-> plan[i].runner, kwargs |-> KwargsOf(plan[i].command)]
      BY <2>0, <3>2, UnitKinds
    <3>12. [plan[i] EXCEPT !.command = e] =
             [command |-> e, model |-> plan[i].model,
              runner |-> plan[i].runner, kwargs |-> KwargsOf(plan[i].command)]
      BY <3>11
    <3>13. SameUnit(plan[j], [plan[i] EXCEPT !.command = e])
      BY <3>7, <3>8, <3>12 DEF SameUnit
    <3> QED
      BY <3>10, <3>13
  <2> QED
    BY <2>1 DEF RequirementsComeFirst
<1> QED
  BY <1>1, <1>2 DEF PlanIsOfRequest

\* The turn of the search is between those of exports and conversions.
LEMMA SearchBetween == PlanIsOfRequest => SearchComesBetween
<1> SUFFICES ASSUME PlanIsOfRequest PROVE SearchComesBetween
  OBVIOUS
<1>1. CASE configs = <<>> /\ plan = <<>>
  BY <1>1, NothingPlanned DEF SearchComesBetween
<1>2. CASE configs = AllConfigs(Lists(request)) /\ plan = PlanOf(request)
  <2>0. request \in Requests
    BY DEF PlanIsOfRequest
  <2>1. ASSUME NEW i \in DOMAIN plan, NEW j \in DOMAIN plan, plan[i].command = "FindMaxBatchSize"
        PROVE  /\ plan[j].command \in Exporters => j < i
               /\ plan[j].command \in Converters => i < j
    <3>1. Turn[plan[i].command] = 11
      BY <2>1, TurnsOfKinds
    <3>2. /\ plan[j].command \in Exporters => Turn[plan[j].command] < Turn[plan[i].command]
          /\ plan[j].command \in Converters => Turn[plan[i].command] < Turn[plan[j].command]
      BY <3>1, TurnsOfKinds
    <3> QED
      BY <1>2, <2>0, <3>2, Planned
  <2> QED
    BY <2>1 DEF SearchComesBetween
<1> QED
  BY <1>1, <1>2 DEF PlanIsOfRequest

\* The command that makes a model has a later turn than the one that makes its parent.
LEMMA ParentsTurn ==
  ASSUME NEW r \in Requests, NEW c \in ConfigsOf(r), c.parent # NullModel
  PROVE  /\ \E d \in ConfigsOf(r) : Key(d) = c.parent
         /\ \A d \in ConfigsOf(r) : Key(d) = c.parent =>
              /\ MakerCommand(c, r.framework) \in Makers
              /\ MakerCommand(d, r.framework) \in Makers =>
                   Turn[MakerCommand(d, r.framework)] < Turn[MakerCommand(c, r.framework)]
<1> DEFINE fw == r.framework
           lists == Lists(r)
<1>1. /\ fw \in Frameworks /\ ListsOf(lists, fw) /\ KeysDiffer(ConfigsOf(r))
      /\ \A d \in ConfigsOf(r) : IsMadeByItsCommand(d, fw)
  BY RequestedConfigs
<1>2. PICK f \in Formats : c \in ToSet(lists[f])
  BY DEF ConfigsOf, ConfigsIn
<1>3. PICK g \in ParentFormats(f) : c.parent \in KeysOf(lists[g])
  BY <1>1, <1>2 DEF ListsOf
<1>4. PICK d \in ToSet(lists[g]) : c.parent = Key(d)
  BY <1>3 DEF KeysOf
<1>5. g \in Formats
  BY DEF ParentFormats, Formats
<1>6. c.format = f /\ d.format = g /\ d \in ConfigsOf(r)
  BY <1>1, <1>2, <1>5 DEF ListsOf, AreLists, IsConfigList, ConfigsOf, ConfigsIn
<1>7. f \in AvailableTargetFormats[fw] /\ g \in AvailableTargetFormats[fw]
  BY <1>1, <1>2, <1>4, <1>5 DEF ListsOf
<1>8. IsMadeByItsCommand(c, fw) /\ IsMadeByItsCommand(d, fw)
  BY <1>1, <1>6
<1>9. /\ f \in {"torch-trt", "tf-trt", "trt", "onnx"}
      /\ f = "torch-trt" => g = "torchscript"
      /\ f = "tf-trt" => g = "tf-savedmodel"
      /\ f = "trt" => g = "onnx"
      /\ f = "onnx" => g \in {"torchscript", "tf-savedmodel"}
  BY <1>3 DEF ParentFormats
<1> HIDE DEF fw, lists
<1> DEFINE C == MakerCommand(c, fw)
           D == MakerCommand(d, fw)
<1>10. C \in Makers /\ (D \in Makers => Turn[D] < Turn[C])
  <2>1. CASE f = "torch-trt"
    <3>1. C = "ConvertTorchScript2TorchTensorRT" /\ D = "ExportTorch2TorchScript"
      BY <1>6, <1>8, <1>9, <2>1 DEF IsMadeByItsCommand
    <3> QED
      BY <3>1 DEF Turn, Makers, Converters
  <2>2. CASE f = "tf-trt"
    <3>1. C = "ConvertSavedModel2TFTRT"
      BY <1>6, <1>8, <2>2 DEF IsMadeByItsCommand
    <3>2. fw \in {"tensorflow", "jax"}
      BY <1>1, <1>7, <2>2, AvailableFormats
    <3>3. D \in {"ExportTF2SavedModel", "ExportJAX2SavedModel"}
      BY <1>6, <1>8, <1>9, <2>2, <3>2 DEF IsMadeByItsCommand
    <3> QED
      BY <3>1, <3>3 DEF Turn, Makers, Converters
  <2>3. CASE f = "trt"
    <3>1. C = "ConvertONNX2TRT"
      BY <1>6, <1>8, <2>3 DEF IsMadeByItsCommand
    <3>2. fw \in {"torch", "tensorflow", "jax", "onnx"}
      BY <1>1, <1>7, <2>3, AvailableFormats DEF Frameworks
    <3>3. D \in {"ExportTorch2ONNX", "CopyONNX", "ConvertTorchScript2ONNX",
                 "ConvertSavedModel2ONNX"}
      BY <1>6, <1>8, <1>9, <2>3, <3>2 DEF IsMadeByItsCommand
    <3> QED
      BY <3>1, <3>3 DEF Turn, Makers, Converters
  <2>4. CASE f = "onnx" /\ g = "torchscript"
    <3>1. fw = "torch"
      BY <1>1, <1>7, <2>4, AvailableFormats
    <3>2. C = "ConvertTorchScript2ONNX" /\ D = "ExportTorch2TorchScript"
      BY <1>6, <1>8, <2>4, <3>1 DEF IsMadeByItsCommand
    <3> QED
      BY <3>2 DEF Turn, Makers, Converters
  <2>5. CASE f = "onnx" /\ g = "tf-savedmodel"
    <3>1. fw \in {"tensorflow", "jax"}
      BY <1>1, <1>7, <2>5, AvailableFormats
    <3>2. C = "ConvertSavedModel2ONNX" /\ D \in {"ExportTF2SavedModel", "ExportJAX2SavedModel"}
      BY <1>6, <1>8, <2>5, <3>1 DEF IsMadeByItsCommand
    <3> QED
      BY <3>2 DEF Turn, Makers, Converters
  <2> QED
    BY <1>9, <2>1, <2>2, <2>3, <2>4, <2>5
<1>11. \A e \in ConfigsOf(r) : Key(e) = c.parent => e = d
  BY <1>1, <1>4, <1>6 DEF KeysDiffer
<1> QED
  BY <1>4, <1>6, <1>10, <1>11 DEF fw

\* The command of a parent has an earlier turn (ParentsTurn).
LEMMA ParentsFirst == PlanIsOfRequest => ParentsAreMadeFirst
<1> SUFFICES ASSUME PlanIsOfRequest PROVE ParentsAreMadeFirst
  OBVIOUS
<1>1. CASE configs = <<>> /\ plan = <<>>
  BY <1>1, NothingPlanned DEF ParentsAreMadeFirst
<1>2. CASE configs = AllConfigs(Lists(request)) /\ plan = PlanOf(request)
  <2>0. request \in Requests
    BY DEF PlanIsOfRequest
  <2>1. ASSUME NEW c \in Configured, c.parent # NullModel
        PROVE  /\ c.parent \in {Key(d) : d \in Configured}
               /\ \A i \in MakersOf(Key(c)), j \in MakersOf(c.parent) : j < i
    <3>1. Configured = ConfigsOf(request)
      BY <1>2, <2>0, Planned
    <3>2. PICK d \in ConfigsOf(request) : Key(d) = c.parent
      BY <2>0, <2>1, <3>1, ParentsTurn
    <3>3. ASSUME NEW i \in MakersOf(Key(c)), NEW j \in MakersOf(c.parent)
          PROVE  j < i
      <4>1. /\ i \in DOMAIN plan /\ plan[i].model = Key(c) /\ plan[i].command \in Makers
            /\ j \in DOMAIN plan /\ plan[j].model = Key(d) /\ plan[j].command \in Makers
        BY <3>2 DEF MakersOf
      <4>2. plan[i] \in UnitsOf(request) /\ plan[j] \in UnitsOf(request)
        BY <1>2, <2>0, <4>1, Planned
      <4>3. PICK a \in ConfigsOf(request) : Makes(plan[i], a, request)
        BY <2>0, <4>1, <4>2, KindsOfCommands DEF IsMakerUnit
      <4>4. PICK b \in ConfigsOf(request) : Makes(plan[j], b, request)
        BY <2>0, <4>1, <4>2, KindsOfCommands DEF IsMakerUnit
      <4>5. a = c /\ b = d
        BY <2>0, <3>1, <4>1, <4>3, <4>4, RequestedConfigs DEF KeysDiffer, Makes
      <4>6. /\ plan[i].command = MakerCommand(c, request.framework)
            /\ plan[j].command = MakerCommand(d, request.framework)
        BY <4>3, <4>4, <4>5 DEF Makes
      <4>7. Turn[plan[j].command] < Turn[plan[i].command]
        BY <2>0, <2>1, <3>1, <3>2, <4>1, <4>6, ParentsTurn
      <4> QED
        BY <1>2, <2>0, <4>1, <4>7, Planned
    <3> QED
      BY <3>1, <3>2, <3>3
  <2> QED
    BY <2>1 DEF ParentsAreMadeFirst
<1> QED
  BY <1>1, <1>2 DEF PlanIsOfRequest

\* A model that is evaluated in a run from the source has a command that makes it.
LEMMA EvaluatedIsMade ==
  ASSUME NEW r \in Requests, NEW c \in ConfigsOf(r), c.format \notin SourceFormats,
         NEW q \in Suitable(c, Settings(r)), r.flow = "optimize"
  PROVE  MakerCommand(c, r.framework) \in MakersIn(r) /\ MakerCommand(c, r.framework) \in Makers
<1> DEFINE command == MakerCommand(c, r.framework)
<1>1. IsMadeByItsCommand(c, r.framework)
  BY RequestedConfigs
<1>2. command \in Exporters \cup Converters
  BY <1>1 DEF IsMadeByItsCommand, Makers
<1>3. MakersIn(r) = Exporters \cup Converting(Settings(r))
  BY DEF MakersIn
<1>4. CASE Settings(r).device = "cuda"
  BY <1>2, <1>3, <1>4 DEF Converting, Makers
<1>5. CASE Settings(r).device # "cuda"
  <2>1. /\ q \in ToSet(RunnerRegistry) /\ q.format = c.format
        /\ Settings(r).device \in q.devices
    BY DEF Suitable
  <2>2. c.format \notin TensorRTFormats
    BY <1>5, <2>1, RegisteredRunners
  <2>3. command \notin {"ConvertTorchScript2TorchTensorRT", "ConvertSavedModel2TFTRT",
                        "ConvertONNX2TRT"}
    BY <1>1, <2>2 DEF IsMadeByItsCommand, TensorRTFormats
  <2>4. command \in Exporters \cup {"ConvertTorchScript2ONNX", "ConvertSavedModel2ONNX"}
    BY <1>2, <2>3 DEF Converters
  <2> QED
    BY <1>2, <1>3, <1>5, <2>4 DEF Converting, Makers
<1> QED
  BY <1>4, <1>5

\* A set whose elements are all equal has at most one.
LEMMA AtMostOne ==
  ASSUME NEW S, \A a, b \in S : a = b
  PROVE  Cardinality(S) <= 1 /\ (S # {} => Cardinality(S) = 1)
<1>1. CASE S = {}
  BY <1>1, FS_EmptySet
<1>2. CASE S # {}
  <2>1. PICK a \in S : S = {a}
    BY <1>2
  <2>2. Cardinality(S) = 1
    BY <2>1, FS_Singleton
  <2> QED
    BY <1>2, <2>2
<1> QED
  BY <1>1, <1>2

\* A run from the source plans the command of every model it evaluates, once.
LEMMA ModelsAreMade == PlanIsOfRequest => EvaluatedModelsAreMade
<1> SUFFICES ASSUME PlanIsOfRequest PROVE EvaluatedModelsAreMade
  OBVIOUS
<1>1. CASE configs = <<>> /\ plan = <<>>
  BY <1>1, NothingPlanned DEF EvaluatedModelsAreMade
<1>2. CASE configs = AllConfigs(Lists(request)) /\ plan = PlanOf(request)
  <2>0. request \in Requests
    BY DEF PlanIsOfRequest
  <2>1. ASSUME NEW i \in DOMAIN plan,
               plan[i].command \in Evaluators, plan[i].model[1] \notin SourceFormats
        PROVE  LET makers == MakersOf(plan[i].model)
               IN /\ request.flow = "optimize" => Cardinality(makers) = 1
                  /\ Cardinality(makers) <= 1
                  /\ \A j \in makers : j < i
    <3> DEFINE makers == MakersOf(plan[i].model)
    <3>1. plan[i] \in UnitsOf(request)
      BY <1>2, <2>0, Planned
    <3>2. PICK c \in ConfigsOf(request), q \in ToSet(RunnerRegistry) :
            Evaluates(plan[i], c, q, request)
      BY <2>0, <2>1, <3>1, KindsOfCommands DEF IsEvaluationUnit
    <3>3. /\ plan[i].model = Key(c) /\ c.format \notin SourceFormats
          /\ q \in Suitable(c, Settings(request))
      BY <2>1, <3>2 DEF Evaluates, Key
    <3>4. ASSUME NEW j \in makers
          PROVE  /\ j \in DOMAIN plan /\ plan[j] \in UnitsOf(request)
                 /\ plan[j].command \in Makers /\ plan[j].model = plan[i].model
      BY <1>2, <2>0, Planned DEF MakersOf
    <3>5. \A j, k \in makers : j = k
      <4> SUFFICES ASSUME NEW j \in makers, NEW k \in makers PROVE j = k
        OBVIOUS
      <4>1. plan[j] = plan[k]
        BY <2>0, <3>4, OneMaker
      <4> QED
        BY <1>2, <2>0, <3>4, <4>1, Planned
    <3>6. \A j \in makers : j < i
      <4> SUFFICES ASSUME NEW j \in makers PROVE j < i
        OBVIOUS
      <4>1. Turn[plan[j].command] < Turn[plan[i].command]
        BY <2>1, <3>4, TurnsOfKinds DEF Makers
      <4> QED
        BY <1>2, <2>0, <3>4, <4>1, Planned
    <3>7. request.flow = "optimize" => makers # {}
      <4> SUFFICES ASSUME request.flow = "optimize" PROVE makers # {}
        OBVIOUS
      <4> DEFINE command == MakerCommand(c, request.framework)
      <4>1. command \in MakersIn(request) /\ command \in Makers
        BY <2>0, <3>3, EvaluatedIsMade
      <4>2. ModelUnit(command, c) \in UnitsOf(request)
        BY <2>0, <4>1, PlannedUnits
      <4>3. PICK j \in DOMAIN plan : plan[j] = ModelUnit(command, c)
        BY <1>2, <2>0, <4>2, Planned
      <4>4. plan[j].command = command /\ plan[j].model = Key(c)
        BY <4>3 DEF ModelUnit
      <4>5. j \in makers
        BY <3>3, <4>1, <4>4 DEF MakersOf
      <4> QED
        BY <4>5
    <3> HIDE DEF makers
    <3>8. Cardinality(makers) <= 1 /\ (makers # {} => Cardinality(makers) = 1)
      BY <3>5, AtMostOne
    <3> QED
      BY <3>6, <3>7, <3>8 DEF makers
  <2> QED
    BY <2>1 DEF EvaluatedModelsAreMade
<1> QED
  BY <1>1, <1>2 DEF PlanIsOfRequest

-----------------------------------------------------------------------------
(* Arguments, their sources and the outputs of makers.                   *)

\* The arguments the options of a model can be.
OptionArgs ==
  {"format", "key", "path", "log_path", "parent_key", "parent_path", "parent",
   "jit_compile", "enable_xla", "jit_type", "strict", "opset", "dynamic_axes",
   "precision", "precision_mode", "max_workspace_size", "trt_profile",
   "optimization_level", "compatibility_level", "minimum_segment_size"}

\* No option of a model is a setting or an argument of the search.
LEMMA OptionArguments ==
  /\ \A f \in Formats : FormatArgs(f) \subseteq OptionArgs
  /\ (OptionArgs \cup {"runner_cls", "configurations"}) \cap ConfigArgs = {}
  /\ (OptionArgs \cup {"runner_cls"}) \cap {"configurations"} = {}
<1>1. \A f \in Formats : FormatArgs(f) \subseteq OptionArgs
  <2> SUFFICES ASSUME NEW f \in Formats PROVE FormatArgs(f) \subseteq OptionArgs
    OBVIOUS
  <2>1. CASE f = "tf-savedmodel"
    BY <2>1 DEF FormatArgs, OptionArgs
  <2>2. CASE f = "torchscript"
    BY <2>2 DEF FormatArgs, OptionArgs
  <2>3. CASE f = "onnx"
    BY <2>3 DEF FormatArgs, OptionArgs
  <2>4. CASE f = "trt"
    BY <2>4 DEF FormatArgs, OptionArgs
  <2>5. CASE f = "tf-trt"
    BY <2>5 DEF FormatArgs, OptionArgs
  <2>6. CASE f = "torch-trt"
    BY <2>6 DEF FormatArgs, OptionArgs
  <2>7. CASE f \in SourceFormats
    BY <2>7 DEF FormatArgs, OptionArgs, SourceFormats
  <2> QED
    BY <2>1, <2>2, <2>3, <2>4, <2>5, <2>6, <2>7 DEF Formats
<1>2. \A a \in OptionArgs : a \notin ConfigArgs /\ a # "configurations"
  BY DEF OptionArgs, ConfigArgs
<1>3. "runner_cls" \notin ConfigArgs /\ "configurations" \notin ConfigArgs
  BY DEF ConfigArgs
<1> QED
  BY <1>1, <1>2, <1>3

\* The commands that make models return the same arguments, the others their own.
Kind(command) == IF command \in Makers THEN "maker" ELSE command

\* Which commands of a run return an argument.
Returning(a, flow) ==
  CASE a \in {"input_metadata", "dataloader_trt_profile", "dataloader_max_batch_size"} ->
         IF flow = "optimize" THEN "InferInputMetadata" ELSE "LoadMetadata"
    [] a \in {"profiling_sample", "correctness_samples", "conversion_samples"} ->
         "FetchInputModelData"
    [] a = "output_metadata" ->
         IF flow = "optimize" THEN "InferOutputMetadata" ELSE "LoadMetadata"
    [] a \in {"profiling_sample_output", "correctness_samples_output",
              "conversion_samples_output"} -> "FetchOutputModelData"
    [] a = "device_max_batch_size" -> "FindMaxBatchSize"
    [] a \in {"conversion_max_batch_size", "conversion_profiles"} -> "maker"
    [] a = "per_output_tolerance" -> "Correctness"
    [] a = "profiling_results" -> IF flow = "package_profile" THEN "Profile" ELSE "Performance"
    [] a = "profiling_samples" -> "Profile"
    [] OTHER -> "none"

\* The arguments that commands return.
OutputArgs ==
  {"input_metadata", "dataloader_trt_profile", "dataloader_max_batch_size",
   "profiling_sample", "correctness_samples", "conversion_samples", "output_metadata",
   "profiling_sample_output", "correctness_samples_output", "conversion_samples_output",
   "device_max_batch_size", "conversion_max_batch_size", "conversion_profiles",
   "per_output_tolerance", "profiling_results", "profiling_samples"}

\* The commands of a run of each kind.
CommandsIn(flow) ==
  Preparing(flow) \cup Makers \cup Evaluating(flow) \cup {"FindMaxBatchSize"}

\* The outputs of every command, from its signature.
LEMMA CommandOutputs ==
  /\ Outputs["InferInputMetadata"] =
       {"input_metadata", "dataloader_trt_profile", "dataloader_max_batch_size"}
  /\ Outputs["FetchInputModelData"] =
       {"profiling_sample", "correctness_samples", "conversion_samples"}
  /\ Outputs["InferOutputMetadata"] = {"output_metadata"}
  /\ Outputs["FetchOutputModelData"] =
       {"profiling_sample_output", "correctness_samples_output", "conversion_samples_output"}
  /\ Outputs["LoadMetadata"] = {"input_metadata", "output_metadata", "dataloader_trt_profile",
                                "dataloader_max_batch_size"}
  /\ Outputs["FindMaxBatchSize"] = {"device_max_batch_size"}
  /\ \A c \in Makers : Outputs[c] \subseteq {"conversion_max_batch_size", "conversion_profiles"}
  /\ Outputs["Correctness"] = {"per_output_tolerance"}
  /\ Outputs["Performance"] = {"profiling_results"}
  /\ Outputs["Profile"] = {"profiling_results", "profiling_samples"}
  /\ Outputs["VerifyModel"] = {}
<1>1. \A c \in Commands : Outputs[c] = SignatureOf[c].outputs
  BY DEF Outputs
<1>2. /\ Outputs["InferInputMetadata"] =
           {"input_metadata", "dataloader_trt_profile", "dataloader_max_batch_size"}
      /\ Outputs["FetchInputModelData"] =
           {"profiling_sample", "correctness_samples", "conversion_samples"}
      /\ Outputs["InferOutputMetadata"] = {"output_metadata"}
  BY <1>1 DEF SignatureOf, Commands, Required, Signature, InferInputMetadata,
              FetchInputModelData, InferOutputMetadata
<1>3. /\ Outputs["FetchOutputModelData"] =
           {"profiling_sample_output", "correctness_samples_output", "conversion_samples_output"}
      /\ Outputs["LoadMetadata"] = {"input_metadata", "output_metadata", "dataloader_trt_profile",
                                    "dataloader_max_batch_size"}
      /\ Outputs["FindMaxBatchSize"] = {"device_max_batch_size"}
  BY <1>1 DEF SignatureOf, Commands, Required, Signature, FetchOutputModelData, LoadMetadata,
              FindMaxBatchSize, Described
<1>4. \A c \in Exporters : Outputs[c] = {}
  BY <1>1 DEF SignatureOf, Commands, Exporters, Signature, ExportTorch2TorchScript,
              ExportTorch2ONNX, ExportTF2SavedModel, ExportJAX2SavedModel, CopyONNX
<1>5. \A c \in Converters :
        Outputs[c] \subseteq {"conversion_max_batch_size", "conversion_profiles"}
  BY <1>1 DEF SignatureOf, Commands, Converters, Signature, ConvertTorchScript2ONNX,
              ConvertTorchScript2TorchTensorRT, ConvertSavedModel2ONNX,
              ConvertSavedModel2TFTRT, ConvertONNX2TRT
<1>6. /\ Outputs["Correctness"] = {"per_output_tolerance"}
      /\ Outputs["Performance"] = {"profiling_results"}
      /\ Outputs["Profile"] = {"profiling_results", "profiling_samples"}
      /\ Outputs["VerifyModel"] = {}
  BY <1>1 DEF SignatureOf, Commands, Evaluators, Signature, Correctness, Performance, Profile,
              VerifyModel
<1> QED
  BY <1>2, <1>3, <1>4, <1>5, <1>6 DEF Makers

\* An output tells which kind of command returns it.
LEMMA OutputsTellTheKind ==
  ASSUME NEW flow, NEW c \in CommandsIn(flow)
  PROVE  \A a \in Outputs[c] : a \in OutputArgs /\ Returning(a, flow) = Kind(c)
<1>1. CASE c \in Makers
  <2>1. Outputs[c] \subseteq {"conversion_max_batch_size", "conversion_profiles"}
    BY <1>1, CommandOutputs
  <2> QED
    BY <1>1, <2>1 DEF Returning, OutputArgs, Kind
<1>2. CASE c \in Preparing(flow) /\ flow = "optimize"
  <2>1. c \notin Makers
    BY <1>2 DEF Preparing, SourceCommands, Makers, Exporters, Converters
  <2> QED
    BY <1>2, <2>1, CommandOutputs
       DEF Preparing, SourceCommands, Returning, OutputArgs, Kind
<1>3. CASE c \in Preparing(flow) /\ flow # "optimize"
  <2>1. c \notin Makers /\ c = "LoadMetadata"
    BY <1>3 DEF Preparing, Makers, Exporters, Converters
  <2> QED
    BY <1>3, <2>1, CommandOutputs DEF Returning, OutputArgs, Kind
<1>4. CASE c \in Evaluating(flow) \cup {"FindMaxBatchSize"}
  <2>1. c \notin Makers
    BY <1>4 DEF Evaluating, Makers, Exporters, Converters
  <2> QED
    BY <1>4, <2>1, CommandOutputs DEF Evaluating, Returning, OutputArgs, Kind
<1> QED
  BY <1>1, <1>2, <1>3, <1>4 DEF CommandsIn

\* No output is given by the settings or the options.
LEMMA OutputsAreNotGiven ==
  OutputArgs \cap (ConfigArgs \cup OptionArgs \cup {"runner_cls", "configurations"}) = {}
<1>1. \A a \in OutputArgs : a \notin ConfigArgs
  BY DEF OutputArgs, ConfigArgs
<1>2. \A a \in OutputArgs : a \notin OptionArgs
  BY DEF OutputArgs, OptionArgs
<1>3. \A a \in OutputArgs : a # "runner_cls" /\ a # "configurations"
  BY DEF OutputArgs
<1> QED
  BY <1>1, <1>2, <1>3

\* The part of the metadata that every later command is given.
Prepared == Described \cup {"dataloader_trt_profile"}

\* The commands that prepare a run return the metadata.
LEMMA PreparedIsReturned ==
  ASSUME NEW flow
  PROVE  \A a \in Prepared : \E c \in Preparing(flow) : a \in Outputs[c]
<1>1. CASE flow = "optimize"
  BY <1>1, CommandOutputs DEF Prepared, Described, Preparing, SourceCommands
<1>2. CASE flow # "optimize"
  BY <1>2, CommandOutputs DEF Prepared, Described, Preparing
<1> QED
  BY <1>1, <1>2

\* What each command needs, apart from the settings.
LEMMA CommandNeeds ==
  /\ Needs["InferInputMetadata"] \subseteq ConfigArgs
  /\ Needs["LoadMetadata"] \subseteq ConfigArgs
  /\ Needs["FetchInputModelData"] \subseteq ConfigArgs \cup Outputs["InferInputMetadata"]
  /\ Needs["InferOutputMetadata"] \subseteq
       ConfigArgs \cup Outputs["InferInputMetadata"] \cup Outputs["FetchInputModelData"]
  /\ Needs["FetchOutputModelData"] \subseteq
       ConfigArgs \cup Outputs["InferInputMetadata"] \cup Outputs["InferOutputMetadata"]
  /\ Needs["FindMaxBatchSize"] \subseteq ConfigArgs \cup {"configurations"} \cup Prepared
<1>1. \A c \in Commands : Needs[c] = SignatureOf[c].needs
  BY DEF Needs
<1>2. Needs["InferInputMetadata"] \subseteq ConfigArgs /\ Needs["LoadMetadata"] \subseteq ConfigArgs
  BY <1>1 DEF SignatureOf, Commands, Required, Signature, InferInputMetadata, LoadMetadata,
              ConfigArgs
<1>3. Needs["FetchInputModelData"] \subseteq ConfigArgs \cup Outputs["InferInputMetadata"]
  BY <1>1, CommandOutputs
     DEF SignatureOf, Commands, Required, Signature, FetchInputModelData, ConfigArgs
<1>4. Needs["InferOutputMetadata"] \subseteq
        ConfigArgs \cup Outputs["InferInputMetadata"] \cup Outputs["FetchInputModelData"]
  BY <1>1, CommandOutputs
     DEF SignatureOf, Commands, Required, Signature, InferOutputMetadata, ConfigArgs
<1>5. Needs["FetchOutputModelData"] \subseteq
        ConfigArgs \cup Outputs["InferInputMetadata"] \cup Outputs["InferOutputMetadata"]
  BY <1>1, CommandOutputs
     DEF SignatureOf, Commands, Required, Signature, FetchOutputModelData, Described, ConfigArgs
<1>6. Needs["FindMaxBatchSize"] \subseteq ConfigArgs \cup {"configurations"} \cup Prepared
  BY <1>1 DEF SignatureOf, Commands, Signature, FindMaxBatchSize, Prepared, Described, ConfigArgs
<1> QED
  BY <1>2, <1>3, <1>4, <1>5, <1>6

\* What a command that evaluates needs is at hand once the run is prepared.
LEMMA EvaluationsNeed ==
  ASSUME NEW f \in Formats, NEW c \in Evaluators \cup {"VerifyModel"}
  PROVE  Needs[c] \subseteq ConfigArgs \cup FormatArgs(f) \cup {"runner_cls"} \cup Prepared
<1>1. Needs[c] = SignatureOf[c].needs
  BY DEF Needs, Commands
<1>2. "format" \in FormatArgs(f) /\ "path" \in FormatArgs(f)
  BY DEF FormatArgs
<1>3. EvaluationNeeds \subseteq ConfigArgs \cup {"format", "path", "runner_cls"} \cup Prepared
  BY DEF EvaluationNeeds, ConfigArgs, Prepared
<1>4. Needs[c] \subseteq ConfigArgs \cup {"format", "path", "runner_cls"} \cup Prepared
  <2>1. CASE c = "Correctness"
    BY <1>1, <1>3, <2>1 DEF SignatureOf, Signature, Correctness
  <2>2. CASE c = "Performance"
    BY <1>1, <1>3, <2>2 DEF SignatureOf, Signature, Performance, ConfigArgs
  <2>3. CASE c = "Profile"
    BY <1>1, <1>3, <2>3 DEF SignatureOf, Signature, Profile, ConfigArgs
  <2>4. CASE c = "VerifyModel"
    BY <1>1, <2>4 DEF SignatureOf, Signature, VerifyModel, ConfigArgs, Prepared
  <2> QED
    BY <2>1, <2>2, <2>3, <2>4 DEF Evaluators
<1> QED
  BY <1>2, <1>4

\* What a command that makes a model needs is at hand once the run is prepared.
LEMMA MakersNeed ==
  ASSUME NEW fw, NEW c, IsMadeByItsCommand(c, fw), MakerCommand(c, fw) \in Makers
  PROVE  Needs[MakerCommand(c, fw)] \subseteq ConfigArgs \cup FormatArgs(c.format) \cup Prepared
<1> DEFINE f == c.format
           command == MakerCommand(c, fw)
<1>1. \A e \in Makers : Needs[e] = SignatureOf[e].needs
  BY DEF Needs, Commands, Makers
<1>2. ExportNeeds \subseteq ConfigArgs \cup {"path"} \cup Prepared
  BY DEF ExportNeeds, ConfigArgs, Prepared, Described
<1>3. CASE command = "ExportTorch2TorchScript"
  <2>1. f = "torchscript"
    BY <1>3 DEF IsMadeByItsCommand
  <2>2. {"path", "jit_type", "strict"} \subseteq FormatArgs(f)
    BY <2>1 DEF FormatArgs
  <2>3. Needs[command] \subseteq ConfigArgs \cup {"path", "jit_type", "strict"}
    BY <1>1, <1>3 DEF SignatureOf, Signature, ExportTorch2TorchScript, ConfigArgs
  <2> QED
    BY <2>2, <2>3
<1>4. CASE command \in {"ExportTorch2ONNX", "ConvertTorchScript2ONNX",
                        "ConvertSavedModel2ONNX", "CopyONNX"}
  <2>1. f = "onnx"
    BY <1>4 DEF IsMadeByItsCommand
  <2>2. {"path", "parent_path", "opset"} \subseteq FormatArgs(f)
    BY <2>1 DEF FormatArgs
  <2>3. Needs[command] \subseteq ConfigArgs \cup {"path", "parent_path", "opset"} \cup Prepared
    BY <1>1, <1>2, <1>4
       DEF SignatureOf, Signature, ExportTorch2ONNX, ConvertTorchScript2ONNX,
           ConvertSavedModel2ONNX, CopyONNX, ConfigArgs
  <2> QED
    BY <2>2, <2>3
<1>5. CASE command \in {"ExportTF2SavedModel", "ExportJAX2SavedModel"}
  <2>1. f = "tf-savedmodel"
    BY <1>5 DEF IsMadeByItsCommand
  <2>2. {"path", "jit_compile", "enable_xla"} \subseteq FormatArgs(f)
    BY <2>1 DEF FormatArgs
  <2>3. Needs[command] \subseteq ConfigArgs \cup {"path", "jit_compile", "enable_xla"} \cup Prepared
    <3>1. CASE command = "ExportTF2SavedModel"
      BY <1>1, <1>2, <1>5, <3>1 DEF SignatureOf, Signature, ExportTF2SavedModel, ConfigArgs
    <3>2. CASE command = "ExportJAX2SavedModel"
      BY <1>1, <1>5, <3>2
         DEF SignatureOf, Signature, ExportJAX2SavedModel, ConfigArgs, Prepared, Described
    <3> QED
      BY <1>5, <3>1, <3>2
  <2> QED
    BY <2>2, <2>3
<1>6. CASE command \in {"ConvertTorchScript2TorchTensorRT", "ConvertONNX2TRT"}
  <2>1. f \in {"torch-trt", "trt"}
    BY <1>6 DEF IsMadeByItsCommand
  <2>2. {"path", "parent_path", "precision", "precision_mode", "max_workspace_size"}
          \subseteq FormatArgs(f)
    BY <2>1 DEF FormatArgs
  <2>3. Needs[command] \subseteq
          ConfigArgs \cup {"path", "parent_path", "precision", "precision_mode",
                           "max_workspace_size"} \cup Prepared
    BY <1>1, <1>6
       DEF SignatureOf, Signature, ConvertTorchScript2TorchTensorRT, ConvertONNX2TRT, ConfigArgs,
           Prepared, Described
  <2> QED
    BY <2>2, <2>3
<1>7. CASE command = "ConvertSavedModel2TFTRT"
  <2>1. f = "tf-trt"
    BY <1>7 DEF IsMadeByItsCommand
  <2>2. {"path", "parent_path", "precision", "max_workspace_size", "minimum_segment_size"}
          \subseteq FormatArgs(f)
    BY <2>1 DEF FormatArgs
  <2>3. Needs[command] \subseteq
          ConfigArgs \cup {"path", "parent_path", "precision", "max_workspace_size",
                           "minimum_segment_size"} \cup Prepared
    BY <1>1, <1>7 DEF SignatureOf, Signature, ConvertSavedModel2TFTRT, ConfigArgs, Prepared
  <2> QED
    BY <2>2, <2>3
<1> QED
  BY <1>3, <1>4, <1>5, <1>6, <1>7 DEF Makers, Exporters, Converters

\* The commands and arguments of the units of a plan.
LEMMA UnitArguments ==
  ASSUME NEW r \in Requests, NEW u \in UnitsOf(r)
  PROVE  /\ u.command \in CommandsIn(r.flow)
         /\ u.kwargs = KwargsOf(u.command) /\ u.kwargs \subseteq {"configurations"}
         /\ u.model # NullModel => u.model[1] \in Formats
<1>1. u.kwargs = KwargsOf(u.command)
  BY UnitKinds
<1>2. u.kwargs \subseteq {"configurations"}
  BY <1>1 DEF KwargsOf
<1>3. \/ IsPreparationUnit(u, r) \/ IsSearchUnit(u)
      \/ IsMakerUnit(u, r) \/ IsEvaluationUnit(u, r)
  BY UnitKinds
<1>4. CASE IsPreparationUnit(u, r) \/ IsSearchUnit(u)
  BY <1>1, <1>2, <1>4 DEF IsPreparationUnit, IsSearchUnit, CommandsIn
<1>5. CASE IsMakerUnit(u, r)
  <2>1. PICK c \in ConfigsOf(r) : Makes(u, c, r)
    BY <1>5 DEF IsMakerUnit
  <2>2. c.format \in Formats
    BY RequestedConfigs DEF Configs
  <2>3. u.command \in Makers
    BY <1>5, KindsOfCommands
  <2> QED
    BY <1>1, <1>2, <2>1, <2>2, <2>3 DEF Makes, Key, CommandsIn
<1>6. CASE IsEvaluationUnit(u, r)
  <2>1. PICK c \in ConfigsOf(r), q \in ToSet(RunnerRegistry) : Evaluates(u, c, q, r)
    BY <1>6 DEF IsEvaluationUnit
  <2>2. c.format \in Formats
    BY RequestedConfigs DEF Configs
  <2> QED
    BY <1>1, <1>2, <2>1, <2>2 DEF Evaluates, Key, CommandsIn
<1> QED
  BY <1>3, <1>4, <1>5, <1>6

\* Whether v may hand its outputs to u, if it comes before u.
IsSourceFor(v, u) ==
  v.model = NullModel \/ (v.model = u.model /\ v.runner \in {NullRunner, u.runner})

\* A key is never None.
LEMMA KeyIsNotNull == ASSUME NEW c PROVE Key(c) # NullModel
BY DEF Key, NullModel

\* Two units of the same kind that hand their outputs to a third are the same.
LEMMA OneSourceOfAKind ==
  ASSUME NEW r \in Requests, NEW u \in UnitsOf(r), NEW v \in UnitsOf(r), NEW w \in UnitsOf(r),
         IsSourceFor(v, u), IsSourceFor(w, u), Kind(v.command) = Kind(w.command)
  PROVE  v = w
<1>1. CASE v.command \in Makers \/ w.command \in Makers
  <2>1. v.command \in Makers /\ w.command \in Makers
    <3>1. v.command # "maker" /\ w.command # "maker"
      <4>1. "maker" \notin CommandsIn(r.flow)
        BY DEF CommandsIn, Preparing, SourceCommands, Makers, Exporters, Converters, Evaluating
      <4> QED
        BY <4>1, UnitArguments
    <3> QED
      BY <1>1, <3>1 DEF Kind
  <2>2. v.model # NullModel /\ w.model # NullModel
    <3>1. IsMakerUnit(v, r) /\ IsMakerUnit(w, r)
      BY <2>1, KindsOfCommands
    <3> QED
      BY <3>1, KeyIsNotNull DEF IsMakerUnit, Makes
  <2>3. v.model = w.model
    BY <2>2 DEF IsSourceFor
  <2> QED
    BY <2>1, <2>3, OneMaker
<1>2. CASE v.command \notin Makers /\ w.command \notin Makers
  <2>1. v.command = w.command
    BY <1>2 DEF Kind
  <2>2. CASE v.command \in Evaluators \cup {"VerifyModel"}
    <3>1. PICK c \in ConfigsOf(r), q \in ToSet(RunnerRegistry) : Evaluates(v, c, q, r)
      BY <2>2, KindsOfCommands DEF IsEvaluationUnit
    <3>2. PICK d \in ConfigsOf(r), p \in ToSet(RunnerRegistry) : Evaluates(w, d, p, r)
      BY <2>1, <2>2, KindsOfCommands DEF IsEvaluationUnit
    <3>3. /\ v.model # NullModel /\ v.runner # NullRunner
          /\ w.model # NullModel /\ w.runner # NullRunner
      BY <3>1, <3>2, KeyIsNotNull, RegisteredRunners DEF Evaluates
    <3>4. SameUnit(v, w)
      BY <2>1, <3>3 DEF IsSourceFor, SameUnit
    <3> QED
      BY <3>4, OneUnitAPlace
  <2>3. CASE v.command \notin Evaluators \cup {"VerifyModel"}
    <3>1. /\ IsPreparationUnit(v, r) \/ IsSearchUnit(v)
          /\ IsPreparationUnit(w, r) \/ IsSearchUnit(w)
      BY <1>2, <2>1, <2>3, UnitKinds, KindsOfCommands
    <3>2. SameUnit(v, w)
      BY <2>1, <3>1 DEF IsPreparationUnit, IsSearchUnit, SameUnit
    <3> QED
      BY <3>2, OneUnitAPlace
  <2> QED
    BY <2>2, <2>3
<1> QED
  BY <1>1, <1>2

\* The options of a unit's model and runner.
OptionsOf(u) ==
  (IF u.model = NullModel THEN {} ELSE FormatArgs(u.model[1]))
  \cup (IF u.runner = NullRunner THEN {} ELSE {"runner_cls"})

\* What a unit needs comes from the settings, its options, its own arguments and
\* from the commands that prepare the run, which have an earlier turn.
LEMMA UnitNeeds ==
  ASSUME NEW r \in Requests, NEW u \in UnitsOf(r), NEW a \in Needs[u.command],
         a \notin ConfigArgs \cup u.kwargs \cup OptionsOf(u)
  PROVE  \E c \in Preparing(r.flow) : a \in Outputs[c] /\ Turn[c] < Turn[u.command]
<1>1. \/ IsPreparationUnit(u, r) \/ IsSearchUnit(u)
      \/ IsMakerUnit(u, r) \/ IsEvaluationUnit(u, r)
  BY UnitKinds
<1>2. CASE a \in Prepared /\ ~IsPreparationUnit(u, r)
  <2>1. PICK c \in Preparing(r.flow) : a \in Outputs[c]
    BY <1>2, PreparedIsReturned
  <2>2. Turn[c] \in 1..5
    BY TurnsOfKinds
  <2>3. \/ u.command \in Makers \/ u.command = "FindMaxBatchSize"
        \/ u.command \in Evaluators \cup {"VerifyModel"}
    BY <1>1, <1>2, KindsOfCommands DEF IsSearchUnit
  <2>4. Turn[u.command] \in 6..20
    BY <2>3, TurnsOfKinds DEF Makers
  <2> QED
    BY <2>1, <2>2, <2>4
<1>3. CASE IsPreparationUnit(u, r)
  <2>1. CASE r.flow = "optimize"
    <3>1. u.command \in SourceCommands /\ Preparing(r.flow) = SourceCommands
      BY <1>3, <2>1 DEF IsPreparationUnit, Preparing
    <3>2. /\ u.command # "InferInputMetadata"
          /\ u.command = "FetchInputModelData" => a \in Outputs["InferInputMetadata"]
          /\ u.command = "InferOutputMetadata" =>
               a \in Outputs["InferInputMetadata"] \cup Outputs["FetchInputModelData"]
          /\ u.command = "FetchOutputModelData" =>
               a \in Outputs["InferInputMetadata"] \cup Outputs["InferOutputMetadata"]
      BY CommandNeeds
    <3>3. /\ Turn["InferInputMetadata"] = 1 /\ Turn["FetchInputModelData"] = 3
          /\ Turn["InferOutputMetadata"] = 4 /\ Turn["FetchOutputModelData"] = 5
      BY DEF Turn
    <3> QED
      BY <3>1, <3>2, <3>3 DEF SourceCommands
  <2>2. CASE r.flow # "optimize"
    <3>1. u.command = "LoadMetadata"
      BY <1>3, <2>2 DEF IsPreparationUnit, Preparing
    <3> QED
      BY <3>1, CommandNeeds
  <2> QED
    BY <2>1, <2>2
<1>4. CASE IsSearchUnit(u)
  <2>1. u.command = "FindMaxBatchSize" /\ u.kwargs = {"configurations"}
    BY <1>4, UnitArguments DEF IsSearchUnit, KwargsOf
  <2>2. a \in Prepared
    BY <2>1, CommandNeeds
  <2>3. ~IsPreparationUnit(u, r)
    BY <2>1 DEF IsPreparationUnit, Preparing, SourceCommands
  <2> QED
    BY <1>2, <2>2, <2>3
<1>5. CASE IsMakerUnit(u, r)
  <2>1. PICK c \in ConfigsOf(r) : Makes(u, c, r)
    BY <1>5 DEF IsMakerUnit
  <2>2. u.command \in Makers /\ u.command = MakerCommand(c, r.framework)
    BY <1>5, <2>1, KindsOfCommands DEF Makes
  <2>3. Needs[u.command] \subseteq ConfigArgs \cup FormatArgs(c.format) \cup Prepared
    BY <2>2, RequestedConfigs, MakersNeed
  <2>4. FormatArgs(c.format) \subseteq OptionsOf(u)
    BY <2>1, KeyIsNotNull DEF Makes, Key, OptionsOf
  <2>5. a \in Prepared
    BY <2>3, <2>4
  <2>6. ~IsPreparationUnit(u, r)
    BY <2>1, KeyIsNotNull DEF Makes, IsPreparationUnit
  <2> QED
    BY <1>2, <2>5, <2>6
<1>6. CASE IsEvaluationUnit(u, r)
  <2>1. PICK c \in ConfigsOf(r), q \in ToSet(RunnerRegistry) : Evaluates(u, c, q, r)
    BY <1>6 DEF IsEvaluationUnit
  <2>2. u.command \in Evaluators \cup {"VerifyModel"} /\ c.format \in Formats
    BY <1>6, KindsOfCommands, RequestedConfigs DEF Configs
  <2>3. Needs[u.command] \subseteq
          ConfigArgs \cup FormatArgs(c.format) \cup {"runner_cls"} \cup Prepared
    BY <2>2, EvaluationsNeed
  <2>4. FormatArgs(c.format) \cup {"runner_cls"} \subseteq OptionsOf(u)
    BY <2>1, KeyIsNotNull, RegisteredRunners DEF Evaluates, Key, OptionsOf
  <2>5. a \in Prepared
    BY <2>3, <2>4
  <2>6. ~IsPreparationUnit(u, r)
    BY <2>1, KeyIsNotNull DEF Evaluates, IsPreparationUnit
  <2> QED
    BY <1>2, <2>5, <2>6
<1> QED
  BY <1>1, <1>3, <1>4, <1>5, <1>6

\* No argument of a unit has two sources, wherever they are in the plan.
LEMMA NothingIsGivenTwice ==
  ASSUME NEW r \in Requests, NEW u \in UnitsOf(r)
  PROVE  /\ u.kwargs \cap ConfigArgs = {} /\ OptionsOf(u) \cap (ConfigArgs \cup u.kwargs) = {}
         /\ \A v \in UnitsOf(r) :
              Outputs[v.command] \cap (ConfigArgs \cup u.kwargs \cup OptionsOf(u)) = {}
         /\ \A v, w \in UnitsOf(r) :
              IsSourceFor(v, u) /\ IsSourceFor(w, u) /\ v # w =>
                Outputs[v.command] \cap Outputs[w.command] = {}
<1>1. /\ u.kwargs \subseteq {"configurations"}
      /\ OptionsOf(u) \subseteq OptionArgs \cup {"runner_cls"}
  BY UnitArguments, OptionArguments DEF OptionsOf
<1>2. u.kwargs \cap ConfigArgs = {} /\ OptionsOf(u) \cap (ConfigArgs \cup u.kwargs) = {}
  BY <1>1, OptionArguments
<1>3. \A v \in UnitsOf(r) : \A a \in Outputs[v.command] :
        a \in OutputArgs /\ Returning(a, r.flow) = Kind(v.command)
  BY UnitArguments, OutputsTellTheKind
<1>4. \A v \in UnitsOf(r) :
        Outputs[v.command] \cap (ConfigArgs \cup u.kwargs \cup OptionsOf(u)) = {}
  BY <1>1, <1>3, OutputsAreNotGiven
<1>5. ASSUME NEW v \in UnitsOf(r), NEW w \in UnitsOf(r),
             IsSourceFor(v, u), IsSourceFor(w, u), v # w
      PROVE  Outputs[v.command] \cap Outputs[w.command] = {}
  <2>1. Kind(v.command) # Kind(w.command)
    BY <1>5, OneSourceOfAKind
  <2> QED
    BY <1>3, <2>1
<1> QED
  BY <1>2, <1>4, <1>5

\* A mandatory argument that nothing gives comes from a preparing unit before.
LEMMA Provided == PlanIsOfRequest => NeedsAreProvided
<1> SUFFICES ASSUME PlanIsOfRequest PROVE NeedsAreProvided
  OBVIOUS
<1>1. CASE configs = <<>> /\ plan = <<>>
  BY <1>1, NothingPlanned DEF NeedsAreProvided
<1>2. CASE configs = AllConfigs(Lists(request)) /\ plan = PlanOf(request)
  <2>0. request \in Requests
    BY DEF PlanIsOfRequest
  <2>1. ASSUME NEW i \in DOMAIN plan
        PROVE  LET u == plan[i]
                   options == (IF u.model = NullModel THEN {} ELSE FormatArgs(u.model[1]))
                              \cup (IF u.runner = NullRunner THEN {} ELSE {"runner_cls"})
                   given == ConfigArgs \cup u.kwargs \cup options
                   sources == {j \in 1..(i - 1) :
                                 \/ plan[j].model = NullModel
                                 \/ /\ plan[j].model = u.model
                                    /\ plan[j].runner \in {NullRunner, u.runner}}
               IN /\ u.kwargs \cap ConfigArgs = {} /\ options \cap (ConfigArgs \cup u.kwargs) = {}
                  /\ \A j \in sources : Outputs[plan[j].command] \cap given = {}
                  /\ \A j, k \in sources :
                       j # k => Outputs[plan[j].command] \cap Outputs[plan[k].command] = {}
                  /\ Needs[u.command] \subseteq
                       given \cup UNION {Outputs[plan[j].command] :
                                         j \in {k \in sources : plan[k].command \in Required}}
    <3> DEFINE u == plan[i]
               options == (IF u.model = NullModel THEN {} ELSE FormatArgs(u.model[1]))
                          \cup (IF u.runner = NullRunner THEN {} ELSE {"runner_cls"})
               given == ConfigArgs \cup u.kwargs \cup options
               sources == {j \in 1..(i - 1) :
                             \/ plan[j].model = NullModel
                             \/ /\ plan[j].model = u.model
                                /\ plan[j].runner \in {NullRunner, u.runner}}
    <3>1. u \in UnitsOf(request) /\ i \in Nat /\ i <= Len(plan) /\ Len(plan) \in Nat
          /\ DOMAIN plan = 1..Len(plan)
      BY <1>2, <2>0, Planned
    <3>2. options = OptionsOf(u)
      BY DEF OptionsOf
    <3>3. \A j \in sources : /\ j \in DOMAIN plan /\ plan[j] \in UnitsOf(request)
                             /\ IsSourceFor(plan[j], u)
      <4>1. \A j \in 1..(i - 1) : j \in DOMAIN plan
        BY <3>1
      <4> QED
        BY <1>2, <2>0, <4>1, Planned DEF IsSourceFor
    <3>4. ASSUME NEW a \in Needs[u.command], a \notin given
          PROVE  \E j \in sources : plan[j].command \in Required /\ a \in Outputs[plan[j].command]
      <4>1. PICK c \in Preparing(request.flow) : a \in Outputs[c] /\ Turn[c] < Turn[u.command]
        BY <2>0, <3>1, <3>2, <3>4, UnitNeeds
      <4>2. GlobalUnit(c, {}) \in UnitsOf(request)
        BY <2>0, PlannedUnits
      <4>3. PICK j \in DOMAIN plan : plan[j] = GlobalUnit(c, {})
        BY <1>2, <2>0, <4>2, Planned
      <4>4. plan[j].command = c /\ plan[j].model = NullModel
        BY <4>3 DEF GlobalUnit
      <4>5. j < i
        BY <1>2, <2>0, <4>1, <4>4, Planned
      <4>6. j \in sources
        BY <3>1, <4>4, <4>5
      <4>7. c \in Required
        BY TurnsOfKinds
      <4> QED
        BY <4>1, <4>4, <4>6, <4>7
    <3> HIDE DEF u, sources, options
    <3>5. u.kwargs \cap ConfigArgs = {} /\ options \cap (ConfigArgs \cup u.kwargs) = {}
      BY <2>0, <3>1, <3>2, NothingIsGivenTwice
    <3>6. \A j \in sources : Outputs[plan[j].command] \cap given = {}
      BY <2>0, <3>1, <3>2, <3>3, NothingIsGivenTwice
    <3>7. ASSUME NEW j \in sources, NEW k \in sources, j # k
          PROVE  Outputs[plan[j].command] \cap Outputs[plan[k].command] = {}
      <4>1. plan[j] # plan[k]
        BY <1>2, <2>0, <3>3, <3>7, Planned
      <4> QED
        BY <2>0, <3>1, <3>3, <4>1, NothingIsGivenTwice
    <3>8. Needs[u.command] \subseteq
            given \cup UNION {Outputs[plan[j].command] :
                              j \in {k \in sources : plan[k].command \in Required}}
      BY <3>4
    <3> QED
      BY <3>5, <3>6, <3>7, <3>8 DEF u, sources, options
  <2> QED
    BY <2>1 DEF NeedsAreProvided
<1> QED
  BY <1>1, <1>2 DEF PlanIsOfRequest

-----------------------------------------------------------------------------
(* Every plan can be run: PlanRequirements holds of it.                    *)

ConfiguredKeys == {Key(c) : c \in Configured}
ConfigOfKey(m) == CHOOSE c \in Configured : Key(c) = m
RunnerNames == {q.name : q \in ToSet(RunnerRegistry)}

\* The requirements, read for the plan and the configurations of a state.
PlanFor == INSTANCE PlanRequirements WITH
  Plan <- plan, Models <- ConfiguredKeys, Runners <- RunnerNames,
  NoModel <- NullModel, NoRunner <- NullRunner,
  FormatOf <- [m \in ConfiguredKeys |-> ConfigOfKey(m).format],
  ParentOf <- [m \in ConfiguredKeys |-> ConfigOfKey(m).parent]

\* All that PipelineExecution assumes of its plan.
PlanCanBeRun ==
  /\ PlanFor!PlanIsTyped
  /\ PlanFor!ModelsAreTyped
  /\ PlanFor!RequirementsAreOrdered
  /\ PlanFor!ModelsAreMadeOnce
  /\ PlanFor!ArgumentsHaveOneSource

\* The instance reads the same tables of commands.
LEMMA SameTables ==
  /\ PlanFor!Commands = Commands /\ PlanFor!Formats = Formats /\ PlanFor!Makers = Makers
  /\ PlanFor!Evaluators = Evaluators /\ PlanFor!Required = Required
  /\ PlanFor!ConfigArgs = ConfigArgs
  /\ PlanFor!Outputs = Outputs /\ PlanFor!Needs = Needs
  /\ \A c : PlanFor!Requires(c) = Requires(c)
  /\ \A f : PlanFor!FormatArgs(f) = FormatArgs(f)
<1>1. /\ PlanFor!Exporters = Exporters /\ PlanFor!Converters = Converters
      /\ PlanFor!Evaluators = Evaluators /\ PlanFor!Required = Required
      /\ PlanFor!SourceFormats = SourceFormats
  BY DEF Exporters, Converters, Evaluators, Required, SourceFormats, PlanFor!Exporters,
         PlanFor!Converters, PlanFor!Evaluators, PlanFor!Required, PlanFor!SourceFormats
<1>2. PlanFor!Commands = Commands /\ PlanFor!Formats = Formats /\ PlanFor!Makers = Makers
  BY <1>1 DEF Commands, PlanFor!Commands, Formats, PlanFor!Formats, Makers, PlanFor!Makers
<1>3. PlanFor!SignatureOf = SignatureOf
  BY DEF SignatureOf, Signature, Described, ExportNeeds, EvaluationNeeds, InferInputMetadata,
         FetchInputModelData, InferOutputMetadata, FetchOutputModelData, LoadMetadata,
         FindMaxBatchSize, ExportTorch2TorchScript, ExportTorch2ONNX, ExportTF2SavedModel,
         ExportJAX2SavedModel, CopyONNX, ConvertTorchScript2ONNX,
         ConvertTorchScript2TorchTensorRT, ConvertSavedModel2ONNX, ConvertSavedModel2TFTRT,
         ConvertONNX2TRT, Correctness, Performance, Profile, VerifyModel, PlanFor!SignatureOf,
         PlanFor!Signature, PlanFor!Described, PlanFor!ExportNeeds, PlanFor!EvaluationNeeds,
         PlanFor!InferInputMetadata, PlanFor!FetchInputModelData, PlanFor!InferOutputMetadata,
         PlanFor!FetchOutputModelData, PlanFor!LoadMetadata, PlanFor!FindMaxBatchSize,
         PlanFor!ExportTorch2TorchScript, PlanFor!ExportTorch2ONNX, PlanFor!ExportTF2SavedModel,
         PlanFor!ExportJAX2SavedModel, PlanFor!CopyONNX, PlanFor!ConvertTorchScript2ONNX,
         PlanFor!ConvertTorchScript2TorchTensorRT, PlanFor!ConvertSavedModel2ONNX,
         PlanFor!ConvertSavedModel2TFTRT, PlanFor!ConvertONNX2TRT, PlanFor!Correctness,
         PlanFor!Performance, PlanFor!Profile, PlanFor!VerifyModel
<1>4. PlanFor!Outputs = Outputs /\ PlanFor!Needs = Needs
  BY <1>2, <1>3 DEF Outputs, PlanFor!Outputs, Needs, PlanFor!Needs
<1>5. PlanFor!ConfigArgs = ConfigArgs
  BY DEF ConfigArgs, PlanFor!ConfigArgs
<1>6. \A c : PlanFor!Requires(c) = Requires(c)
  BY DEF Requires, PlanFor!Requires
<1>7. \A f : PlanFor!FormatArgs(f) = FormatArgs(f)
  BY DEF FormatArgs, PlanFor!FormatArgs
<1> QED
  BY <1>1, <1>2, <1>4, <1>5, <1>6, <1>7

\* The configuration of a key.
LEMMA KeysOfConfigs ==
  ASSUME PlanIsOfRequest
  PROVE  /\ \A m \in ConfiguredKeys : ConfigOfKey(m) \in Configured /\ Key(ConfigOfKey(m)) = m
         /\ \A m \in ConfiguredKeys : ConfigOfKey(m).format = m[1] /\ m[1] \in Formats
         /\ NullModel \notin ConfiguredKeys
<1>1. Configured \subseteq Configs
  <2>1. CASE configs = <<>> /\ plan = <<>>
    BY <2>1, NothingPlanned
  <2>2. CASE configs = AllConfigs(Lists(request)) /\ plan = PlanOf(request)
    BY <2>2, Planned, RequestedConfigs DEF PlanIsOfRequest
  <2> QED
    BY <2>1, <2>2 DEF PlanIsOfRequest
<1>2. \A m \in ConfiguredKeys : ConfigOfKey(m) \in Configured /\ Key(ConfigOfKey(m)) = m
  BY DEF ConfiguredKeys, ConfigOfKey
<1>3. \A m \in ConfiguredKeys : ConfigOfKey(m).format = m[1] /\ m[1] \in Formats
  BY <1>1, <1>2 DEF Key, Configs
<1>4. NullModel \notin ConfiguredKeys
  BY KeyIsNotNull DEF ConfiguredKeys
<1> QED
  BY <1>2, <1>3, <1>4

\* The units of a plan name its configurations and registered runners.
LEMMA UnitsAreTyped ==
  ASSUME PlanIsOfRequest, NEW i \in DOMAIN plan
  PROVE  /\ plan[i] = [command |-> plan[i].command, model |-> plan[i].model,
                       runner |-> plan[i].runner, kwargs |-> plan[i].kwargs]
         /\ plan[i].command \in Commands
         /\ plan[i].model \in ConfiguredKeys \cup {NullModel}
         /\ plan[i].runner \in RunnerNames \cup {NullRunner}
         /\ plan[i].kwargs \subseteq {"configurations"}
         /\ plan[i].model = NullModel => plan[i].runner = NullRunner
<1> DEFINE u == plan[i]
<1>1. /\ request \in Requests /\ u \in UnitsOf(request)
      /\ Configured = ConfigsOf(request)
  BY NothingPlanned, Planned DEF PlanIsOfRequest
<1>2. u = [command |-> u.command, model |-> u.model, runner |-> u.runner,
           kwargs |-> KwargsOf(u.command)]
  BY <1>1, UnitKinds
<1>3. u.command \in CommandsIn(request.flow) /\ u.kwargs \subseteq {"configurations"}
  BY <1>1, UnitArguments
<1>4. u.command \in Commands
  BY <1>3, TurnsOfKinds DEF CommandsIn, Makers, Commands
<1>5. \/ IsPreparationUnit(u, request) \/ IsSearchUnit(u)
      \/ IsMakerUnit(u, request) \/ IsEvaluationUnit(u, request)
  BY <1>1, UnitKinds
<1>6. u.model \in ConfiguredKeys \cup {NullModel} /\ u.runner \in RunnerNames \cup {NullRunner}
  <2>1. CASE IsMakerUnit(u, request)
    BY <1>1, <2>1 DEF IsMakerUnit, Makes, ConfiguredKeys
  <2>2. CASE IsEvaluationUnit(u, request)
    BY <1>1, <2>2 DEF IsEvaluationUnit, Evaluates, ConfiguredKeys, RunnerNames
  <2> QED
    BY <1>5, <2>1, <2>2 DEF IsPreparationUnit, IsSearchUnit
<1>7. u.model = NullModel => u.runner = NullRunner
  BY <1>5, KeyIsNotNull
     DEF IsPreparationUnit, IsSearchUnit, IsMakerUnit, Makes, IsEvaluationUnit, Evaluates
<1> QED
  BY <1>2, <1>3, <1>4, <1>6, <1>7

\* The plan and its models have the types PlanRequirements gives them.
LEMMA PlanTyped == PlanIsOfRequest => PlanFor!PlanIsTyped /\ PlanFor!ModelsAreTyped
<1> SUFFICES ASSUME PlanIsOfRequest PROVE PlanFor!PlanIsTyped /\ PlanFor!ModelsAreTyped
  OBVIOUS
<1>1. plan \in Seq(PlanFor!Units)
  <2>1. ASSUME NEW i \in DOMAIN plan PROVE plan[i] \in PlanFor!Units
    <3>1. plan[i].kwargs \in SUBSET PlanFor!Keywords
      <4>1. "configurations" \in Needs["FindMaxBatchSize"]
        BY DEF Needs, Commands, SignatureOf, FindMaxBatchSize, Signature
      <4>2. "FindMaxBatchSize" \in Commands /\ "configurations" \notin ConfigArgs
        BY OptionArguments DEF Commands
      <4>3. "configurations" \in PlanFor!Keywords
        BY <4>1, <4>2, SameTables DEF PlanFor!Keywords
      <4> QED
        BY <4>3, UnitsAreTyped
    <3>2. plan[i] \in [command : Commands, model : ConfiguredKeys \cup {NullModel},
                       runner : RunnerNames \cup {NullRunner}, kwargs : SUBSET PlanFor!Keywords]
      BY <3>1, UnitsAreTyped
    <3> QED
      BY <3>2, UnitsAreTyped, SameTables DEF PlanFor!Units
  <2>2. CASE configs = <<>> /\ plan = <<>>
    BY <2>2
  <2>3. CASE configs = AllConfigs(Lists(request)) /\ plan = PlanOf(request)
    <3>1. plan \in Seq(UnitsOf(request))
      <4>1. request \in Requests
        BY DEF PlanIsOfRequest
      <4>2. Segment(plan, UnitsOf(request), 1, 20)
        BY <2>3, <4>1, PlansAreOrdered
      <4> QED
        BY <4>2 DEF Segment, Enumerates
    <3> DEFINE t == plan
               X == UnitsOf(request)
               Y == PlanFor!Units
    <3>2. t \in Seq(X) /\ \A i \in DOMAIN t : t[i] \in Y
      BY <2>1, <3>1
    <3> HIDE DEF t, X, Y
    <3>3. t \in Seq(Y)
      BY <3>2
    <3> QED
      BY <3>3 DEF t, Y
  <2> QED
    BY <2>2, <2>3 DEF PlanIsOfRequest
<1>2. NullModel \notin ConfiguredKeys
  BY KeysOfConfigs
<1>3. NullRunner \notin RunnerNames
  BY RegisteredRunners DEF RunnerNames
<1>4. [m \in ConfiguredKeys |-> ConfigOfKey(m).format] \in [ConfiguredKeys -> PlanFor!Formats]
  BY KeysOfConfigs, SameTables
<1>5. [m \in ConfiguredKeys |-> ConfigOfKey(m).parent]
        \in [ConfiguredKeys -> ConfiguredKeys \cup {NullModel}]
  <2>1. \A m \in ConfiguredKeys : ConfigOfKey(m).parent \in ConfiguredKeys \cup {NullModel}
    BY KeysOfConfigs, ParentsFirst DEF ParentsAreMadeFirst, ConfiguredKeys
  <2> QED
    BY <2>1
<1> QED
  BY <1>1, <1>2, <1>3, <1>4, <1>5 DEF PlanFor!PlanIsTyped, PlanFor!ModelsAreTyped

\* A required command is found before (RequirementsFirst) and only once.
LEMMA PlanOrdered == PlanIsOfRequest => PlanFor!RequirementsAreOrdered
<1> SUFFICES ASSUME PlanIsOfRequest,
                    NEW i \in DOMAIN plan, NEW j \in DOMAIN plan,
                    plan[j].command \in Requires(plan[i].command),
                    plan[j].model = plan[i].model, plan[j].runner = plan[i].runner
             PROVE  j < i
  BY SameTables DEF PlanFor!RequirementsAreOrdered
<1> DEFINE w == [plan[i] EXCEPT !.command = plan[j].command]
<1>1. PICK k \in 1..(i - 1) : SameUnit(plan[k], w)
  BY RequirementsFirst DEF RequirementsComeFirst
<1>2. /\ request \in Requests /\ Len(plan) \in Nat /\ DOMAIN plan = 1..Len(plan)
  BY NothingPlanned, Planned DEF PlanIsOfRequest
<1>3. k \in DOMAIN plan /\ k < i
  BY <1>1, <1>2
<1>4. w = [command |-> plan[j].command, model |-> plan[i].model,
           runner |-> plan[i].runner, kwargs |-> plan[i].kwargs]
  BY UnitsAreTyped
<1>5. SameUnit(plan[k], plan[j])
  BY <1>1, <1>4 DEF SameUnit
<1>6. k = j
  BY <1>3, <1>5, OverwritingNothing DEF NothingIsOverwritten
<1> QED
  BY <1>3, <1>6

\* One maker per model (OneMaker), with a turn before the evaluations.
LEMMA PlanMakesOnce == PlanIsOfRequest => PlanFor!ModelsAreMadeOnce
<1> SUFFICES ASSUME PlanIsOfRequest, NEW i \in DOMAIN plan, plan[i].command \in Makers
             PROVE  /\ plan[i].model # NullModel
                    /\ \A j \in DOMAIN plan : plan[j].model = plan[i].model =>
                         /\ plan[j].command \in Makers => j = i
                         /\ plan[j].command \in Evaluators => i < j
  BY SameTables DEF PlanFor!ModelsAreMadeOnce
<1>1. request \in Requests /\ configs = AllConfigs(Lists(request)) /\ plan = PlanOf(request)
  BY NothingPlanned DEF PlanIsOfRequest
<1>2. plan[i] \in UnitsOf(request)
  BY <1>1, Planned
<1>3. plan[i].model # NullModel
  BY <1>1, <1>2, KindsOfCommands, KeyIsNotNull DEF IsMakerUnit, Makes
<1>4. ASSUME NEW j \in DOMAIN plan, plan[j].model = plan[i].model, plan[j].command \in Makers
      PROVE  j = i
  <2>1. plan[j] = plan[i]
    BY <1>1, <1>2, <1>4, Planned, OneMaker
  <2> QED
    BY <1>1, <2>1, Planned
<1>5. ASSUME NEW j \in DOMAIN plan, plan[j].command \in Evaluators
      PROVE  i < j
  <2>1. Turn[plan[i].command] < Turn[plan[j].command]
    BY <1>5, TurnsOfKinds DEF Makers
  <2> QED
    BY <1>1, <2>1, Planned
<1> QED
  BY <1>3, <1>4, <1>5

\* NeedsAreProvided, in the words of PlanRequirements.
LEMMA PlanProvides == PlanIsOfRequest => PlanFor!ArgumentsHaveOneSource
<1> SUFFICES ASSUME PlanIsOfRequest, NEW i \in DOMAIN plan
             PROVE  LET u == plan[i] IN
                    /\ u.kwargs \cap ConfigArgs = {}
                    /\ PlanFor!ModelArgs(u) \cap (ConfigArgs \cup u.kwargs) = {}
                    /\ \A j \in PlanFor!Sources(i) :
                         /\ Outputs[plan[j].command] \cap PlanFor!Given(u) = {}
                         /\ \A k \in PlanFor!Sources(i) :
                              PlanFor!Id(plan[k]) # PlanFor!Id(plan[j]) =>
                                Outputs[plan[j].command] \cap Outputs[plan[k].command] = {}
                    /\ Needs[u.command] \subseteq
                         PlanFor!Given(u)
                         \cup UNION {Outputs[plan[j].command] :
                                j \in {k \in PlanFor!Sources(i) : plan[k].command \in Required}}
  BY SameTables DEF PlanFor!ArgumentsHaveOneSource
<1> DEFINE u == plan[i]
           options == (IF u.model = NullModel THEN {} ELSE FormatArgs(u.model[1]))
                      \cup (IF u.runner = NullRunner THEN {} ELSE {"runner_cls"})
           given == ConfigArgs \cup u.kwargs \cup options
           sources == {j \in 1..(i - 1) :
                         \/ plan[j].model = NullModel
                         \/ /\ plan[j].model = u.model
                            /\ plan[j].runner \in {NullRunner, u.runner}}
<1>1. /\ u.kwargs \cap ConfigArgs = {} /\ options \cap (ConfigArgs \cup u.kwargs) = {}
      /\ \A j \in sources : Outputs[plan[j].command] \cap given = {}
      /\ \A j, k \in sources :
           j # k => Outputs[plan[j].command] \cap Outputs[plan[k].command] = {}
      /\ Needs[u.command] \subseteq
           given \cup UNION {Outputs[plan[j].command] :
                             j \in {k \in sources : plan[k].command \in Required}}
  BY Provided DEF NeedsAreProvided
<1>2. PlanFor!Sources(i) = sources
  BY DEF PlanFor!Sources
<1>3. u.model = NullModel => u.runner = NullRunner
  BY UnitsAreTyped
<1>4. PlanFor!ModelArgs(u) = options
  <2>1. CASE u.model = NullModel
    BY <1>3, <2>1 DEF PlanFor!ModelArgs
  <2>2. CASE u.model # NullModel
    <3>1. u.model \in ConfiguredKeys
      BY <2>2, UnitsAreTyped
    <3>2. [m \in ConfiguredKeys |-> ConfigOfKey(m).format][u.model] = u.model[1]
      BY <3>1, KeysOfConfigs
    <3> QED
      BY <2>2, <3>2, SameTables DEF PlanFor!ModelArgs
  <2> QED
    BY <2>1, <2>2
<1>5. PlanFor!Given(u) = given
  BY <1>4, SameTables DEF PlanFor!Given
<1>6. \A j, k : PlanFor!Id(plan[k]) # PlanFor!Id(plan[j]) => j # k
  OBVIOUS
<1> HIDE DEF u, options, given, sources
<1> QED
  BY <1>1, <1>2, <1>4, <1>5, <1>6 DEF u

\* Every plan that is built, for whatever framework, targets, device, options and
\* runners, satisfies all that PipelineExecution assumes of the plan it runs.
THEOREM PlansCanBeRun == Planning => []PlanCanBeRun
<1>1. PlanIsOfRequest => PlanCanBeRun
  BY PlanTyped, PlanOrdered, PlanMakesOnce, PlanProvides DEF PlanCanBeRun
<1> QED
  BY <1>1, PlansOfRequests, PTL

\* No two units of a plan record their status at the same place and no two
\* configurations have the same key.
THEOREM PlansOverwriteNothing == Planning => []NothingIsOverwritten
BY OverwritingNothing, PlansOfRequests, PTL

\* Every parent is among the configurations, and is made before its children.
THEOREM PlansMakeParentsFirst == Planning => []ParentsAreMadeFirst
BY ParentsFirst, PlansOfRequests, PTL

\* A model that is evaluated is made before, by one command in a run from the
\* source and by at most one in a run on a package.
THEOREM PlansMakeWhatTheyEvaluate == Planning => []EvaluatedModelsAreMade
BY ModelsAreMade, PlansOfRequests, PTL

\* The commands a unit requires come before it, for its model and runner.
THEOREM PlansVerifyLast == Planning => []RequirementsComeFirst
BY RequirementsFirst, PlansOfRequests, PTL

\* Every unit finds its mandatory arguments, and none of them twice.
THEOREM PlansProvideNeeds == Planning => []NeedsAreProvided
BY Provided, PlansOfRequests, PTL

\* The device's batch size is searched for after all exports and before all
\* conversions.
THEOREM PlansSearchBetween == Planning => []SearchComesBetween
BY SearchBetween, PlansOfRequests, PTL
=============================================================================
