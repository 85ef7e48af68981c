---------------------------- MODULE StatusUpdate ----------------------------
(***************************************************************************)
(* status.yaml of a package, from any version of its format to a Status    *)
(* object (package/status.py), and back to the file.                       *)
(*                                                                         *)
(* Until version 0.1.4 the file lists models with results per runtime;     *)
(* since 0.2.0 it maps keys to configurations with results per runner.     *)
(* Updates are applied one after the other, on the dictionary itself.  A   *)
(* model's files lie where its path said when it was made; the path of a   *)
(* loaded configuration is computed anew from its options and those of its *)
(* parents.                                                                *)
(*                                                                         *)
(* Versions are numbers: 14 is 0.1.4, and 0 a file without one.  A key is  *)
(* the sequence of its parts.  What the dictionaries of a package hold     *)
(* besides models is the set of the fields that matter.                    *)
(*                                                                         *)
(* A definition introduced by "Fault" is a plausible bug in the definition *)
(* after it, with which TLC refutes the property named; nothing uses it.   *)
(***************************************************************************)
EXTENDS Naturals, Sequences, FiniteSets, FiniteSetsExt

CONSTANTS
    Packages,       \* files as older and current versions wrote them
    MaxLoads        \* how often a package is loaded, and saved in between

VARIABLES
    file,           \* status.yaml
    first,          \* the file as it was before the first load
    dict,           \* the dictionary that is being updated
    version,        \* the version of the dictionary
    pc,             \* "stored", "failed", "loaded", or the next step
    status,         \* the Status object: a model per key
    loads

vars == <<file, first, dict, version, pc, status, loads>>

NoModels == << >>
NoDict   == [shape |-> "none"]

Init ==
    /\ file \in Packages /\ first = file
    /\ dict = NoDict /\ version = 0 /\ pc = "stored" /\ status = NoModels
    /\ loads = 0

----------------------------------------------------------------------------
(* Reading the version *)

\* Fault (EvaluationsSurvive): the files that 0.1.1 wrote are not told apart.
VersionAsWritten(d) == IF d.version = 0 THEN 10 ELSE d.version

\* _extract_format_version: 0.1.1 wrote 0.1.0.
ExtractVersion(d) ==
    IF d.version \in {0, 10} /\ "optimization_profile" \in d.export_config THEN 11
    ELSE IF d.version = 0 THEN 10 ELSE d.version

Load ==
    /\ pc \in {"stored", "failed"} /\ loads < MaxLoads
    /\ loads' = loads + 1
    /\ dict' = file /\ version' = ExtractVersion(file)
    /\ pc' = "update_0_1_0"
    /\ UNCHANGED <<file, first, status>>

----------------------------------------------------------------------------
(* StatusDictUpdater.update: every update that is not older than the file *)

Due(v) == version <= v

Updated(d, next) == dict' = d /\ pc' = next /\ UNCHANGED <<file, first, version, status, loads>>

\* A key that is not in the dictionary.
Fails == pc' = "failed" /\ UNCHANGED <<file, first, dict, version, status, loads>>

\* Results with a single latency get the other statistics as None.
WithStatistics(model) ==
    [model EXCEPT !.results = [r \in DOMAIN @ |-> [@[r] EXCEPT !.statistics = TRUE]]]

\* Results of a file that has all statistics have no single latency.
HasLatencies(d) ==
    \A m \in d.models : \A r \in DOMAIN m.results :
        m.results[r].sizes # {} => ~m.results[r].statistics

\* _update_from_v0_1_0 looks for precision_mode in config, which files of that
\* time do not have.
UpdateFrom010 ==
    /\ pc = "update_0_1_0"
    /\ IF ~Due(10) THEN Updated(dict, "update_0_1_2")
       ELSE IF dict.framework = "pytorch" \/ ~HasLatencies(dict) THEN Fails
       ELSE Updated([dict EXCEPT !.models = {WithStatistics(m) : m \in @},
                                 !.export_config = @ \cup {"optimization_profile"}],
                    "update_0_1_2")

\* _update_from_v0_1_2
WithPrecision(model) ==
    IF model.format = "torch-trt" /\ model.precision = "none"
    THEN [model EXCEPT !.precision = "fp32"] ELSE model

UpdateFrom012 ==
    /\ pc = "update_0_1_2"
    /\ IF ~Due(12) THEN Updated(dict, "update_0_1_3")
       ELSE IF "trt_dynamic_axes" \notin dict.export_config THEN Fails
       ELSE Updated([dict EXCEPT !.models = {WithPrecision(m) : m \in @}], "update_0_1_3")

\* _update_from_v0_1_3
UpdateFrom013 ==
    /\ pc = "update_0_1_3"
    /\ IF ~Due(13) THEN Updated(dict, "update_0_1_4")
       ELSE Updated([dict EXCEPT !.export_config =
                        IF "onnx_runtimes" \in @ THEN (@ \ {"onnx_runtimes"}) \cup {"runtimes"} ELSE @],
                    "update_0_1_4")

\* _runtime2runners_for_0_1_4
NoRunner == "none"

RunnerOf(format, runtime) ==
    CASE format = "onnx" /\ runtime = "CPUExecutionProvider"              -> "OnnxCPU"
      [] format = "onnx" /\ runtime = "CUDAExecutionProvider"             -> "OnnxCUDA"
      [] format = "onnx" /\ runtime = "TensorrtExecutionProvider"         -> "OnnxTensorRT"
      [] format = "trt" /\ runtime = "TensorrtExecutionProvider"          -> "TensorRT"
      [] format = "tf-trt" /\ runtime = "TensorFlowExecutionProvider"     -> "TensorFlowTensorRT"
      [] format = "tf-savedmodel" /\ runtime = "TensorFlowExecutionProvider" -> "TensorFlowSavedModel"
      [] format = "torch-trt" /\ runtime = "PyTorchExecutionProvider"     -> "TorchTensorRT"
      [] format = "torchscript" /\ runtime = "PyTorchExecutionProvider"   -> "TorchScriptCUDA"
      [] format = "trt" /\ runtime = "TrtexecExecutionProvider"           -> NoRunner

\* What the result says of correctness, performance and verification.
StatusOf(result) ==
    [Correctness |-> IF result.tolerance THEN "OK" ELSE "FAIL",
     Performance |-> IF ~result.tolerance THEN "SKIPPED"
                     ELSE IF result.sizes = {} THEN "FAIL" ELSE "OK",
     VerifyModel |-> IF result.tolerance /\ result.sizes # {} /\ result.verified THEN "OK"
                     ELSE "SKIPPED"]

RunnersStatus(model) ==
    LET known == {r \in DOMAIN model.results : RunnerOf(model.format, r) # NoRunner} IN
    [n \in {RunnerOf(model.format, r) : r \in known} |->
        LET r == CHOOSE r \in known : RunnerOf(model.format, r) = n
        IN [status |-> StatusOf(model.results[r]), sizes |-> model.results[r].sizes]]

\* The configuration has no parent and keeps the options it finds.
ModelStatusOf(model) ==
    [key |-> model.key, format |-> model.format, parent_key |-> << >>,
     jit_type |-> model.jit_type, precision |-> model.precision, compile |-> model.compile,
     runners |-> RunnersStatus(model)]

\* _config_from_0_1_4: the custom configurations take the profile of the
\* dynamic axes, and the runners have the names of the runtimes.
ConfigOf(fields) ==
    {"custom_configs"} \cup (fields \cap {"optimization_profile"})
    \cup (IF "runtimes" \in fields THEN {"runner_names"} ELSE {})

\* _get_dataloader_max_batch_size_for_0_1_4
MaxSize(models) ==
    Max({1} \cup UNION {UNION {m.runners[n].sizes : n \in DOMAIN m.runners} : m \in models})

\* _update_from_v0_1_4: models without a path are left out.
UpdateFrom014 ==
    /\ pc = "update_0_1_4"
    /\ IF ~Due(14) THEN Updated(dict, "update_0_2_1")
       ELSE LET models == {ModelStatusOf(m) : m \in {m \in dict.models : m.path}} IN
            Updated([shape |-> "new", version |-> dict.version, models |-> models,
                     config |-> ConfigOf(dict.export_config), max_batch_size |-> MaxSize(models)],
                    "update_0_2_1")

\* _update_from_v0_2_1
UpdateFrom021 ==
    /\ pc = "update_0_2_1"
    /\ Updated(IF Due(21) /\ "profiler_config" \in dict.config
               THEN [dict EXCEPT !.config = (@ \ {"profiler_config"}) \cup {"optimization_profile"}]
               ELSE dict, "build")

----------------------------------------------------------------------------
(* Status.from_dict and to_dict *)

\* The options _from_dict of the format's configuration reads.
ReadOptions(model) ==
    [jit_type  |-> IF model.format = "torchscript" THEN model.jit_type ELSE "none",
     precision |-> IF model.format \in {"trt", "tf-trt", "torch-trt"} THEN model.precision ELSE "none",
     compile   |-> IF model.format = "tf-savedmodel" THEN model.compile ELSE {}]

\* _get_path_params_as_array_of_strings
PathParams(options) ==
    (IF options.jit_type = "none" THEN << >> ELSE <<options.jit_type>>)
    \o (IF "jit" \in options.compile THEN <<"jit">> ELSE << >>)
    \o (IF "xla" \in options.compile THEN <<"xla">> ELSE << >>)
    \o (IF options.precision = "none" THEN << >> ELSE <<options.precision>>)

\* Fault (ModelsAreFoundAgain): the parents are not looked up.
NoParent(model) == << >>

\* RunnerStatus.from_dict keeps the results of commands that are OK.
OkResults(runner) ==
    IF runner.status.Performance = "OK" THEN runner ELSE [runner EXCEPT !.sizes = {}]

\* The parent is the model of the dictionary with that key.
ParentKey(model) ==
    IF \E p \in dict.models : p.key = model.parent_key THEN model.parent_key ELSE << >>

Build ==
    /\ pc = "build"
    /\ status' = [k \in {m.key : m \in dict.models} |->
                    LET m == CHOOSE m \in dict.models : m.key = k IN
                    [format |-> m.format, options |-> ReadOptions(m), parent |-> ParentKey(m),
                     runners |-> [n \in DOMAIN m.runners |-> OkResults(m.runners[n])]]]
    /\ pc' = "loaded"
    /\ UNCHANGED <<file, first, dict, version, loads>>

\* ModelConfig.key: the format, and the parameters from the oldest ancestor
\* down.  A model has fewer ancestors than there are models; n counts those
\* that are looked at.
Lineage ==
    LET lineage[n \in 0 .. Cardinality(DOMAIN status)] ==
            [k \in DOMAIN status |->
                IF n = 0 \/ status[k].parent = << >> THEN PathParams(status[k].options)
                ELSE lineage[n - 1][status[k].parent] \o PathParams(status[k].options)]
    IN lineage

Key(k) == <<status[k].format>> \o Lineage[Cardinality(DOMAIN status)][k]

\* to_dict writes the keys anew, under the ones of the dictionary.
Save ==
    /\ pc = "loaded"
    /\ file' = [shape |-> "new", version |-> 22, config |-> dict.config,
                max_batch_size |-> dict.max_batch_size, export_config |-> {},
                models |-> {[key |-> k, format |-> status[k].format,
                             parent_key |-> IF status[k].parent = << >> THEN << >>
                                            ELSE Key(status[k].parent),
                             jit_type |-> status[k].options.jit_type,
                             precision |-> status[k].options.precision,
                             compile |-> status[k].options.compile,
                             runners |-> status[k].runners] : k \in DOMAIN status}]
    /\ pc' = "stored" /\ dict' = NoDict /\ version' = 0 /\ status' = NoModels
    /\ UNCHANGED <<first, loads>>

Next ==
    \/ Load \/ UpdateFrom010 \/ UpdateFrom012 \/ UpdateFrom013 \/ UpdateFrom014 \/ UpdateFrom021
    \/ Build \/ Save

Spec == Init /\ [][Next]_vars

----------------------------------------------------------------------------
(* What the versions wrote *)

\* The runtimes that were profiled for a format.
RuntimesOf(format) ==
    CASE format = "onnx" ->
            {"CPUExecutionProvider", "CUDAExecutionProvider", "TensorrtExecutionProvider"}
      [] format = "trt" -> {"TensorrtExecutionProvider", "TrtexecExecutionProvider"}
      [] format \in {"tf-trt", "tf-savedmodel"} -> {"TensorFlowExecutionProvider"}
      [] format \in {"torch-trt", "torchscript"} -> {"PyTorchExecutionProvider"}

Formats == {"onnx", "trt", "tf-trt", "tf-savedmodel", "torch-trt", "torchscript"}

\* What a key is made of.
JitTypes == {"none", "script", "trace"}
Precisions == {"none", "int8", "fp16", "fp32"}
Words == Formats \cup JitTypes \cup Precisions \cup {"jit", "xla"}

\* The formats a format is converted from (ModelConfigBuilder).
ParentFormats(format) ==
    CASE format = "onnx"      -> {"tf-savedmodel", "torchscript"}
      [] format = "trt"       -> {"onnx"}
      [] format = "tf-trt"    -> {"tf-savedmodel"}
      [] format = "torch-trt" -> {"torchscript"}
      [] OTHER                -> {}

\* Where the files of a model without a parent lie.
OwnKey(model) == <<model.format>> \o PathParams(ReadOptions(model))

\* A model in the old format: files only of models that were made, sizes only
\* for runtimes that were correct, and nothing of the parents but the path.
OldModel(m) ==
    /\ DOMAIN m = {"key", "format", "jit_type", "precision", "compile", "path", "results"}
    /\ m.key \in Seq(Words) /\ m.format \in Formats /\ m.path \in BOOLEAN
    /\ m.jit_type \in JitTypes /\ m.precision \in Precisions
    /\ m.path /\ m.format # "torch-trt" => m.key = OwnKey(m)
    /\ DOMAIN m.results \subseteq RuntimesOf(m.format)
    /\ m.results \in [DOMAIN m.results -> [tolerance : BOOLEAN, sizes : SUBSET Nat,
                                           verified : BOOLEAN, statistics : BOOLEAN]]
    /\ \A r \in DOMAIN m.results : m.results[r].sizes # {} => m.results[r].tolerance

SizesIn(models) == UNION {UNION {m.results[r].sizes : r \in DOMAIN m.results} : m \in models}

\* Versions before 0.1.3 had the dynamic axes, 0.1.0 single latencies.
OldPackage(p) ==
    /\ DOMAIN p = {"shape", "version", "framework", "export_config", "models"}
    /\ p.shape = "old" /\ p.version \in {0, 10, 12, 13, 14}
    /\ \A m \in p.models : OldModel(m)
    /\ \A m, n \in p.models : m.path /\ n.path /\ m.key = n.key => m = n
    /\ IsFiniteSet(p.models) /\ IsFiniteSet(SizesIn(p.models))
    /\ p.version <= 12 => "trt_dynamic_axes" \in p.export_config
    /\ p.version <= 10 /\ "optimization_profile" \notin p.export_config => HasLatencies(p)

\* A model in the new format: its parent is in the file, and its key goes on
\* from the parent's.
NewModel(m, models) ==
    /\ m.key \in Seq(Words) /\ m.format \in Formats
    /\ m.jit_type \in JitTypes /\ m.precision \in Precisions
    /\ IF m.parent_key = << >> THEN m.key = OwnKey(m)
       ELSE \E p \in models :
               /\ p.key = m.parent_key /\ p.format \in ParentFormats(m.format)
               /\ m.key = <<m.format>> \o Tail(p.key) \o PathParams(ReadOptions(m))
    /\ m.runners \in [DOMAIN m.runners ->
            [status : [Correctness : STRING, Performance : STRING, VerifyModel : STRING],
             sizes : SUBSET Nat]]
    /\ \A n \in DOMAIN m.runners :
          m.runners[n].sizes # {} => m.runners[n].status.Performance = "OK"

NewPackage(p) ==
    /\ DOMAIN p = {"shape", "version", "framework", "export_config", "config",
                   "max_batch_size", "models"}
    /\ p.shape = "new" /\ p.version \in {20, 21, 22}
    /\ \A m \in p.models : NewModel(m, p.models)
    /\ \A m, n \in p.models : m.key = n.key => m = n
    /\ IsFiniteSet(p.models)

ASSUME PackagesAssumption == \A p \in Packages : OldPackage(p) \/ NewPackage(p)

----------------------------------------------------------------------------
(* Properties *)

\* Whatever version wrote a package, what was evaluated then is known after
\* any number of loads: a model that has files is a model of the status, its
\* results are those of the runner the runtime has become, no runner gained a
\* command it did not pass, and the largest batch is the dataloader's.  Only
\* PyTorch packages of 0.1.0 cannot be loaded (StatusDictUpdater).
EvaluationsSurvive ==
    /\ pc = "failed" => first.framework = "pytorch" /\ first.version \in {0, 10}
    /\ pc = "loaded" /\ first.shape = "old" =>
          /\ DOMAIN status = {m.key : m \in {m \in first.models : m.path}}
          /\ \A m \in first.models : \A r \in DOMAIN m.results :
                m.path /\ RunnerOf(m.format, r) # NoRunner =>
                    LET after == status[m.key].runners[RunnerOf(m.format, r)]
                        result == m.results[r] IN
                    /\ after.sizes = result.sizes
                    /\ after.status.Correctness = "OK" <=> result.tolerance
                    /\ after.status.Performance = "OK" <=> result.tolerance /\ result.sizes # {}
                    /\ after.status.VerifyModel = "OK" => result.verified
                    /\ \A s \in result.sizes : s <= dict.max_batch_size
    /\ pc = "loaded" /\ first.shape = "new" =>
          \A m \in first.models : status[m.key].runners = m.runners

\* A loaded model is looked for where its files lie, load after load
\* (ModelConfig.path, Status.from_dict): its options and its parents' came
\* back.  Torch-TensorRT models of 0.1.4 and before are the exception, see
\* EveryModelIsFoundAgain.
ModelsAreFoundAgain ==
    pc = "loaded" => \A k \in DOMAIN status :
        Key(k) = k \/ (first.shape = "old" /\ status[k].format = "torch-trt")

\* ModelConfig.path is the "path to model checkpoint" of every model of a
\* package in a version the API supports, 0.1.4 and later.  It is not: in a
\* file of 0.1.4 only the path tells which TorchScript a Torch-TensorRT model
\* was made of, and the loaded configuration has lost it.
EveryModelIsFoundAgain ==
    pc = "loaded" /\ first.version >= 14 => \A k \in DOMAIN status : Key(k) = k
=============================================================================
