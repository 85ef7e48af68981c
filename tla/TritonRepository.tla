-------------------------- MODULE TritonRepository --------------------------
(***************************************************************************)
(* A Triton model repository that add_model and add_model_from_package     *)
(* fill, one model name of it (triton/model_repository.py).                *)
(*                                                                         *)
(* A deployment copies the model into the directory of its version, piece  *)
(* by piece, and then writes config.pbtxt, which all versions share.  It   *)
(* may raise or be killed between any two of these steps, and the next     *)
(* deployment finds what it left.  Models are told apart by the number of  *)
(* their deployment.  Whether a model is a file or a directory is seen     *)
(* from model_path alone; its backend only names the place it goes to.     *)
(*                                                                         *)
(* A definition introduced by "Fault" is a plausible bug in the definition *)
(* after it, with which TLC refutes the property named; nothing uses it.   *)
(***************************************************************************)
EXTENDS TritonModelConfig

CONSTANTS
    Versions,       \* versions a model may be deployed as
    Uploads,        \* [config, source]: what users pass to add_model
    Runtimes,       \* runtimes a package may have measured
    Measurements,   \* what profiling may have found: batch sizes per runtime
    MaxCalls        \* bound on deployments

\* Flags, sizes and the options an initial state may have are numbers.
TypedSettings(config) ==
    /\ config.batching \in {0, 1} /\ config.max_batch_size \in Nat
    /\ config.batcher.kind = "sequence" =>
          \A state \in config.batcher.states : \A initial \in state.initial_states :
             initial.zero_data \in Nat /\ initial.data_file \in Nat

\* What model_path is: a file, a directory, or a file of a model that has its
\* weights in other files beside it, as large ONNX models have.
Sources == {"file", "directory", "split"}

\* TRITON_RUNNERS: the runners a package is deployed for, with the format and
\* the device they say they run (format and devices_kind of their classes).
TritonRunners ==
    {[runner |-> "OnnxCPU",                  format |-> "onnx",          device |-> "cpu"],
     [runner |-> "OnnxCUDA",                 format |-> "onnx",          device |-> "cuda"],
     [runner |-> "OnnxTensorRT",             format |-> "onnx",          device |-> "cuda"],
     [runner |-> "TensorRT",                 format |-> "trt",           device |-> "cuda"],
     [runner |-> "TorchScriptCUDA",          format |-> "torchscript",   device |-> "cuda"],
     [runner |-> "TorchScriptCPU",           format |-> "torchscript",   device |-> "cpu"],
     [runner |-> "TorchTensorRT",            format |-> "torch-trt",     device |-> "cuda"],
     [runner |-> "TensorFlowSavedModelCPU",  format |-> "tf-savedmodel", device |-> "cpu"],
     [runner |-> "TensorFlowSavedModelCUDA", format |-> "tf-savedmodel", device |-> "cuda"],
     [runner |-> "TensorFlowTensorRT",       format |-> "tf-trt",        device |-> "cuda"]}

ASSUME RepositoryAssumption ==
    /\ MaxCalls \in Nat
    /\ \A upload \in Uploads :
          /\ upload.config.backend \in Backends /\ TypedSettings(upload.config)
          /\ upload.source \in Sources
    /\ Runtimes \subseteq TritonRunners
    /\ Measurements \subseteq [Runtimes -> SUBSET Nat]
    /\ \A measured \in Measurements : \A r \in Runtimes : measured[r] # {} =>
          \E s \in measured[r] : \A t \in measured[r] : t <= s

VARIABLES
    dirs,           \* directories of versions that exist
    files,          \* per version and backend: what lies where the model belongs
    pbtxt,          \* config.pbtxt
    pc,             \* what the running deployment does next
    request,        \* what it was asked to deploy
    outcome,        \* how the last deployment ended
    calls

store == <<dirs, files, pbtxt>>
vars  == <<store, pc, request, outcome, calls>>

\* What lies in a place: a file or a directory, and the pieces of models that
\* are in it, blocks of a file or entries of a directory.
Absent      == [kind |-> "absent", pieces |-> {}]
Empty(kind) == [kind |-> kind, pieces |-> {}]

Blocks  == {"head", "tail"}
Entries == {"graph", "variables"}

KindOf(source) == IF source = "directory" THEN "directory" ELSE "file"

\* What of a model is at its model_path, and the whole model.
AtPath(call, source) == {call} \X (IF source = "directory" THEN Entries ELSE Blocks)
Model(call, source)  ==
    AtPath(call, source) \cup (IF source = "split" THEN {<<call, "weights">>} ELSE {})

\* What goes when the file or the entry that a piece belongs to is replaced.
SameName(piece) == IF piece[2] \in Blocks THEN {piece[1]} \X Blocks ELSE {piece}

NoConfig  == [state |-> "absent"]
NoRequest == [call |-> 0]

----------------------------------------------------------------------------
(* The package *)

\* A package: the axis of its batches, the results of its models, and the
\* runtime the strategy chooses among them.  A package without batching has
\* one result per runtime, with batch size None, which is 0 here.
Packages ==
    {p \in [batch_dim : {"first", "other", "none"}, best : Runtimes, measured : Measurements] :
        /\ p.measured[p.best] # {}
        /\ \A r \in Runtimes : p.measured[r] # {} => (0 \in p.measured[r] <=> p.batch_dim = "none")}

MaxOf(sizes) == CHOOSE s \in sizes : \A t \in sizes : t <= s

Init ==
    /\ dirs = {} /\ files = [v \in Versions |-> [b \in Backends |-> Absent]]
    /\ pbtxt = NoConfig
    /\ pc = "idle" /\ request = NoRequest /\ outcome = "none"
    /\ calls = 0

----------------------------------------------------------------------------
(* add_model *)

\* The deployment of a model as a version begins; a configuration that is
\* not valid is never made.
Begin(config, source, version, runtime) ==
    /\ pc = "idle" /\ calls < MaxCalls
    /\ calls' = calls + 1
    /\ IF Valid(config)
       THEN /\ pc' = "mkdir" /\ outcome' = "running"
            /\ request' = [call |-> calls + 1, config |-> config, source |-> source,
                           version |-> version, runtime |-> runtime, retried |-> FALSE]
       ELSE /\ pc' = "idle" /\ outcome' = "rejected" /\ request' = NoRequest
    /\ UNCHANGED store

ByUser == [from |-> "user"]

AddModel ==
    \E upload \in Uploads, version \in Versions :
        Begin(upload.config, upload.source, version, ByUser)

BackendOf(format) ==
    CASE format = "onnx"                          -> "onnxruntime"
      [] format \in {"tf-savedmodel", "tf-trt"}   -> "tensorflow"
      [] format \in {"torchscript", "torch-trt"}  -> "pytorch"
      [] format = "trt"                           -> "tensorrt"

\* What a package keeps of a model of a format.
ProductsOf(format) ==
    CASE format \in {"tf-savedmodel", "tf-trt"} -> {"directory"}
      [] format = "onnx"                        -> {"file", "split"}
      [] OTHER                                  -> {"file"}

\* A group that names nothing but its kind.
GroupOfKind(kind) == [kind |-> kind, count_given |-> 0, count |-> 0, gpus |-> 0, passive |-> 0,
                      profile |-> 0]

\* Fault (DeployedAsMeasured): the runners that build engines are forgotten.
GroupsOfCUDA(runtime) ==
    IF runtime.runner \in {"OnnxCUDA", "TorchScriptCUDA"} THEN {GroupOfKind("KIND_GPU")} ELSE {}

\* _onnx_config_from_runtime_result and its siblings, one per kind of model.
\* Without a group, Triton chooses the device.
Groups(runtime) ==
    IF \/ runtime.format = "onnx" /\ runtime.runner \in {"OnnxCUDA", "OnnxTensorRT"}
       \/ runtime.format \in {"tf-savedmodel", "tf-trt"} /\ runtime.runner = "TensorFlowTensorRT"
       \/ /\ runtime.format \in {"torchscript", "torch-trt"}
          /\ runtime.runner \in {"TorchTensorRT", "TorchScriptCUDA"}
       \/ runtime.format = "trt"
    THEN {GroupOfKind("KIND_GPU")} ELSE {}

PlainBatcher == [kind |-> "dynamic", max_queue_delay_microseconds |-> 0, preferred_batch_size |-> 0,
                 preserve_ordering |-> 0, priority_levels |-> 0, default_priority_level |-> 0,
                 default_queue_policy |-> 0, priority_queue_policy |-> {}]

\* None of the optional sizes is given.
DefaultAccelerator == [kind |-> "accelerated", accelerator |-> "tensorrt", precision |-> 1]

\* input_tensor_from_metadata and output_tensor_from_metadata
TensorFromMetadata(name) ==
    [name |-> name, shape |-> "right", dtype |-> 1, reshape |-> 0, is_shape_tensor |-> 0,
     optional |-> 0, allow_ragged_batch |-> 0]

Tensors(format, name) ==
    IF BackendOf(format) = "pytorch" THEN {TensorFromMetadata(name)} ELSE {}

\* add_model_from_package: the configuration of the runtime that the
\* strategy chose.  max_batch_size is the largest batch that was measured.
ConfigFromPackage(package, runtime, response_cache) ==
    [backend |-> BackendOf(runtime.format), platform |-> NoPlatform,
     batching |-> IF package.batch_dim = "first" THEN 1 ELSE 0,
     max_batch_size |-> MaxOf(package.measured[runtime]),
     batcher |-> PlainBatcher,
     instance_groups |-> Groups(runtime),
     inputs |-> Tensors(runtime.format, "input"), outputs |-> Tensors(runtime.format, "output"),
     optimization |-> IF runtime.runner = "OnnxTensorRT" THEN DefaultAccelerator ELSE NoOptimization,
     response_cache |-> response_cache]

AddModelFromPackage ==
    \E package \in Packages, version \in Versions, response_cache \in {0, 1} :
        /\ package.batch_dim # "other"
        /\ \E source \in ProductsOf(package.best.format) :
              Begin(ConfigFromPackage(package, package.best, response_cache), source, version,
                    [from |-> "package", chosen |-> package.best,
                     sizes |-> package.measured[package.best],
                     batching |-> package.batch_dim = "first"])

----------------------------------------------------------------------------
(* deploy_model *)

Backend == request.config.backend
Here    == files[request.version][Backend]
Put(content) == files' = [files EXCEPT ![request.version][Backend] = content]

\* The deployment is over.
End(how) == /\ pc' = "idle" /\ outcome' = how /\ request' = NoRequest
            /\ UNCHANGED calls

\* The next step of the running deployment.
Go(next) == /\ pc' = next
            /\ UNCHANGED <<request, outcome, calls>>

\* _copy_model makes the directory of the version and looks at model_path.
MakeDirectory ==
    /\ pc = "mkdir"
    /\ dirs' = dirs \cup {request.version}
    /\ UNCHANGED <<files, pbtxt>>
    /\ Go(IF request.source = "directory" THEN "copytree" ELSE "copy")

\* Fault (SuccessMeansComplete): a file that is there is written over in place.
OpenFileInPlace ==
    /\ pc = "copy" /\ Here.kind # "directory"
    /\ Put([Here EXCEPT !.kind = "file"])
    /\ UNCHANGED <<dirs, pbtxt>>
    /\ Go("pieces")

\* shutil.copy empties a file that is there.
OpenFile ==
    /\ pc = "copy" /\ Here.kind # "directory"
    /\ Put(Empty("file"))
    /\ UNCHANGED <<dirs, pbtxt>>
    /\ Go("pieces")

\* Into a directory that is there, shutil.copy puts the file under its own
\* name, over what has that name in it.
OpenFileInDirectory ==
    /\ pc = "copy" /\ Here.kind = "directory"
    /\ \E replaced \in {{}} \cup {SameName(piece) : piece \in Here.pieces} :
          Put([Here EXCEPT !.pieces = @ \ replaced])
    /\ UNCHANGED <<dirs, pbtxt>>
    /\ Go("pieces")

\* shutil.copytree takes nothing that is there: FileExistsError, which is no
\* shutil.Error.
CopyTree ==
    /\ pc = "copytree" /\ Here.kind = "absent"
    /\ Put(Empty("directory"))
    /\ UNCHANGED <<dirs, pbtxt>>
    /\ Go("pieces")

\* Fault (ConfigNamesAModel): what is there makes room for the new directory.
CopyTreeReplaces ==
    /\ pc = "copytree" /\ Here.kind # "absent"
    /\ Put(Absent)
    /\ UNCHANGED <<dirs, pbtxt>>
    /\ Go("copytree")

\* What is there stays as it is, even if a killed deployment left it.
CopyTreeRefused ==
    /\ pc = "copytree" /\ Here.kind # "absent"
    /\ UNCHANGED store
    /\ End("raised")

\* One piece of what is at model_path.
CopyPiece ==
    /\ pc = "pieces"
    /\ \E piece \in AtPath(request.call, request.source) \ Here.pieces :
          Put([Here EXCEPT !.pieces = @ \cup {piece}])
    /\ UNCHANGED <<dirs, pbtxt>>
    /\ Go("pieces")

\* shutil.Error: some files could not be copied; the copy is removed and
\* made again, once.
CopyTreeFails ==
    /\ pc = "pieces" /\ request.source = "directory" /\ ~request.retried
    /\ Put(Absent)
    /\ pc' = "copytree" /\ request' = [request EXCEPT !.retried = TRUE]
    /\ UNCHANGED <<dirs, pbtxt, outcome, calls>>

Copied ==
    /\ pc = "pieces" /\ AtPath(request.call, request.source) \subseteq Here.pieces
    /\ UNCHANGED store
    /\ Go("config")

\* ModelConfigGenerator.to_file opens config.pbtxt only when the message is
\* made.
OpenConfig ==
    /\ pc = "config" /\ Writable(request.config)
    /\ pbtxt' = [state |-> "torn"]
    /\ UNCHANGED <<dirs, files>>
    /\ Go("write")

\* ParseDict knows no type for a tensor without dtype.
GeneratorFails ==
    /\ pc = "config" /\ ~Writable(request.config)
    /\ UNCHANGED store
    /\ End("raised")

WriteConfig ==
    /\ pc = "write"
    /\ pbtxt' = [state |-> "written", call |-> request.call, version |-> request.version,
                 config |-> request.config, source |-> request.source,
                 runtime |-> request.runtime]
    /\ UNCHANGED <<dirs, files>>
    /\ End("returned")

\* An OSError or a kill between two steps: no model at model_path, a second
\* shutil.Error, a directory under the name of the file, a full disk.
Interrupted ==
    /\ pc # "idle"
    /\ UNCHANGED store
    /\ End("raised")

Next ==
    \/ AddModel \/ AddModelFromPackage
    \/ MakeDirectory \/ OpenFile \/ OpenFileInDirectory \/ CopyTree \/ CopyTreeRefused
    \/ CopyPiece \/ CopyTreeFails \/ Copied
    \/ OpenConfig \/ GeneratorFails \/ WriteConfig \/ Interrupted

Spec == Init /\ [][Next]_vars

----------------------------------------------------------------------------
(* Properties *)

\* The place of the model that config.pbtxt is about.
Place == files[pbtxt.version][pbtxt.config.backend]

\* A configuration in the repository never names a model that is not there:
\* "Order of model repository files might be important while using Triton
\* server in polling model_control_mode" (deploy_model), whatever deployments
\* of other backends and versions failed or were killed before.
ConfigNamesAModel ==
    pbtxt.state = "written" => pbtxt.version \in dirs /\ Place.kind # "absent"

\* When add_model returns, config.pbtxt is the one it wrote, and what was at
\* model_path lies in the repository from the first to the last piece.  There
\* is nothing of a former model or a former attempt with it, unless it is a
\* file that went into a directory which was there (deploy_model, _copy_model;
\* ReplacesFormerModel and DeploysWholeModel say what this leaves open).
SuccessMeansComplete ==
    outcome = "returned" =>
        /\ pbtxt.state = "written" /\ pbtxt.call = calls
        /\ AtPath(calls, pbtxt.source) \subseteq Place.pieces
        /\ Place.kind = KindOf(pbtxt.source) => Place.pieces = AtPath(calls, pbtxt.source)

\* "In the end, the model with the configuration is created inside the
\* provided model repository path" (docs/triton/triton_deployment.md): where
\* Triton looks for it there is the model that was deployed, not a former one
\* with the new one inside.  The code does not keep this: OpenFileInDirectory.
ReplacesFormerModel ==
    outcome = "returned" => Place.kind = KindOf(pbtxt.source)

\* "Create the Triton Model Store with optimized model and save it to
\* model_repository_path" (add_model_from_package): all files of the model.
\* The code does not keep this for ONNX models with external weights.
DeploysWholeModel ==
    outcome = "returned" => Model(calls, pbtxt.source) \subseteq Place.pieces

\* Triton reads from config.pbtxt what the user configured, with the defaults
\* of the fields that are not written, and of the options of an accelerator
\* exactly those that were given (ModelConfigGenerator).  Three settings are
\* lost: eager_batching, max_sequence_idle_microseconds and an explicit 0 of
\* an accelerator's option (see the two properties below).
LostSettings == {"eager_batching", "max_sequence_idle_microseconds", "explicit_zero"}

SettingsReachTriton ==
    pbtxt.state = "written" =>
        Reaches(pbtxt.config, Generated(pbtxt.config), LostSettings)

\* "minimum_segment_size: The smallest model subgraph that will be considered
\* for optimization by TensorRT" (TensorRTAccelerator), and None if it is left
\* to Triton: a size of 0 that was accepted is the size Triton is told.  The
\* code does not keep this: TensorRTAccelerator.
ExplicitZerosReachTriton ==
    pbtxt.state = "written" =>
        Reaches(pbtxt.config, Generated(pbtxt.config), LostSettings \ {"explicit_zero"})

\* TensorRTOptimization.eager_batching: "Start preparing the next batch before
\* the model instance is ready for the next inference", off by default.  The
\* code does not keep this: TensorRTOptimization.
EagerBatchingReachesTriton ==
    pbtxt.state = "written" =>
        Reaches(pbtxt.config, Generated(pbtxt.config), LostSettings \ {"eager_batching"})

\* The file puts the model on the GPU.
PinnedToGPU(file) == \E g \in file.instance_group : g.kind = "KIND_GPU"

\* A deployment from a package batches exactly if the package does, up to the
\* largest batch measured on the runtime that was chosen; it is accelerated
\* exactly if that was; it is put on the GPU only if the runner it was measured
\* with runs there, and then always, but for SavedModels, whose runner the code
\* does not look at yet (the TODO of _tensorflow_config_from_runtime_result;
\* add_model_from_package).
DeployedAsMeasured ==
    pbtxt.state = "written" /\ pbtxt.runtime.from = "package" =>
        LET file == Generated(pbtxt.config)  runtime == pbtxt.runtime
            chosen == pbtxt.runtime.chosen
        IN /\ file.max_batch_size > 0 <=> runtime.batching
           /\ runtime.batching => file.max_batch_size = MaxOf(runtime.sizes)
           /\ file.optimization.kind # "none" <=> chosen.runner = "OnnxTensorRT"
           /\ PinnedToGPU(file) => chosen.device = "cuda"
           /\ chosen.device = "cuda" /\ chosen.runner # "TensorFlowSavedModelCUDA" =>
                 PinnedToGPU(file)

\* The same without the exception: what was measured on the GPU is put there.
\* The code does not keep this: Groups.
SavedModelsDeployedAsMeasured ==
    pbtxt.state = "written" /\ pbtxt.runtime.from = "package" =>
        (PinnedToGPU(Generated(pbtxt.config)) <=> pbtxt.runtime.chosen.device = "cuda")
=============================================================================
