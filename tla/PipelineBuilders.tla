-------------------------- MODULE PipelineBuilders --------------------------
(***************************************************************************)
(* The pipelines/builders functions: the execution units made from the     *)
(* configurations of ModelConfigs, and the lists of builders that the      *)
(* optimize and profile entry points of api/ run for each framework.       *)
(*                                                                         *)
(* "settings" is the part of CommonConfig the builders read:               *)
(*   framework, device, runners (runner_names), batching (batch_dim is not *)
(*   None), trtProfile (a TensorRT profile is configured).                 *)
(***************************************************************************)
EXTENDS ModelConfigs

\* model_config=None and runner_cls=None; NullModel is also the key of no parent.
NullModel  == <<>>
NullRunner == "NoRunner"

\* runner_registry, in the order of the register_runner calls per module.
RunnerRegistry ==
  LET Runner(name, format, devices) ==
        [name |-> name, format |-> format, devices |-> devices]
  IN << Runner("JAX", "jax", {"cuda"}),
        Runner("OnnxCPU", "onnx", {"cpu"}),
        Runner("OnnxCUDA", "onnx", {"cuda"}),
        Runner("OnnxTensorRT", "onnx", {"cuda"}),
        Runner("PythonRunner", "python", {"cpu", "cuda"}),
        Runner("TensorFlowSavedModelCPU", "tf-savedmodel", {"cpu"}),
        Runner("TensorFlowSavedModelCUDA", "tf-savedmodel", {"cuda"}),
        Runner("TensorFlowTensorRT", "tf-trt", {"cuda"}),
        Runner("TensorFlowCUDA", "tensorflow", {"cuda"}),
        Runner("TensorFlowCPU", "tensorflow", {"cpu"}),
        Runner("TensorRT", "trt", {"cuda"}),
        Runner("TensorRTCUDAGraph", "trt", {"cuda"}),
        Runner("TorchCUDA", "torch", {"cuda"}),
        Runner("TorchCPU", "torch", {"cpu"}),
        Runner("TorchScriptCUDA", "torchscript", {"cuda"}),
        Runner("TorchScriptCPU", "torchscript", {"cpu"}),
        Runner("TorchTensorRT", "torch-trt", {"cuda"}),
        Runner("TorchCompileCPU", "torch", {"cpu"}),
        Runner("TorchCompileCUDA", "torch", {"cuda"}) >>

GlobalUnit(command, kwargs) ==
  [command |-> command, model |-> NullModel, runner |-> NullRunner, kwargs |-> kwargs]

ModelUnit(command, config) ==
  [command |-> command, model |-> Key(config), runner |-> NullRunner, kwargs |-> {}]

RunnerUnit(command, config, runner) ==
  [command |-> command, model |-> Key(config), runner |-> runner.name, kwargs |-> {}]

\* One unit of the command for each configuration of the sequence.
ForEach(command, configs) ==
  [i \in 1..Len(configs) |-> ModelUnit(command, configs[i])]

\* One unit for each configuration and each runner of its format that is
\* requested and runs on the target device.
ForEachRunner(command, configs, settings) ==
  LET Matching(config) ==
        Where(RunnerRegistry,
              {r \in ToSet(RunnerRegistry) : /\ r.format = config.format
                                            /\ r.name \in settings.runners
                                            /\ settings.device \in r.devices})
  IN FlattenSeq([i \in 1..Len(configs) |->
       [j \in 1..Len(Matching(configs[i])) |->
          RunnerUnit(command, configs[i], Matching(configs[i])[j])]])

SourceLast(lists) == Joined(SerializedOrder \o SourceOrder, lists)

\* Fault (NeedsAreProvided): the metadata of the outputs is never inferred.
PreprocessingOfInputs(fromSource) ==
  IF fromSource
  THEN << GlobalUnit("InferInputMetadata", {}), GlobalUnit("FetchInputModelData", {}) >>
  ELSE << GlobalUnit("LoadMetadata", {}) >>

Preprocessing(fromSource) ==
  IF fromSource
  THEN << GlobalUnit("InferInputMetadata", {}), GlobalUnit("FetchInputModelData", {}),
          GlobalUnit("InferOutputMetadata", {}), GlobalUnit("FetchOutputModelData", {}) >>
  ELSE << GlobalUnit("LoadMetadata", {}) >>

\* Fault (EvaluatedModelsAreMade): the ONNX models of TorchScript are exported too.
TorchExportOfAll(lists) ==
  ForEach("ExportTorch2TorchScript", lists["torchscript"])
  \o ForEach("ExportTorch2ONNX", lists["onnx"])

TorchExport(lists) ==
  ForEach("ExportTorch2TorchScript", lists["torchscript"])
  \o ForEach("ExportTorch2ONNX",
             Where(lists["onnx"], {c \in ToSet(lists["onnx"]) : c.parent = <<>>}))

TensorFlowExport(lists) == ForEach("ExportTF2SavedModel", lists["tf-savedmodel"])

JaxExport(lists) == ForEach("ExportJAX2SavedModel", lists["tf-savedmodel"])

OnnxExport(lists) == ForEach("CopyONNX", lists["onnx"])

OnCuda(settings, units) == IF settings.device = "cuda" THEN units ELSE <<>>

TorchConversion(lists, settings) ==
  ForEach("ConvertTorchScript2ONNX",
          Where(lists["onnx"],
                {c \in ToSet(lists["onnx"]) : c.parent # <<>> /\ c.parent[1] = "torchscript"}))
  \o OnCuda(settings,
       ForEach("ConvertTorchScript2TorchTensorRT", lists["torch-trt"])
       \o ForEach("ConvertONNX2TRT", lists["trt"]))

\* Fault (ParentsAreMadeFirst): TensorRT before the ONNX it is made of.
TensorFlowConversionReordered(lists, settings) ==
  OnCuda(settings, ForEach("ConvertSavedModel2TFTRT", lists["tf-trt"])
                   \o ForEach("ConvertONNX2TRT", lists["trt"]))
  \o ForEach("ConvertSavedModel2ONNX", lists["onnx"])

TensorFlowConversion(lists, settings) ==
  ForEach("ConvertSavedModel2ONNX", lists["onnx"])
  \o OnCuda(settings,
       ForEach("ConvertSavedModel2TFTRT", lists["tf-trt"])
       \o ForEach("ConvertONNX2TRT", lists["trt"]))

\* is_trt_available() is left out: it is also the condition under which the
\* runners of TensorRT are registered.
OnnxConversion(lists, settings) ==
  OnCuda(settings, ForEach("ConvertONNX2TRT", lists["trt"]))

\* find_device_max_batch_size_builder: one unit for the whole run, only if some
\* model of an adaptive format has no TensorRT profile of its own.
FindDeviceMaxBatchSize(lists, settings) ==
  LET adaptive == lists["torch-trt"] \o lists["trt"] \o lists["tf-trt"]
  IN IF adaptive # <<>> /\ settings.device = "cuda"
        /\ ~settings.trtProfile /\ settings.batching
     THEN << GlobalUnit("FindMaxBatchSize", {"configurations"}) >>
     ELSE <<>>

Export(lists, settings) ==
  CASE settings.framework = "torch"      -> TorchExport(lists)
    [] settings.framework = "tensorflow" -> TensorFlowExport(lists)
    [] settings.framework = "jax"        -> JaxExport(lists)
    [] settings.framework = "onnx"       -> OnnxExport(lists)
    [] OTHER                             -> <<>>

Conversion(lists, settings) ==
  CASE settings.framework = "torch"               -> TorchConversion(lists, settings)
    [] settings.framework \in {"tensorflow", "jax"} -> TensorFlowConversion(lists, settings)
    [] settings.framework = "onnx"                -> OnnxConversion(lists, settings)
    [] OTHER                                      -> <<>>

\* The source format joins the target formats of an optimize call.
OptimizeTargets(framework, targets) == targets \cup {SourceFormatOf[framework]}

\* Fault (RequirementsComeFirst): verification before performance.
EvaluationReordered(lists, settings) ==
  ForEachRunner("Correctness", AllConfigs(lists), settings)
  \o ForEachRunner("VerifyModel", AllConfigs(lists), settings)
  \o ForEachRunner("Performance", SourceLast(lists), settings)

Evaluation(lists, settings) ==
  ForEachRunner("Correctness", AllConfigs(lists), settings)
  \o ForEachRunner("Performance", SourceLast(lists), settings)
  \o ForEachRunner("VerifyModel", AllConfigs(lists), settings)

\* Fault (SearchComesBetween): the search runs before the exports it loads.
OptimizePlanSearchingFirst(lists, settings) ==
  Preprocessing(TRUE)
  \o FindDeviceMaxBatchSize(lists, settings)
  \o Export(lists, settings)
  \o Conversion(lists, settings)
  \o Evaluation(lists, settings)

\* The builders of api/torch.py, tensorflow.py, jax.py, onnx.py and python.py.
\* The Python entry point has no export, search or conversion.
OptimizePlan(lists, settings) ==
  Preprocessing(TRUE)
  \o (IF settings.framework = "none" THEN <<>> ELSE
        Export(lists, settings)
        \o FindDeviceMaxBatchSize(lists, settings)
        \o Conversion(lists, settings))
  \o Evaluation(lists, settings)

\* _get_builders of api/package.py: no export, metadata loaded from the package.
PackageOptimizePlan(lists, settings) ==
  Preprocessing(FALSE)
  \o FindDeviceMaxBatchSize(lists, settings)
  \o Conversion(lists, settings)
  \o Evaluation(lists, settings)

\* profile of api/package.py.
PackageProfilePlan(lists, settings) ==
  Preprocessing(FALSE)
  \o ForEachRunner("Profile", SourceLast(lists), settings)
=============================================================================
