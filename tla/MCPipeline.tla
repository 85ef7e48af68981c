----------------------------- MODULE MCPipeline -----------------------------
(***************************************************************************)
(* PipelineExecution on plans that PipelineBuilders makes.                 *)
(***************************************************************************)
EXTENDS PipelineExecution

B == INSTANCE PipelineBuilders

MCNoModel == B!NullModel
MCNoRunner == B!NullRunner

Custom == [jit |-> << <<"script">> >>,
           precision |-> [f \in B!TensorRTFormats |-> << <<"fp16">> >>],
           compile |-> << <<>> >>, extended |-> FALSE]

ExtendedCustom == [Custom EXCEPT !.extended = TRUE]

Settings(framework, runners) ==
  [framework |-> framework, device |-> "cuda", runners |-> runners,
   batching |-> TRUE, trtProfile |-> FALSE]

\* A plan and the models it is about.
Planned(plan, configs) ==
  LET Of(m) == CHOOSE c \in B!ToSet(configs) : B!Key(c) = m
      models == {B!Key(c) : c \in B!ToSet(configs)}
  IN [plan |-> plan, models |-> models,
      formats |-> [m \in models |-> Of(m).format],
      parents |-> [m \in models |-> Of(m).parent]]

\* Torch, with ONNX from the source and from TorchScript, no TensorRT; only the
\* ONNX models are evaluated.
OnnxTargets == B!OptimizeTargets("torch", {"onnx"})
OnnxLists == B!GenerateModelConfig("torch", OnnxTargets, ExtendedCustom)
Onnx ==
  Planned(B!OptimizePlan(OnnxLists, Settings("torch", {"OnnxCUDA"})), B!AllConfigs(OnnxLists))

\* A TensorFlow package, optimised again where it lies: SavedModel, TF-TRT, ONNX
\* and TensorRT; the models of two formats are evaluated.
PackageTargets == {"tf-savedmodel", "tf-trt", "onnx", "trt"}
PackageLists == B!GenerateModelConfig("tensorflow", PackageTargets, Custom)
Package ==
  Planned(B!PackageOptimizePlan(PackageLists,
            Settings("tensorflow", {"TensorFlowTensorRT", "TensorRT"})),
          B!AllConfigs(PackageLists))

OnnxPlan == Onnx.plan
OnnxModels == Onnx.models
OnnxFormats == Onnx.formats
OnnxParents == Onnx.parents
PackagePlan == Package.plan
PackageModels == Package.models
PackageFormats == Package.formats
PackageParents == Package.parents

AllRunners == {B!RunnerRegistry[i].name : i \in DOMAIN B!RunnerRegistry}
TorchSourceRunners == {"TorchCUDA", "TorchCPU"}
TensorFlowSourceRunners == {"TensorFlowCUDA", "TensorFlowCPU"}
=============================================================================
