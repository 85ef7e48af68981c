--------------------------- MODULE CommandCatalog ---------------------------
(***************************************************************************)
(* The commands a pipeline can be made of, as the rest of the system sees  *)
(* them: which are required, which other commands they require, which      *)
(* named arguments their _run needs and which named values they return.    *)
(*                                                                         *)
(* The tables are read off the class statements (is_required=, requires=)  *)
(* and off the signatures and the CommandOutput(...) of each _run.         *)
(***************************************************************************)
EXTENDS Sequences

\* pipelines/pipeline_context.py, command_args: **config.__dict__ and "workspace".
ConfigArgs ==
  {"framework", "model", "dataloader", "target_formats", "target_device",
   "sample_count", "optimization_profile", "runner_names", "batch_dim", "seed",
   "_input_names", "_output_names", "from_source", "forward_kw_names",
   "verify_func", "custom_configs", "verbose", "debug", "workspace"}

SourceFormats == {"python", "torch", "tensorflow", "jax"}

Formats == SourceFormats \cup
  {"torchscript", "tf-savedmodel", "tf-trt", "torch-trt", "onnx", "trt"}

\* What get_config_dict_for_command adds for a model of each format.
FormatArgs(format) ==
  {"format", "key", "path", "log_path", "parent_key", "parent_path", "parent"}
  \cup CASE format = "tf-savedmodel" -> {"jit_compile", "enable_xla"}
         [] format = "torchscript"   -> {"jit_type", "strict"}
         [] format = "onnx"          -> {"opset", "dynamic_axes"}
         [] format = "trt"           ->
              {"precision", "precision_mode", "max_workspace_size", "trt_profile",
               "optimization_level", "compatibility_level"}
         [] format = "tf-trt"        ->
              {"precision", "max_workspace_size", "minimum_segment_size", "trt_profile"}
         [] format = "torch-trt"     ->
              {"precision", "precision_mode", "max_workspace_size", "trt_profile"}
         [] OTHER                    -> {}

Exporters ==
  {"ExportTorch2TorchScript", "ExportTorch2ONNX", "ExportTF2SavedModel",
   "ExportJAX2SavedModel", "CopyONNX"}

Converters ==
  {"ConvertTorchScript2ONNX", "ConvertTorchScript2TorchTensorRT",
   "ConvertSavedModel2ONNX", "ConvertSavedModel2TFTRT", "ConvertONNX2TRT"}

Makers == Exporters \cup Converters

Evaluators == {"Correctness", "Performance", "Profile"}

\* Commands declared with is_required=True.
Required ==
  {"InferInputMetadata", "FetchInputModelData", "InferOutputMetadata",
   "FetchOutputModelData", "LoadMetadata"}

Commands ==
  Required \cup Exporters \cup Converters \cup Evaluators
  \cup {"FindMaxBatchSize", "VerifyModel"}

\* Commands declared with requires=[...].
Requires(command) ==
  IF command = "VerifyModel" THEN {"Correctness", "Performance"} ELSE {}

Described == {"input_metadata", "output_metadata"}

ExportNeeds == {"workspace", "path", "verbose", "input_metadata", "output_metadata"}

EvaluationNeeds ==
  {"workspace", "path", "format", "runner_cls", "batch_dim", "verbose"} \cup Described

-----------------------------------------------------------------------------
(* Per command: the parameters of _run (and of _pre_run) without a default *)
(* value, and the keys of the dictionary it returns with status OK.  A     *)
(* command that is skipped or fails returns none.                          *)

Signature(needs, outputs) == [needs |-> needs, outputs |-> outputs]

InferInputMetadata ==
  Signature({"framework", "model", "dataloader", "optimization_profile"},
            {"input_metadata", "dataloader_trt_profile", "dataloader_max_batch_size"})

FetchInputModelData ==
  Signature({"workspace", "framework", "dataloader", "sample_count", "input_metadata",
             "batch_dim", "seed", "dataloader_trt_profile", "optimization_profile"},
            {"profiling_sample", "correctness_samples", "conversion_samples"})

InferOutputMetadata ==
  Signature({"framework", "model", "dataloader", "profiling_sample", "conversion_samples",
             "input_metadata", "workspace", "verbose"},
            {"output_metadata"})

FetchOutputModelData ==
  Signature({"framework", "workspace", "model", "batch_dim"} \cup Described,
            {"profiling_sample_output", "correctness_samples_output",
             "conversion_samples_output"})

LoadMetadata ==
  Signature({"workspace"},
            Described \cup {"dataloader_trt_profile", "dataloader_max_batch_size"})

FindMaxBatchSize ==
  Signature({"configurations", "workspace", "batch_dim", "optimization_profile", "verbose"}
            \cup Described,
            {"device_max_batch_size"})

ExportTorch2TorchScript ==
  Signature({"workspace", "path", "target_device", "jit_type", "verbose", "strict"}, {})

ExportTorch2ONNX == Signature(ExportNeeds \cup {"opset", "target_device"}, {})

ExportTF2SavedModel == Signature(ExportNeeds \cup {"model"}, {})

ExportJAX2SavedModel ==
  Signature({"workspace", "path", "jit_compile", "enable_xla", "input_metadata", "verbose"}, {})

CopyONNX == Signature({"workspace", "path"}, {})

ConvertTorchScript2ONNX ==
  Signature(ExportNeeds \cup {"parent_path", "opset", "target_device"}, {})

ConvertTorchScript2TorchTensorRT ==
  Signature({"workspace", "path", "parent_path", "precision", "input_metadata",
             "precision_mode", "max_workspace_size", "target_device", "verbose", "debug",
             "dataloader_trt_profile"},
            {"conversion_max_batch_size", "conversion_profiles"})

ConvertSavedModel2ONNX == Signature({"workspace", "path", "parent_path", "opset", "verbose"}, {})

ConvertSavedModel2TFTRT ==
  Signature({"workspace", "path", "parent_path", "verbose", "precision", "max_workspace_size",
             "minimum_segment_size", "dataloader_trt_profile"},
            {"conversion_max_batch_size"})

ConvertONNX2TRT ==
  Signature({"workspace", "path", "parent_path", "precision", "precision_mode",
             "dataloader_trt_profile"} \cup Described,
            {"conversion_max_batch_size", "conversion_profiles"})

Correctness == Signature(EvaluationNeeds, {"per_output_tolerance"})

Performance ==
  Signature(EvaluationNeeds \cup {"optimization_profile"}, {"profiling_results"})

Profile ==
  Signature(EvaluationNeeds \cup {"optimization_profile", "framework", "dataloader"},
            {"profiling_results", "profiling_samples"})

VerifyModel ==
  Signature({"framework", "format", "workspace", "path", "dataloader", "verify_func",
             "runner_cls"} \cup Described, {})

-----------------------------------------------------------------------------
SignatureOf ==
  [InferInputMetadata |-> InferInputMetadata, FetchInputModelData |-> FetchInputModelData,
   InferOutputMetadata |-> InferOutputMetadata, FetchOutputModelData |-> FetchOutputModelData,
   LoadMetadata |-> LoadMetadata, FindMaxBatchSize |-> FindMaxBatchSize,
   ExportTorch2TorchScript |-> ExportTorch2TorchScript, ExportTorch2ONNX |-> ExportTorch2ONNX,
   ExportTF2SavedModel |-> ExportTF2SavedModel, ExportJAX2SavedModel |-> ExportJAX2SavedModel,
   CopyONNX |-> CopyONNX, ConvertTorchScript2ONNX |-> ConvertTorchScript2ONNX,
   ConvertTorchScript2TorchTensorRT |-> ConvertTorchScript2TorchTensorRT,
   ConvertSavedModel2ONNX |-> ConvertSavedModel2ONNX,
   ConvertSavedModel2TFTRT |-> ConvertSavedModel2TFTRT, ConvertONNX2TRT |-> ConvertONNX2TRT,
   Correctness |-> Correctness, Performance |-> Performance, Profile |-> Profile,
   VerifyModel |-> VerifyModel]

\* The arguments Command.run must be given, and the outputs the context records.
Needs == [command \in Commands |-> SignatureOf[command].needs]
Outputs == [command \in Commands |-> SignatureOf[command].outputs]
=============================================================================
