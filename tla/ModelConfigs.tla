---------------------------- MODULE ModelConfigs ----------------------------
(***************************************************************************)
(* Which model configurations ModelConfigBuilder.generate_model_config     *)
(* makes for a framework and a tuple of target formats.                    *)
(*                                                                         *)
(* A configuration is the record of its format, the options that are part  *)
(* of its key (its own after those of its ancestors, as ModelConfig.key    *)
(* joins them) and the key of its parent.  The options that are not part   *)
(* of the key (opset, workspace size, profiles) are left out.              *)
(*                                                                         *)
(* A definition introduced by "Fault", here and in PipelineBuilders, is a  *)
(* plausible bug in the definition after it, with which TLC refutes the    *)
(* property of PipelinePlanning named; nothing uses it.                    *)
(***************************************************************************)
EXTENDS Sequences, Naturals, FiniteSets, SequencesExt

Frameworks == {"none", "torch", "tensorflow", "jax", "onnx"}

\* utils/format_helpers.py, FRAMEWORK2BASE_FORMAT
SourceFormatOf ==
  [none |-> "python", torch |-> "torch", tensorflow |-> "tensorflow",
   jax |-> "jax", onnx |-> "onnx"]

\* api/config.py, AVAILABLE_TARGET_FORMATS
AvailableTargetFormats ==
  [none       |-> {"python"},
   torch      |-> {"torch", "torchscript", "onnx", "torch-trt", "trt"},
   tensorflow |-> {"tensorflow", "tf-savedmodel", "tf-trt", "onnx", "trt"},
   jax        |-> {"jax", "tf-savedmodel", "onnx", "trt", "tf-trt"},
   onnx       |-> {"onnx", "trt"}]

\* get_base_format: at most one format, as a set.
BaseFormat(format, framework) ==
  CASE format = "trt" /\ framework # "none"              -> {"onnx"}
    [] format = "torch-trt" /\ framework = "torch"        -> {"torchscript"}
    [] format \in {"onnx", "tf-trt"} /\ framework \in {"tensorflow", "jax"} ->
         {"tf-savedmodel"}
    [] format = "python" /\ framework = "none"            -> {"python"}
    [] OTHER -> {}

\* The base format of each target is added, once.
WithBaseFormats(targets, framework) ==
  targets \cup UNION {BaseFormat(f, framework) : f \in targets}

\* Fault (NothingIsOverwritten): the key without the options of the ancestors.
ConfigOfItself(format, options, parents) ==
  [format  |-> format,
   options |-> options,
   parent  |-> IF parents = <<>> THEN <<>> ELSE <<parents[1].format, parents[1].options>>]

\* A configuration of parents[1], or of no parent.
Config(format, options, parents) ==
  [format  |-> format,
   options |-> (IF parents = <<>> THEN <<>> ELSE parents[1].options) \o options,
   parent  |-> IF parents = <<>> THEN <<>> ELSE <<parents[1].format, parents[1].options>>]

Key(config) == <<config.format, config.options>>

\* One configuration per parent and option, parents outermost (itertools.product).
Product(format, parents, options) ==
  FlattenSeq([i \in 1..Len(parents) |->
    [j \in 1..Len(options) |-> Config(format, options[j], <<parents[i]>>)]])

\* The elements of s that are kept, in their order.
Where(s, kept) ==
  FlattenSeq([i \in 1..Len(s) |-> IF s[i] \in kept THEN <<s[i]>> ELSE <<>>])

Roots(format, options) ==
  [j \in 1..Len(options) |-> Config(format, options[j], <<>>)]

\* The custom options: each is the sequence of the key options to try.
\*   jit        TorchConfig.jit_type, e.g. << <<"script">>, <<"trace">> >>
\*   precision  for each TensorRT based format, the precisions of its configurations
\*   compile    jit_compile and enable_xla of TensorFlowConfig
\*   extended   OnnxConfig.onnx_extended_conversion
TensorRTFormats == {"torch-trt", "trt", "tf-trt"}

\* Different options; a JIT type or a precision is one word of the key.
AreOptions(options) == options \in Seq(Seq(STRING)) /\ IsInjective(options)

AreWords(options) == AreOptions(options) /\ \A i \in DOMAIN options : Len(options[i]) = 1

IsCustom(custom) ==
  /\ AreWords(custom.jit)
  /\ \A f \in TensorRTFormats : AreWords(custom.precision[f])
  /\ AreOptions(custom.compile)

TorchScriptConfigs(framework, formats, custom) ==
  IF framework = "torch"
     /\ ("torchscript" \in formats \/ ("onnx" \in formats /\ custom.extended))
  THEN Roots("torchscript", custom.jit) ELSE <<>>

SavedModelConfigs(formats, custom) ==
  IF "tf-savedmodel" \in formats THEN Roots("tf-savedmodel", custom.compile) ELSE <<>>

OnnxConfigs(framework, formats, custom) ==
  LET FromParents(parents) == Product("onnx", parents, << <<>> >>)
      torchscript == TorchScriptConfigs(framework, formats, custom)
  IN IF "onnx" \notin formats THEN <<>> ELSE
       (IF framework \in {"tensorflow", "jax"}
        THEN FromParents(SavedModelConfigs(formats, custom)) ELSE <<>>)
       \o (IF framework \in {"torch", "onnx"} THEN Roots("onnx", << <<>> >>) ELSE <<>>)
       \o (IF framework = "torch" /\ custom.extended
           THEN FromParents(torchscript) ELSE <<>>)

\* The order in which the builder adds the formats to its dictionary.
SourceOrder == <<"python", "torch", "tensorflow", "jax">>
SerializedOrder == <<"torchscript", "torch-trt", "tf-savedmodel", "onnx", "trt", "tf-trt">>

\* generate_model_config: the dictionary of configurations.
GenerateModelConfig(framework, targets, custom) ==
  LET formats     == WithBaseFormats(targets, framework)
      Source(f)   == IF f \in formats THEN Roots(f, << <<>> >>) ELSE <<>>
      torchscript == TorchScriptConfigs(framework, formats, custom)
      savedmodel  == SavedModelConfigs(formats, custom)
      onnx        == OnnxConfigs(framework, formats, custom)
      Adaptive(f, parents) ==
        IF f \in formats THEN Product(f, parents, custom.precision[f]) ELSE <<>>
  IN [f \in ToSet(SourceOrder) \cup ToSet(SerializedOrder) |->
        CASE f = "torchscript"   -> torchscript
          [] f = "torch-trt"     -> Adaptive(f, torchscript)
          [] f = "tf-savedmodel" -> savedmodel
          [] f = "onnx"          -> onnx
          [] f = "trt"           -> Adaptive(f, onnx)
          [] f = "tf-trt"        -> Adaptive(f, savedmodel)
          [] OTHER               -> Source(f)]

\* The configurations of the formats of order, one format after the other.
Joined(order, lists) == FlattenSeq([i \in 1..Len(order) |-> lists[order[i]]])

AllConfigs(lists) == Joined(SourceOrder \o SerializedOrder, lists)
=============================================================================
