------------------------- MODULE TritonModelConfig -------------------------
(***************************************************************************)
(* Configurations of models for the Triton Inference Server: what the      *)
(* specialised classes accept (triton/specialized_configs), what           *)
(* ModelConfigBuilder makes of them, and what ModelConfigGenerator writes  *)
(* into config.pbtxt.                                                      *)
(*                                                                         *)
(* A setting is a natural number: a flag is 0 or 1, a number itself, a     *)
(* list its length.  Most become fields of protobuf messages, of which a   *)
(* field that is not in the file is read as 0, so one that was not given   *)
(* is 0.  The options of the TensorRT accelerator become entries of a map  *)
(* of strings, and for one that is not there the backend takes a default   *)
(* of its own: an option that was not given is not in the domain of the    *)
(* record, and an explicit 0 is something else.  A message of the file is  *)
(* the function of what is written.                                        *)
(*                                                                         *)
(* A definition introduced by "Fault" is a plausible bug in the definition *)
(* after it, with which TLC refutes the property named; nothing uses it.   *)
(***************************************************************************)
EXTENDS Naturals, FiniteSets, Functions, TLC

Backends == {"onnxruntime", "python", "pytorch", "tensorflow", "tensorrt"}

\* The platforms a specialised configuration may name instead of its backend.
Platforms(backend) ==
    CASE backend = "onnxruntime" -> {"onnxruntime_onnx"}
      [] backend = "pytorch"     -> {"pytorch_libtorch"}
      [] backend = "tensorflow"  -> {"tensorflow_savedmodel", "tensorflow_graphdef"}
      [] backend = "tensorrt"    -> {"tensorrt_plan"}
      [] OTHER                   -> {}

\* The kinds of optimization a backend's configuration takes, and their
\* accelerators.
Accelerators(backend) ==
    CASE backend = "onnxruntime" -> {"openvino", "tensorrt"}
      [] backend = "tensorflow"  -> {"auto_mixed_precision", "gpu_io", "tensorrt"}
      [] OTHER                   -> {}

NoPlatform     == "none"
NoOptimization == [kind |-> "none"]

----------------------------------------------------------------------------
(* Validation, in __post_init__ of each part *)

\* InstanceGroup: count is 0 if it was not given.
ValidInstanceGroup(group) ==
    /\ group.count_given = 1 => group.count >= 1
    /\ group.kind = "KIND_CPU" => group.gpus = 0

\* DynamicBatcher: priority_queue_policy is the set of its keys.  Level 0 is
\* let through.
ValidDynamicBatcher(batcher) ==
    /\ batcher.default_priority_level <= batcher.priority_levels
    /\ batcher.priority_queue_policy # {} => batcher.priority_levels # 0
    /\ \A priority \in batcher.priority_queue_policy : priority <= batcher.priority_levels

\* SequenceBatcherControl: a value list has its length.
ValidControl(control) ==
    LET lists == {control.int32_false_true, control.fp32_false_true, control.bool_false_true} IN
    /\ control.kind = "CORRID" => control.dtype = 1 /\ lists = {0}
    /\ control.kind # "CORRID" => control.dtype = 0 /\ lists # {0}
    /\ lists \subseteq {0, 2}

\* SequenceBatcherInitialState: one of zero_data and data_file.
ValidInitialState(initial) == initial.zero_data + initial.data_file = 1

\* SequenceBatcher with its controls and states.
ValidSequenceBatcher(batcher) ==
    /\ batcher.strategy.kind \in {"none", "direct", "oldest"}
    /\ \A control \in batcher.control_inputs : ValidControl(control)
    /\ \A state \in batcher.states : \A initial \in state.initial_states : ValidInitialState(initial)

ValidBatcher(batcher) ==
    \/ batcher.kind = "dynamic" /\ ValidDynamicBatcher(batcher)
    \/ batcher.kind = "sequence" /\ ValidSequenceBatcher(batcher)

\* BaseTensorSpec: 0 is a legal dimension of no tensor, -1 is dynamic.
ValidTensors(tensors) == \A tensor \in tensors : tensor.shape # "wrong"

\* BaseSpecializedModelConfig, repeated in ModelConfig.
ValidBase(config) ==
    /\ config.batching = 1 => config.max_batch_size >= 1
    /\ ValidBatcher(config.batcher)
    /\ \A group \in config.instance_groups :
          ValidInstanceGroup(group) /\ (group.profile # 0 => config.backend = "tensorrt")

\* TensorRTOptimization wants at least one of its options.
ValidOptimization(config) ==
    LET optimization == config.optimization IN
    \/ optimization = NoOptimization
    \/ /\ config.backend = "tensorrt" /\ optimization.kind = "tensorrt"
       /\ optimization.cuda_graphs + optimization.gather_kernel_buffer_threshold
             + optimization.eager_batching > 0
    \/ /\ optimization.kind = "accelerated"
       /\ optimization.accelerator \in Accelerators(config.backend)

\* PyTorch and Python models come with their signature.
ValidSignature(config) ==
    /\ config.backend \in {"pytorch", "python"} => config.inputs # {} /\ config.outputs # {}
    /\ ValidTensors(config.inputs) /\ ValidTensors(config.outputs)

Valid(config) ==
    /\ ValidBase(config)
    /\ config.platform \in {NoPlatform} \cup Platforms(config.backend)
    /\ ValidOptimization(config)
    /\ ValidSignature(config)

----------------------------------------------------------------------------
(* Generation *)

\* "if value:" before a field is set: defaults stay out of the message.
Truthy(settings) == Restrict(settings, {f \in DOMAIN settings : settings[f] # 0})

\* A record without some of its fields.
Without(settings, fields) == Restrict(settings, DOMAIN settings \ fields)

\* A message with a field that is written whatever its value.
WithField(message, f, value) ==
    [g \in DOMAIN message \cup {f} |-> IF g = f THEN value ELSE message[g]]

\* _set_dynamic_batching
DynamicBatching(batcher) ==
    [present |-> "dynamic_batching",
     fields |-> Truthy(Without(batcher, {"kind", "priority_queue_policy"})),
     priorities |-> batcher.priority_queue_policy]

\* _set_sequence_batcher_strategy: the candidates of the oldest strategy are
\* written even if they are 0.
BatcherStrategy(strategy) ==
    [kind |-> strategy.kind,
     fields |-> IF strategy.kind = "oldest"
                THEN WithField(Truthy(Without(strategy, {"kind"})),
                               "max_candidate_sequences", strategy.max_candidate_sequences)
                ELSE Truthy(Without(strategy, {"kind"}))]

\* _set_sequence_batcher_control_input
ControlInputs(controls) ==
    {[kind |-> c.kind, fields |-> Truthy(Without(c, {"kind"}))] : c \in controls}

\* Fault (SettingsReachTriton): the flag is taken for the default.
InitialStateOfFile(initial) == [f \in {"data_file"} |-> initial.data_file]

\* _set_sequence_batcher_state: zero_data wins over data_file.
InitialState(initial) ==
    IF initial.zero_data = 1 THEN [f \in {"zero_data"} |-> 1]
    ELSE [f \in {"data_file"} |-> initial.data_file]

States(states) ==
    {[name |-> s.name, initial |-> {InitialState(i) : i \in s.initial_states}] : s \in states}

\* _set_sequence_batching: max_sequence_idle_microseconds has no place in it.
SequenceBatching(batcher) ==
    [present |-> "sequence_batching",
     strategy |-> BatcherStrategy(batcher.strategy),
     control_input |-> ControlInputs(batcher.control_inputs),
     state |-> States(batcher.states)]

NoBatching == [present |-> "none"]

\* _set_batching
Batching(config) ==
    IF config.batching = 0 THEN NoBatching
    ELSE IF config.batcher.kind = "dynamic" THEN DynamicBatching(config.batcher)
    ELSE SequenceBatching(config.batcher)

MaxBatchSize(config) == IF config.batching = 0 THEN 0 ELSE config.max_batch_size

\* _set_instance_group, with _filter_empty_values on each group.
InstanceGroups(groups) ==
    {[kind |-> g.kind, fields |-> Truthy(Without(g, {"kind", "count_given"}))] : g \in groups}

\* _set_tensorrt_accelerator: "if max_workspace_size:" leaves out an option
\* that was not given, and one that was given as 0.
TensorRTAccelerator(optimization) ==
    [kind |-> "accelerator", name |-> "tensorrt",
     parameters |-> Truthy(Without(optimization, {"kind", "accelerator"}))]

\* _set_tensorrt_optimization: eager batching is on as soon as there is an
\* optimization.
TensorRTOptimization(optimization) ==
    [kind |-> "tensorrt",
     parameters |-> WithField(Truthy(Without(optimization, {"kind"})), "eager_batching", 1)]

\* _set_onnx_optimization and _set_tensorflow_optimization
AcceleratedOptimization(optimization) ==
    IF optimization.accelerator = "tensorrt" THEN TensorRTAccelerator(optimization)
    ELSE [kind |-> "accelerator", name |-> optimization.accelerator, parameters |-> << >>]

Optimization(optimization) ==
    CASE optimization.kind = "none"     -> NoOptimization
      [] optimization.kind = "tensorrt" -> TensorRTOptimization(optimization)
      [] OTHER                          -> AcceleratedOptimization(optimization)

\* _rewrite_base_tensor and the input and output parts.
Signature(tensors) ==
    {[name |-> t.name, fields |-> Truthy(Without(t, {"name", "shape", "dtype"}))] : t \in tensors}

\* _format_data_type knows no Triton type for a tensor without one.
Writable(config) ==
    \A t \in config.inputs \cup config.outputs : t.dtype = 1

\* _get_config: the platform wins over the backend.
Generated(config) ==
    [serves |-> IF config.platform = NoPlatform THEN config.backend ELSE config.platform,
     max_batch_size |-> MaxBatchSize(config),
     batching |-> Batching(config),
     input |-> Signature(config.inputs), output |-> Signature(config.outputs),
     instance_group |-> InstanceGroups(config.instance_groups),
     optimization |-> Optimization(config.optimization),
     response_cache |-> config.response_cache]

----------------------------------------------------------------------------
(* What Triton makes of the file *)

\* A protobuf field that is not in a message is 0.
Field(message, f) == IF f \in DOMAIN message THEN message[f] ELSE 0

Reads(message, settings, fields) == \A f \in fields : Field(message, f) = settings[f]

\* The settings of a batcher are what its message says.
BatcherReaches(batcher, message) ==
    \/ /\ batcher.kind = "dynamic" /\ message.present = "dynamic_batching"
       /\ Reads(message.fields, batcher, DOMAIN batcher \ {"kind", "priority_queue_policy"})
       /\ message.priorities = batcher.priority_queue_policy
    \/ /\ batcher.kind = "sequence" /\ message.present = "sequence_batching"
       /\ message.strategy.kind = batcher.strategy.kind
       /\ Reads(message.strategy.fields, batcher.strategy, DOMAIN batcher.strategy \ {"kind"})
       /\ \A c \in batcher.control_inputs : \E m \in message.control_input :
             m.kind = c.kind /\ Reads(m.fields, c, DOMAIN c \ {"kind"})
       /\ \A s \in batcher.states : \E m \in message.state :
             /\ m.name = s.name
             /\ \A i \in s.initial_states : \E r \in m.initial :
                   Reads(r, i, {"zero_data", "data_file"})

GroupReaches(group, message) ==
    /\ message.kind = group.kind
    /\ Reads(message.fields, group, DOMAIN group \ {"kind", "count_given"})

\* The map says exactly the options that were given.
OptionsReach(optimization, parameters, ignored) ==
    LET given == DOMAIN optimization \ {"kind", "accelerator"}
        lost  == IF "explicit_zero" \in ignored THEN {o \in given : optimization[o] = 0} ELSE {}
    IN /\ DOMAIN parameters \subseteq given
       /\ \A o \in given \ lost : o \in DOMAIN parameters /\ parameters[o] = optimization[o]

OptimizationReaches(optimization, message, ignored) ==
    \/ optimization = NoOptimization /\ message = NoOptimization
    \/ /\ optimization.kind = "tensorrt"
       /\ Reads(message.parameters, optimization, DOMAIN optimization \ ({"kind"} \cup ignored))
    \/ /\ optimization.kind = "accelerated"
       /\ message.name = optimization.accelerator
       /\ optimization.accelerator = "tensorrt" =>
             OptionsReach(optimization, message.parameters, ignored)

TensorsReach(tensors, message) ==
    \A t \in tensors : \E m \in message :
        m.name = t.name /\ Reads(m.fields, t, DOMAIN t \ {"name", "shape", "dtype"})

\* The file says of a model what its configuration said, except for the
\* settings named ("explicit_zero" are the options of the accelerator that
\* were given as 0).
Reaches(config, file, ignored) ==
    /\ file.serves \in {config.backend, config.platform}
    /\ file.max_batch_size > 0 <=> config.batching = 1
    /\ config.batching = 1 => /\ file.max_batch_size = config.max_batch_size
                              /\ BatcherReaches(config.batcher, file.batching)
    /\ \A g \in config.instance_groups : \E m \in file.instance_group : GroupReaches(g, m)
    /\ OptimizationReaches(config.optimization, file.optimization, ignored)
    /\ TensorsReach(config.inputs, file.input) /\ TensorsReach(config.outputs, file.output)
    /\ file.response_cache = config.response_cache
    /\ "max_sequence_idle_microseconds" \notin ignored /\ config.batching = 1
          /\ config.batcher.kind = "sequence" =>
          config.batcher.max_sequence_idle_microseconds = 0
=============================================================================
