------------------------- MODULE MCTritonRepository -------------------------
(***************************************************************************)
(* Models for TritonRepository: a plain configuration per backend with a   *)
(* model of every source, and around it every batcher, group, optimization *)
(* and tensor of interest, the wrong ones included, with one source.       *)
(***************************************************************************)
EXTENDS TritonRepository

\* Of every format with two runners, one that is put on the GPU and one that
\* is not; of SavedModels the one that is measured there and not put there.
MCRuntimes ==
    {r \in TritonRunners : r.runner \in {"OnnxCPU", "OnnxTensorRT", "TensorRT", "TorchScriptCPU",
                                         "TorchScriptCUDA", "TensorFlowSavedModelCUDA",
                                         "TensorFlowTensorRT"}}

\* With sizes 1 and 2, without batching, and with one runtime that failed.
MCMeasurements == {[r \in MCRuntimes |-> {1, 2}], [r \in MCRuntimes |-> {0}],
                   [r \in MCRuntimes |-> IF r.format = "onnx" THEN {} ELSE {2}]}

Plain(backend) ==
    LET tensors == IF backend \in {"python", "pytorch"} THEN {TensorFromMetadata("x")} ELSE {}
    IN [backend |-> backend, platform |-> NoPlatform, batching |-> 1, max_batch_size |-> 4,
        batcher |-> PlainBatcher, instance_groups |-> {}, inputs |-> tensors, outputs |-> tensors,
        optimization |-> NoOptimization, response_cache |-> 0]

DynamicBatchers ==
    {[PlainBatcher EXCEPT !.max_queue_delay_microseconds = 5, !.preferred_batch_size = 1,
                          !.priority_levels = l, !.default_priority_level = l,
                          !.priority_queue_policy = k] : l \in 0..1, k \in {{}, {0}, {1}, {2}}}

Control(kind, dtype, int32, fp32) ==
    [kind |-> kind, dtype |-> dtype, int32_false_true |-> int32, fp32_false_true |-> fp32,
     bool_false_true |-> 0]

Sequence(strategy, idle, controls, states) ==
    [kind |-> "sequence", strategy |-> strategy, max_sequence_idle_microseconds |-> idle,
     control_inputs |-> controls, states |-> states]

NoStrategy == [kind |-> "none"]
Direct == [kind |-> "direct", max_queue_delay_microseconds |-> 0, minimum_slot_utilization |-> 1]
Oldest == [kind |-> "oldest", max_candidate_sequences |-> 0, preferred_batch_size |-> 1,
           max_queue_delay_microseconds |-> 0]

State(zero, file) ==
    [name |-> "s", initial_states |-> {[zero_data |-> zero, data_file |-> file]}]

SequenceBatchers ==
    {Sequence(s, 1, {}, {}) : s \in {NoStrategy, Direct, Oldest, [kind |-> "other"]}}
    \cup {Sequence(Direct, 0, {Control(k, d, i, f)}, {}) :
             k \in {"START", "CORRID"}, d \in {0, 1}, i \in {0, 2}, f \in {0, 2}}
    \cup {Sequence(Oldest, 0, {}, {State(z, f)}) : z \in {0, 1}, f \in {0, 1}}

InstanceGroups3 ==
    {[GroupOfKind(k) EXCEPT !.count_given = 1, !.count = n, !.gpus = g] :
        k \in {"KIND_CPU", "KIND_GPU"}, n \in {0, 2}, g \in {1}}
    \cup {[GroupOfKind("KIND_GPU") EXCEPT !.profile = 1, !.passive = 1]}

TRTOptimizations ==
    {[kind |-> "tensorrt", cuda_graphs |-> c, gather_kernel_buffer_threshold |-> t, eager_batching |-> e] :
        c \in {0, 1}, t \in {0, 9}, e \in {0, 1}}

AcceleratorOptions ==
    {<< >>, [max_workspace_size |-> 7], [minimum_segment_size |-> 0],
     [max_workspace_size |-> 0, max_cached_engines |-> 5]}

Accelerated(names) ==
    {[kind |-> "accelerated", accelerator |-> a] : a \in names}
    \cup {DefaultAccelerator @@ given : given \in AcceleratorOptions}

OddTensors == {[TensorFromMetadata("y") EXCEPT !.shape = "wrong"],
               [TensorFromMetadata("y") EXCEPT !.dtype = 0],
               [TensorFromMetadata("y") EXCEPT !.reshape = 2, !.optional = 1, !.allow_ragged_batch = 1]}

MCConfigs ==
    {Plain(b) : b \in Backends}
    \cup {[Plain("onnxruntime") EXCEPT !.batcher = b] : b \in DynamicBatchers \cup SequenceBatchers}
    \cup {[Plain("tensorrt") EXCEPT !.instance_groups = {g}] : g \in InstanceGroups3}
    \cup {[Plain("onnxruntime") EXCEPT !.instance_groups = {g}] : g \in InstanceGroups3}
    \cup {[Plain("tensorrt") EXCEPT !.optimization = o] : o \in TRTOptimizations}
    \cup {[Plain(b) EXCEPT !.optimization = o, !.batching = 0, !.response_cache = 1] :
             b \in {"onnxruntime", "tensorflow"}, o \in Accelerated({"openvino", "gpu_io"})}
    \cup {[Plain("pytorch") EXCEPT !.inputs = {t}] : t \in OddTensors}
    \cup {[Plain("python") EXCEPT !.outputs = {}], [Plain("onnxruntime") EXCEPT !.max_batch_size = 0],
          [Plain("tensorrt") EXCEPT !.platform = "tensorrt_plan"],
          [Plain("tensorrt") EXCEPT !.platform = "onnxruntime_onnx"]}

MCUploads ==
    {[config |-> Plain(b), source |-> s] : b \in Backends, s \in {"file", "directory"}}
    \cup {[config |-> Plain("onnxruntime"), source |-> "split"]}
    \cup {[config |-> c, source |-> "file"] : c \in MCConfigs}
=============================================================================
