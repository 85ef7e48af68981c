--------------------------- MODULE MCStatusUpdate ---------------------------
(***************************************************************************)
(* Packages for StatusUpdate, as the statuses in tests/unit/base/mocks     *)
(* show them, with every result a runtime may have and with any of their   *)
(* models missing; a SavedModel of JAX has the options the update reads.   *)
(***************************************************************************)
EXTENDS StatusUpdate

Outcomes(statistics) ==
    {[tolerance |-> FALSE, sizes |-> {}, verified |-> FALSE, statistics |-> statistics],
     [tolerance |-> TRUE, sizes |-> {}, verified |-> FALSE, statistics |-> statistics],
     [tolerance |-> TRUE, sizes |-> {1}, verified |-> FALSE, statistics |-> statistics],
     [tolerance |-> TRUE, sizes |-> {1, 8}, verified |-> TRUE, statistics |-> statistics]}

Old(key, jit_type, precision, compile, runtimes) ==
    [key |-> key, format |-> key[1], jit_type |-> jit_type, precision |-> precision,
     compile |-> compile, runtimes |-> runtimes]

TorchModels ==
    {Old(<<"torchscript", "script">>, "script", "none", {}, {"PyTorchExecutionProvider"}),
     Old(<<"onnx">>, "none", "none", {}, {"CPUExecutionProvider"}),
     Old(<<"torch-trt", "script", "fp16">>, "script", "fp16", {}, {"PyTorchExecutionProvider"})}

TensorFlowModels ==
    {Old(<<"tf-savedmodel">>, "none", "none", {}, {"TensorFlowExecutionProvider"}),
     Old(<<"tf-trt", "fp32">>, "none", "fp32", {}, {"TensorFlowExecutionProvider"}),
     Old(<<"trt", "fp16">>, "none", "fp16", {}, {"TensorrtExecutionProvider", "TrtexecExecutionProvider"})}

JaxModels == {Old(<<"tf-savedmodel", "jit", "xla">>, "none", "none", {"jit", "xla"},
                  {"TensorFlowExecutionProvider"})}

WithOutcomes(m, outcomes) ==
    {[key |-> m.key, format |-> m.format, jit_type |-> m.jit_type, precision |-> m.precision,
      compile |-> m.compile, path |-> p, results |-> [r \in m.runtimes |-> o]] :
        p \in BOOLEAN, o \in outcomes}

\* What the versions of the old format wrote: number, statistics, fields.
OldVersions ==
    {[version |-> v, statistics |-> FALSE, fields |-> {"trt_dynamic_axes", "onnx_runtimes"}] : v \in {0, 10}}
    \cup {[version |-> v, statistics |-> TRUE,
           fields |-> {"trt_dynamic_axes", "onnx_runtimes", "optimization_profile"}] : v \in {0, 10, 12, 13}}
    \cup {[version |-> 14, statistics |-> TRUE,
           fields |-> {"trt_dynamic_axes", "runtimes", "optimization_profile"}]}

PackagesOf(framework, models) ==
    UNION {{[shape |-> "old", version |-> v.version, framework |-> framework,
             export_config |-> v.fields, models |-> {m, n}] :
                m \in UNION {WithOutcomes(x, Outcomes(v.statistics)) : x \in models},
                n \in UNION {WithOutcomes(x, {[tolerance |-> TRUE, sizes |-> {4}, verified |-> TRUE,
                                               statistics |-> v.statistics]}) : x \in models}} :
           v \in OldVersions}

\* No two entries of one model.
Distinct(package) ==
    \A m, n \in package.models : m.key = n.key => m = n

New(key, parent_key, jit_type, precision, compile) ==
    [key |-> key, format |-> key[1], parent_key |-> parent_key, jit_type |-> jit_type,
     precision |-> precision, compile |-> compile,
     runners |-> [n \in {"runner"} |->
        [status |-> [Correctness |-> "OK", Performance |-> "OK", VerifyModel |-> "SKIPPED"],
         sizes |-> {1, 2}]]]

NewModels ==
    {New(<<"torchscript", "script">>, << >>, "script", "none", {}),
     New(<<"torch-trt", "script", "fp32">>, <<"torchscript", "script">>, "none", "fp32", {}),
     New(<<"tf-savedmodel", "jit", "xla">>, << >>, "none", "none", {"jit", "xla"}),
     New(<<"onnx", "jit", "xla">>, <<"tf-savedmodel", "jit", "xla">>, "none", "none", {}),
     New(<<"trt", "jit", "xla", "fp16">>, <<"onnx", "jit", "xla">>, "none", "fp16", {}),
     New(<<"onnx", "script">>, <<"torchscript", "script">>, "none", "none", {}),
     New(<<"onnx">>, << >>, "none", "none", {}),
     New(<<"trt", "fp16">>, <<"onnx">>, "none", "fp16", {})}

\* A parent is in the file with its children.
NewPackages ==
    {[shape |-> "new", version |-> v, framework |-> "torch", export_config |-> {},
      config |-> IF v = 22 THEN {"optimization_profile"} ELSE c, max_batch_size |-> 2, models |-> ms] :
        v \in {20, 21, 22}, c \in {{}, {"profiler_config"}},
        ms \in {ms \in SUBSET NewModels :
                   \A m \in ms : m.parent_key # << >> => \E p \in ms : p.key = m.parent_key}}

MCPackages ==
    {p \in PackagesOf("pytorch", TorchModels) \cup PackagesOf("tensorflow2", TensorFlowModels)
             \cup PackagesOf("jax", JaxModels) : Distinct(p)}
    \cup NewPackages
=============================================================================
