------------------------- MODULE MCPipelinePlanning -------------------------
(***************************************************************************)
(* PipelinePlanning for the default options and for several JIT types,     *)
(* precisions and SavedModel options at once.                              *)
(***************************************************************************)
EXTENDS PipelinePlanning

AllFlows == {"optimize", "package_optimize", "package_profile"}
AllDevices == {"cuda", "cpu"}

Plain ==
  [jit |-> << <<"script">> >>,
   precision |-> [f \in TensorRTFormats |-> << <<"fp16">> >>],
   compile |-> << <<>> >>, extended |-> FALSE]

Rich ==
  [jit |-> << <<"script">>, <<"trace">> >>,
   precision |-> [f \in TensorRTFormats |->
                    IF f = "trt" THEN << <<"int8">>, <<"fp32">>, <<"fp16">> >>
                    ELSE << <<"fp32">>, <<"fp16">> >>],
   compile |-> << <<>>, <<"xla">>, <<"jit">>, <<"jit", "xla">> >>, extended |-> TRUE]

AllRunners == {RunnerRegistry[i].name : i \in DOMAIN RunnerRegistry}
MCSelections == {AllRunners, {"OnnxCUDA", "TensorRT", "TorchCPU"}}

MCCustoms == {Plain, Rich}
=============================================================================
