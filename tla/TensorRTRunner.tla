-------------------------- MODULE TensorRTRunner --------------------------
(***************************************************************************)
(* A TensorRTRunner or TensorRTCUDAGraphRunner (runners/tensorrt.py) from  *)
(* one activation to the next, under the protocol of NavigatorRunner       *)
(* (runners/base.py).                                                      *)
(*                                                                         *)
(* The runner keeps a device buffer per input, an execution context that   *)
(* remembers shape and address of every input, and, with CUDA graphs, a    *)
(* captured graph that remembers both as they were at capture.  An         *)
(* inference brings these copies up to date one input at a time and may    *)
(* raise between any two of them; what it left behind is what the next     *)
(* one starts from.                                                        *)
(*                                                                         *)
(* The data of an inference is its number: an input was read correctly if  *)
(* the block that was read holds the number of the running inference.  An  *)
(* engine is static or has dynamic shapes; with TensorRT before 8.5 the    *)
(* legacy path runs.  Inputs are visited in any order.                     *)
(***************************************************************************)
EXTENDS DeviceMemory

CONSTANTS
    Shapes,             \* sizes of an input tensor, in bytes
    Unset,              \* shape of a dynamic input that was never set
    MaxCalls,           \* bound on the inferences of a behaviour
    MaxActivations      \* bound on its activations

ASSUME RunnerAssumption == /\ Shapes \subseteq Nat \ {0}
                           /\ \A used \in SUBSET Shapes : used # {} =>
                                 \E s \in used : \A t \in used : t <= s
                           /\ Unset \notin Shapes
                           /\ MaxCalls \in Nat
                           /\ MaxActivations \in Nat

VARIABLES
    mode,           \* v3: TensorRT 8.5 or newer; graphs: use_cuda_graphs;
                    \* static: shape of a static engine, Unset if dynamic
    pc,             \* what activate, infer or deactivate does next
    is_active,
    held,           \* context, stream and buffers are there to be used
    context,        \* shape and address per input
    cuda_graph,     \* "unset" (no attribute yet), "none" or "captured"
    graph_exe,      \* what an instantiated graph will read and write
    capturing,      \* the stream was left in capture mode
    feed,           \* feed_dict: kind, shape and block of each input
    pending,        \* inputs the running step has not visited
    reshape,        \* a shape changed during this inference
    result,         \* what the last execution read and wrote
    undisturbed,    \* this activation saw host arrays and no exception
    calls, activations

control == <<pc, is_active, held, pending, reshape>>
graph   == <<cuda_graph, graph_exe, capturing>>
history == <<undisturbed, calls, activations>>
vars    == <<memory, mode, control, context, graph, feed, result, history>>

\* numpy: host array.  cuda: torch tensor on the device.  host: torch tensor
\* in host memory.  missing: not in feed_dict.
Kinds == {"numpy", "cuda", "host", "missing"}

NoFeed   == [n \in Inputs |-> [kind |-> "missing", shape |-> Unset, block |-> Null]]
NoResult == [done |-> FALSE]
NoExe    == [exists |-> FALSE]

Init ==
    /\ heap = [a \in Addresses |-> Free]
    /\ data = [a \in Addresses |-> 0]
    /\ array = [n \in Arrays |-> Empty]
    /\ \E v3, graphs \in BOOLEAN, static \in Shapes \cup {Unset} :
          mode = [v3 |-> v3, graphs |-> graphs, static |-> static]
    /\ pc = "idle" /\ is_active = FALSE /\ held = FALSE
    /\ context = [n \in Inputs |-> [shape |-> Unset, address |-> Null]]
    /\ cuda_graph = "unset" /\ graph_exe = NoExe /\ capturing = FALSE
    /\ feed = NoFeed /\ pending = {} /\ reshape = FALSE
    /\ result = NoResult
    /\ undisturbed = TRUE /\ calls = 0 /\ activations = 0

----------------------------------------------------------------------------
(* activate *)

\* The arrays in device_buffers: before TensorRT 8.5 there is no output
\* allocator and the output has its buffer among them.
DeviceBuffers == IF mode.v3 THEN Inputs ELSE Arrays

\* activate and the first half of activate_impl: a fresh execution context.
\* Buffers a failed activation left behind are overwritten, not freed.
Activate ==
    /\ pc = "idle" /\ ~is_active /\ activations < MaxActivations
    /\ heap' = Dropped({}).heap /\ array' = Dropped({}).array
    /\ context' = [n \in Inputs |-> [shape |-> mode.static, address |-> Null]]
    /\ pc' = "buffers" /\ pending' = DeviceBuffers /\ held' = FALSE
    /\ activations' = activations + 1
    /\ UNCHANGED <<data, mode, is_active, graph, feed, reshape, result, undisturbed, calls>>

\* make_buffers: an array of shape () has room for one item.
MakeBuffer ==
    /\ pc = "buffers"
    /\ \E n \in pending : \E r \in Resized(n, 1) :
          /\ heap' = r.heap /\ array' = r.array
          /\ pending' = pending \ {n}
    /\ UNCHANGED <<data, mode, pc, is_active, held, context, graph, feed, reshape,
                   result, history>>

\* An allocation fails: the arrays made so far were in a local variable.
MakeBufferFails ==
    /\ pc = "buffers" /\ pending # {}
    /\ heap' = Dropped({}).heap /\ array' = Dropped({}).array
    /\ pc' = "idle" /\ pending' = {}
    /\ UNCHANGED <<data, mode, is_active, held, context, graph, feed, reshape,
                   result, history>>

\* The stream is created and the optimization profile set; only then is the
\* graph of an earlier activation forgotten.
FinishActivation ==
    /\ pc = "buffers" /\ pending = {}
    /\ pc' = "idle" /\ is_active' = TRUE /\ held' = TRUE
    /\ cuda_graph' = "none" /\ capturing' = FALSE /\ undisturbed' = TRUE
    /\ UNCHANGED <<memory, mode, pending, reshape, context, graph_exe, feed, result,
                   calls, activations>>

\* set_profile raises: the runner is not active but holds its buffers.
FinishActivationFails ==
    /\ pc = "buffers" /\ pending = {}
    /\ pc' = "idle" /\ held' = TRUE /\ undisturbed' = FALSE /\ capturing' = FALSE
    /\ UNCHANGED <<memory, mode, is_active, pending, reshape, context, cuda_graph,
                   graph_exe, feed, result, calls, activations>>

\* set_profile on an active runner: dynamic shapes have to be set anew.
SetProfile ==
    /\ pc = "idle" /\ held
    /\ context' = [n \in Inputs |-> [context[n] EXCEPT !.shape = mode.static]]
    /\ UNCHANGED <<memory, mode, control, graph, feed, result, history>>

----------------------------------------------------------------------------
(* infer *)

\* The caller's device tensors lie in blocks of their own, wherever
\* PyTorch's allocator put them, and hold this inference's data.
Feeds ==
    {f \in [Inputs -> [kind : Kinds, shape : Shapes, block : Addresses \cup {Null}]] :
        /\ \A n \in Inputs : IF f[n].kind = "cuda" THEN f[n].block \in TorchBlocks
                                                   ELSE f[n].block = Null
        /\ \A m, n \in Inputs : m # n /\ f[m].kind = "cuda" => f[m].block # f[n].block}

\* NavigatorRunner.infer: an inactive runner, a missing or a wrong input is
\* only logged.  Without a context infer_impl raises before it does anything.
Infer ==
    /\ pc = "idle" /\ held /\ calls < MaxCalls
    /\ feed' \in Feeds
    /\ LET tensors == {feed'[n].block : n \in Inputs} \ {Null} IN
       /\ heap' = [a \in Addresses |-> IF a \in tensors THEN Caller ELSE heap[a]]
       /\ data' = [a \in Addresses |-> IF a \in tensors THEN calls + 1 ELSE data[a]]
    /\ calls' = calls + 1
    /\ pc' = IF mode.v3 THEN "inputs" ELSE "shapes"
    /\ pending' = Inputs /\ reshape' = FALSE
    /\ result' = NoResult
    /\ undisturbed' = (undisturbed /\ \A n \in Inputs : feed'[n].kind = "numpy")
    /\ UNCHANGED <<array, mode, is_active, held, context, graph, activations>>

\* An exception leaves infer; everything done so far stays.
Raise ==
    /\ pc' = "idle" /\ pending' = {} /\ undisturbed' = FALSE
    /\ feed' = NoFeed
    /\ UNCHANGED <<mode, is_active, held, reshape, result, calls, activations>>

\* Fault (PlainRunnerReadsTheFeed): the context gets the address of before the
\* buffer grew.
HostCopiesWithOldPointer(n) ==
    {[heap |-> r.heap, array |-> r.array, ptr |-> array[n].ptr,
      data |-> [data EXCEPT ![r.array[n].ptr] = calls]] : r \in Resized(n, feed[n].shape)}

\* A host array is copied into the input's buffer.
HostCopies(n) ==
    {[heap |-> r.heap, array |-> r.array, ptr |-> r.array[n].ptr,
      data |-> [data EXCEPT ![r.array[n].ptr] = calls]] : r \in Resized(n, feed[n].shape)}

\* _input_tensor_view and the branches after it: where the input's data lies.
\* A host tensor is moved to the device into a block that nobody holds any
\* more once its address was taken.
Views(n) ==
    CASE feed[n].kind = "numpy" -> HostCopies(n)
      [] feed[n].kind = "cuda"  ->
            {[heap |-> heap, array |-> array, data |-> data, ptr |-> feed[n].block]}
      [] feed[n].kind = "host"  ->
            {[heap |-> [heap EXCEPT ![a] = Cached], array |-> array, ptr |-> a,
              data |-> [data EXCEPT ![a] = calls]] : a \in TorchBlocks}
      [] OTHER -> {}

\* set_input_shape accepts any shape of a dynamic engine.
Accepts(n) == mode.static \in {Unset, feed[n].shape}

\* _infer_impl_v3, one input of the loop.
SetInput ==
    /\ pc = "inputs"
    /\ \E n \in pending : \E v \in Views(n) :
          /\ feed[n].kind = "numpy" => ~capturing
          /\ Accepts(n)
          /\ heap' = v.heap /\ array' = v.array /\ data' = v.data
          /\ reshape' = (reshape \/ context[n].shape # feed[n].shape)
          /\ context' = [context EXCEPT ![n] = [shape |-> feed[n].shape, address |-> v.ptr]]
          /\ pending' = pending \ {n}
    /\ UNCHANGED <<mode, pc, is_active, held, graph, feed, result, history>>

\* The context refuses the shape, after the data was copied.
RefuseInput ==
    /\ pc = "inputs"
    /\ \E n \in pending : \E v \in Views(n) :
          /\ context[n].shape # feed[n].shape
          /\ heap' = [a \in Addresses |-> IF v.heap[a] = Caller THEN Cached ELSE v.heap[a]]
          /\ array' = v.array /\ data' = v.data
    /\ Raise
    /\ UNCHANGED <<context, graph>>

\* An input is missing or of a type the runner does not take, or the copy
\* fails, as it does on a stream in capture mode.
InputFails ==
    /\ pc = "inputs" /\ pending # {}
    /\ heap' = TensorsDropped
    /\ Raise
    /\ UNCHANGED <<data, array, context, graph>>

\* The buffer of an input cannot grow.
InputOutOfMemory ==
    /\ pc \in {"inputs", "copies"}
    /\ \E n \in pending :
          /\ feed[n].kind = "numpy" /\ feed[n].shape > array[n].allocated
          /\ array' = Unallocated(n).array
          /\ heap' = [a \in Addresses |-> IF heap[a] = Caller THEN Cached
                                                              ELSE Unallocated(n).heap[a]]
    /\ Raise
    /\ UNCHANGED <<data, context, graph>>

\* Fault (GraphFollowsHostFeeds): the graph is captured once per activation.
InputsDoneKeepingGraph ==
    /\ pc = "inputs" /\ pending = {}
    /\ pc' = IF ~mode.graphs THEN "execute"
             ELSE IF cuda_graph = "captured" THEN "launch" ELSE "capture"
    /\ UNCHANGED <<memory, mode, is_active, held, pending, reshape, context, graph, feed,
                   result, history>>

\* "Any change in shape requires recapture of CUDA graph".
InputsDone ==
    /\ pc = "inputs" /\ pending = {}
    /\ cuda_graph' = IF reshape THEN "none" ELSE cuda_graph
    /\ graph_exe' = IF reshape THEN NoExe ELSE graph_exe
    /\ pc' = IF ~mode.graphs THEN "execute"
             ELSE IF cuda_graph' = "captured" THEN "launch" ELSE "capture"
    /\ UNCHANGED <<memory, mode, is_active, held, pending, reshape, context, capturing,
                   feed, result, history>>

\* What an execution reads from its inputs, and where it writes the output.
Reading(shape, address, out, arrays) ==
    [done |-> TRUE,
     inputs |-> [n \in Inputs |-> [data  |-> IF address[n] = Null THEN 0 ELSE data[address[n]],
                                   shape |-> shape[n]]],
     wrote |-> out, returned |-> arrays[Output].ptr]

ContextShape   == [n \in Inputs |-> context[n].shape]
ContextAddress == [n \in Inputs |-> context[n].address]

\* reallocate_output: the output allocator grows with the largest input.
OutputSize == LET used == {context[n].shape : n \in Inputs} \cap Shapes IN
              IF used = {} THEN 1 ELSE CHOOSE s \in used : \A t \in used : t <= s

\* execute_async_v3 without CUDA graphs.
Execute ==
    /\ pc = "execute"
    /\ \E r \in Resized(Output, OutputSize) :
          /\ heap' = r.heap /\ array' = r.array
          /\ result' = Reading(ContextShape, ContextAddress, r.array[Output].ptr, r.array)
    /\ pc' = "return"
    /\ UNCHANGED <<data, mode, is_active, held, pending, reshape, context, graph, feed, history>>

\* The engine runs once, which gives the output its memory, and once more
\* while the stream captures; the graph holds the context's addresses.
Capture ==
    /\ pc = "capture" /\ cuda_graph = "none" /\ ~capturing
    /\ \E r \in Resized(Output, OutputSize) :
          /\ heap' = r.heap /\ array' = r.array
          /\ graph_exe' = [exists |-> TRUE, shape |-> ContextShape,
                           address |-> ContextAddress, out |-> r.array[Output].ptr]
    /\ cuda_graph' = "captured"
    /\ pc' = "launch"
    /\ UNCHANGED <<data, mode, is_active, held, pending, reshape, context, capturing, feed,
                   result, history>>

\* The second execution fails and the stream stays in capture mode, or the
\* captured graph cannot be instantiated and graph_exe stays what it was.
CaptureFails ==
    /\ pc = "capture" /\ cuda_graph = "none" /\ ~capturing
    /\ \E r \in Resized(Output, OutputSize) :
          /\ heap' = [a \in Addresses |-> IF r.heap[a] = Caller THEN Cached ELSE r.heap[a]]
          /\ array' = r.array
    /\ \/ capturing' = TRUE /\ UNCHANGED cuda_graph
       \/ cuda_graph' = "captured" /\ UNCHANGED capturing
    /\ Raise
    /\ UNCHANGED <<data, context, graph_exe>>

\* Whatever is in the captured blocks now is what the graph reads.
Launch ==
    /\ pc = "launch" /\ graph_exe.exists
    /\ result' = Reading(graph_exe.shape, graph_exe.address, graph_exe.out, array)
    /\ pc' = "return"
    /\ UNCHANGED <<memory, mode, is_active, held, pending, reshape, context, graph, feed, history>>

\* The output cannot grow, a copy fails, the engine reports an error, the
\* stream is still in capture mode, or there is no graph to launch.
ExecutionFails ==
    /\ pc \in {"execute", "capture", "launch", "outputs", "copies"}
    /\ \/ pc # "launch" /\ OutputSize > array[Output].allocated
          /\ array' = Unallocated(Output).array
          /\ heap' = [a \in Addresses |-> IF heap[a] = Caller THEN Cached
                                                              ELSE Unallocated(Output).heap[a]]
       \/ array' = array /\ heap' = TensorsDropped
    /\ Raise
    /\ UNCHANGED <<data, context, graph>>

\* The outputs are copied out and infer returns.
Return ==
    /\ pc = "return"
    /\ heap' = TensorsDropped
    /\ pc' = "idle" /\ feed' = NoFeed /\ result' = NoResult
    /\ UNCHANGED <<data, array, mode, is_active, held, pending, reshape, context, graph, history>>

----------------------------------------------------------------------------
(* infer before TensorRT 8.5 *)

\* _set_shapes_from_feed_dict_legacy: inputs that are in feed_dict only; the
\* shape of a static engine is not touched.
SetShape ==
    /\ pc = "shapes"
    /\ \E n \in pending :
          /\ context' = IF feed[n].kind = "missing" \/ mode.static # Unset THEN context
                        ELSE [context EXCEPT ![n].shape = feed[n].shape]
          /\ pending' = pending \ {n}
    /\ UNCHANGED <<memory, mode, pc, is_active, held, reshape, graph, feed, result, history>>

\* A shape is refused, or some input never got one.
SetShapeFails ==
    /\ pc = "shapes"
    /\ pending # {} \/ \E n \in Inputs : context[n].shape = Unset
    /\ heap' = TensorsDropped
    /\ Raise
    /\ UNCHANGED <<data, array, context, graph>>

ShapesDone ==
    /\ pc = "shapes" /\ pending = {}
    /\ \A n \in Inputs : context[n].shape # Unset
    /\ pc' = "outputs"
    /\ UNCHANGED <<memory, mode, is_active, held, pending, reshape, context, graph, feed,
                   result, history>>

ResizeOutput ==
    /\ pc = "outputs"
    /\ \E r \in Resized(Output, OutputSize) : heap' = r.heap /\ array' = r.array
    /\ pc' = "copies" /\ pending' = {n \in Inputs : feed[n].kind # "missing"}
    /\ UNCHANGED <<data, mode, is_active, held, reshape, context, graph, feed, result, history>>

CopyInput ==
    /\ pc = "copies"
    /\ \E n \in pending :
          /\ feed[n].kind = "numpy"
          /\ \E v \in HostCopies(n) : heap' = v.heap /\ array' = v.array /\ data' = v.data
          /\ pending' = pending \ {n}
    /\ UNCHANGED <<mode, pc, is_active, held, reshape, context, graph, feed, result, history>>

\* The legacy path takes no torch tensors.
CopyInputFails ==
    /\ pc = "copies" /\ \E n \in pending : feed[n].kind # "numpy"
    /\ heap' = TensorsDropped
    /\ Raise
    /\ UNCHANGED <<data, array, context, graph>>

\* execute_async_v2 with the pointers of the buffers as bindings.
ExecuteLegacy ==
    /\ pc = "copies" /\ pending = {}
    /\ result' = Reading(ContextShape, [n \in Inputs |-> array[n].ptr], array[Output].ptr, array)
    /\ pc' = "return"
    /\ UNCHANGED <<memory, mode, is_active, held, pending, reshape, context, graph, feed, history>>

----------------------------------------------------------------------------
(* deactivate *)

\* deactivate_impl frees device_buffers; an output allocator is only dropped.
\* The attributes of the graph survive.
Deactivate ==
    /\ pc = "idle" /\ is_active
    /\ heap' = Dropped(DeviceBuffers).heap /\ array' = Dropped(DeviceBuffers).array
    /\ is_active' = FALSE /\ held' = FALSE
    /\ UNCHANGED <<data, mode, pc, pending, reshape, context, graph, feed, result, history>>

\* free() raises for some buffer: is_active is None, the context is closed.
DeactivateFails ==
    /\ pc = "idle" /\ is_active
    /\ \E freed \in SUBSET DeviceBuffers :
          /\ freed # DeviceBuffers
          /\ heap' = Dropped(freed).heap /\ array' = Dropped(freed).array
    /\ is_active' = FALSE /\ held' = FALSE
    /\ UNCHANGED <<data, mode, pc, pending, reshape, context, graph, feed, result, history>>

Next ==
    \/ Activate \/ MakeBuffer \/ MakeBufferFails
    \/ FinishActivation \/ FinishActivationFails \/ SetProfile
    \/ Infer
    \/ SetInput \/ RefuseInput \/ InputFails \/ InputOutOfMemory \/ InputsDone
    \/ Execute \/ Capture \/ CaptureFails \/ Launch \/ ExecutionFails
    \/ SetShape \/ SetShapeFails \/ ShapesDone \/ ResizeOutput
    \/ CopyInput \/ CopyInputFails \/ ExecuteLegacy
    \/ Return
    \/ Deactivate \/ DeactivateFails

Spec == Init /\ [][Next]_vars

----------------------------------------------------------------------------
(* Properties *)

\* The running inference read its own data in its own shapes, and hands out
\* the buffer it wrote.
ReadsTheFeed ==
    /\ \A n \in Inputs : result.inputs[n] = [data |-> calls, shape |-> feed[n].shape]
    /\ result.wrote = result.returned

\* All inputs are there, as host arrays or device tensors, in shapes of the
\* engine.
WellFormed == \A n \in Inputs : feed[n].kind \in {"numpy", "cuda"} /\ Accepts(n)

UsesGraphs == mode.v3 /\ mode.graphs

\* Without CUDA graphs an inference reads what it was fed, however many
\* inferences failed half way before it, grew or failed to grow a buffer, or
\* came with tensors of another kind (TensorRTRunner._infer_impl_v3 and
\* _infer_impl_legacy keep shapes, addresses and buffers in step).
PlainRunnerReadsTheFeed ==
    pc = "return" /\ ~UsesGraphs /\ WellFormed => ReadsTheFeed

\* A captured graph stands for the inferences it is replayed for as long as
\* the runner sees host arrays only and no inference of this activation
\* raised: a change of shape always leads to a new capture, and without one
\* the buffers stay where they are (TensorRTRunner._infer_impl_v3).
GraphFollowsHostFeeds ==
    pc = "return" /\ UsesGraphs /\ undisturbed => ReadsTheFeed

\* infer "Runs inference using the provided feed_dict" (NavigatorRunner.infer),
\* with CUDA graphs as well.
GraphRunnerReadsTheFeed ==
    pc = "return" /\ UsesGraphs /\ is_active /\ WellFormed => ReadsTheFeed
============================================================================
