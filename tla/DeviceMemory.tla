--------------------------- MODULE DeviceMemory ---------------------------
(***************************************************************************)
(* Memory of one CUDA device and the DeviceArrays that hold pieces of it   *)
(* (frameworks/tensorrt/cuda.py).  A block of memory is an address; whom   *)
(* it belongs to is heap, and which inference wrote it last is data.       *)
(*                                                                         *)
(* Two allocators share the device.  cudaMalloc and cudaFree serve the     *)
(* arrays.  PyTorch's allocator serves the tensors of the caller and keeps *)
(* a block it gets back in a cache of its own, so cudaMalloc cannot hand   *)
(* it out again but the next tensor can have it.                           *)
(*                                                                         *)
(* A definition introduced by "Fault", here and in TensorRTRunner, is a    *)
(* plausible bug in the definition after it, with which TLC refutes the    *)
(* property named; nothing uses it.                                        *)
(***************************************************************************)
EXTENDS Naturals

CONSTANTS
    Addresses,      \* the blocks of the device
    Null,           \* the null pointer
    Inputs,         \* names of the engine's inputs, each with an array
    Output          \* name of the array of the output allocator

ASSUME MemoryAssumption == /\ Null \notin Addresses
                           /\ Output \notin Inputs
                           /\ \A n \in {"free", "cached", "caller", "lost"} :
                                 n \notin Inputs /\ n # Output

VARIABLES
    heap,           \* owner of each block
    data,           \* number of the inference whose data a block holds
    array           \* DeviceArray: pointer and allocated bytes

memory == <<heap, data, array>>

Arrays == Inputs \cup {Output}

\* Owners of a block that no DeviceArray holds: nobody, PyTorch's cache, a
\* tensor of the caller, or an array that was dropped without free().
Free   == "free"
Cached == "cached"
Caller == "caller"
Lost   == "lost"

\* DeviceArray.__init__ before its first resize, and after free().
Empty == [ptr |-> Null, allocated |-> 0]

\* free: the block goes back to cudaFree; freeing the null pointer is allowed.
Freed(n) == IF array[n].ptr = Null THEN heap
                                   ELSE [heap EXCEPT ![array[n].ptr] = Free]

\* resize: a region that is large enough is kept, otherwise it is freed
\* first and a new one is allocated, wherever cudaMalloc finds it.
Resized(n, nbytes) ==
    IF nbytes <= array[n].allocated
    THEN {[heap |-> heap, array |-> array]}
    ELSE {[heap  |-> [Freed(n) EXCEPT ![p] = n],
           array |-> [array EXCEPT ![n] = [ptr |-> p, allocated |-> nbytes]]] :
             p \in {a \in Addresses : Freed(n)[a] = Free}}

\* Fault (BuffersAreOwned): the pointer to the region that was freed stays.
UnallocatedDangling(n) == [heap |-> Freed(n), array |-> array]

\* resize when cudaMalloc fails: the old region is gone already.
Unallocated(n) == [heap  |-> Freed(n),
                   array |-> [array EXCEPT ![n] = Empty]]

\* Blocks PyTorch's allocator may use for the next tensor.
TorchBlocks == {a \in Addresses : heap[a] \in {Free, Cached}}

\* Tensors of the caller of one inference are dropped when it is over.
TensorsDropped ==
    [a \in Addresses |-> IF heap[a] = Caller THEN Cached ELSE heap[a]]

\* Arrays that go away: free() was called for some of them, the others were
\* only dropped.  DeviceArray has no finaliser, so their blocks are lost.
Dropped(freed) ==
    LET Blocks(names) == {array[n].ptr : n \in names} \ {Null} IN
    [heap  |-> [a \in Addresses |-> IF a \in Blocks(freed) THEN Free
                                    ELSE IF a \in Blocks(Arrays) THEN Lost ELSE heap[a]],
     array |-> [n \in Arrays |-> Empty]]

----------------------------------------------------------------------------
\* One owner per block: a pointer of an array leads to a block that belongs
\* to this array and to no other, an array without memory claims none, and
\* what belongs to an array is reachable from it, so that free() reaches it.
\* It is what keeps cudaFree from being called twice or on foreign memory
\* whatever mixture of resizes, failed allocations and failed activations
\* came before (DeviceArray.resize and free).
BuffersAreOwned ==
    /\ \A n \in Arrays : /\ array[n].ptr # Null => heap[array[n].ptr] = n
                         /\ array[n].ptr = Null <=> array[n].allocated = 0
    /\ \A a \in Addresses : heap[a] \in Arrays => array[heap[a]].ptr = a
============================================================================
