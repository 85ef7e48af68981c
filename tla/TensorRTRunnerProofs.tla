------------------------ MODULE TensorRTRunnerProofs ------------------------
(***************************************************************************)
(* Device memory has one owner and a TensorRT runner reads what it was     *)
(* fed, for every number of blocks, inputs, shapes, activations and        *)
(* inferences.                                                             *)
(*                                                                         *)
(* None of the properties is inductive.  RunnerInv adds what an inference  *)
(* has achieved for the inputs it has visited (InputsSet for TensorRT 8.5  *)
(* and later, ShapesSet and InputsCopied before), that the blocks of the   *)
(* caller's tensors are nobody else's meanwhile (TensorsHeld), and that a  *)
(* captured graph is about the buffers as they are (GraphMatches).         *)
(***************************************************************************)
EXTENDS TensorRTRunner, TLAPS

\* BuffersAreOwned for any heap and arrays, and their types.
Owned(h, arr) ==
    /\ h \in [Addresses -> Arrays \cup {Free, Cached, Caller, Lost}]
    /\ arr \in [Arrays -> [ptr : Addresses \cup {Null}, allocated : Nat]]
    /\ \A n \in Arrays : /\ arr[n].ptr # Null => h[arr[n].ptr] = n
                         /\ arr[n].ptr = Null <=> arr[n].allocated = 0
    /\ \A a \in Addresses : h[a] \in Arrays => arr[h[a]].ptr = a

Running == pc \notin {"idle", "buffers"}

ModeType    == [v3 : BOOLEAN, graphs : BOOLEAN, static : Shapes \cup {Unset}]
ContextType == [shape : Shapes \cup {Unset}, address : Addresses \cup {Null}]
FeedType    == [kind : Kinds, shape : Shapes \cup {Unset}, block : Addresses \cup {Null}]

TypeInv ==
    /\ mode \in ModeType
    /\ pc \in {"idle", "buffers", "return", "inputs", "execute", "capture", "launch",
               "shapes", "outputs", "copies"}
    /\ held \in BOOLEAN /\ reshape \in BOOLEAN /\ undisturbed \in BOOLEAN
    /\ data \in [Addresses -> Nat] /\ calls \in Nat
    /\ context \in [Inputs -> ContextType]
    /\ feed \in [Inputs -> FeedType]
    /\ pending \subseteq Arrays

\* Which path runs when, and that the context of a static engine has its shape.
ControlInv ==
    /\ pc = "buffers" => ~held
    /\ Running => held /\ pending \subseteq Inputs
    /\ Running => \A n \in Inputs : feed[n].shape \in Shapes
    /\ pc \in {"inputs", "execute", "capture", "launch"} => mode.v3
    /\ pc \in {"shapes", "outputs", "copies"} => ~mode.v3
    /\ pc = "execute" => ~mode.graphs
    /\ pc \in {"capture", "launch"} => mode.graphs
    /\ pc = "launch" => cuda_graph = "captured"
    /\ pc \in {"execute", "capture", "launch"} => pending = {}
    /\ (held \/ pc = "buffers") /\ mode.static # Unset =>
          \A n \in Inputs : context[n].shape = mode.static

TensorsHeld ==
    Running => \A n \in Inputs : feed[n].kind = "cuda" =>
        feed[n].block \in Addresses /\ heap[feed[n].block] = Caller /\ data[feed[n].block] = calls

\* A buffer that holds the data of the running inference.
HoldsData(n) == /\ array[n].ptr \in Addresses
                /\ data[array[n].ptr] = calls
                /\ feed[n].shape <= array[n].allocated

InputsSet ==
    pc \in {"inputs", "execute", "capture", "launch"} =>
        \A n \in Inputs \ pending :
            /\ context[n].shape = feed[n].shape
            /\ feed[n].kind = "numpy" => HoldsData(n) /\ context[n].address = array[n].ptr
            /\ feed[n].kind = "cuda" => context[n].address = feed[n].block

ShapesSet ==
    /\ pc = "shapes" => \A n \in Inputs \ pending :
          Accepts(n) /\ feed[n].kind # "missing" => context[n].shape = feed[n].shape
    /\ pc \in {"outputs", "copies"} => \A n \in Inputs :
          Accepts(n) /\ feed[n].kind # "missing" => context[n].shape = feed[n].shape

InputsCopied ==
    pc = "copies" => \A n \in Inputs \ pending :
        feed[n].kind = "missing" \/ (feed[n].kind = "numpy" /\ HoldsData(n))

\* As long as nothing disturbed this activation, a graph that will be
\* launched reads the inputs' buffers and writes the output's, and the
\* context has the shapes of its capture or none.
GraphMatches ==
    held /\ UsesGraphs /\ undisturbed =>
        /\ Running => \A n \in Inputs : feed[n].kind = "numpy"
        /\ cuda_graph = "captured" /\ ~(pc = "inputs" /\ reshape) =>
              /\ graph_exe.exists
              /\ graph_exe.out = array[Output].ptr
              /\ \A n \in Inputs :
                    /\ graph_exe.address[n] = array[n].ptr /\ array[n].ptr \in Addresses
                    /\ graph_exe.shape[n] \in Shapes
                    /\ graph_exe.shape[n] <= array[n].allocated
                    /\ context[n].shape \in {Unset, graph_exe.shape[n]}

RunnerInv ==
    /\ Owned(heap, array)
    /\ TypeInv
    /\ ControlInv
    /\ TensorsHeld
    /\ InputsSet
    /\ ShapesSet
    /\ InputsCopied
    /\ GraphMatches
    /\ PlainRunnerReadsTheFeed
    /\ GraphFollowsHostFeeds

----------------------------------------------------------------------------
(* Memory *)

LEMMA Names == \A n \in Arrays : n \notin {Free, Cached, Caller, Lost}
BY MemoryAssumption DEF Arrays, Free, Cached, Caller, Lost

LEMMA ShapesAreSizes == \A s \in Shapes : s \in Nat /\ s > 0 /\ s # Unset
<1>1. Shapes \subseteq Nat \ {0} /\ Unset \notin Shapes
  BY RunnerAssumption
<1> QED
  BY <1>1

LEMMA OutputSizeIsNat == OutputSize \in Nat
<1> DEFINE used == {context[n].shape : n \in Inputs} \cap Shapes
<1>1. CASE used = {}
  BY <1>1 DEF OutputSize
<1>2. CASE used # {}
  <2>1. \E s \in used : \A t \in used : t <= s
    BY <1>2, RunnerAssumption
  <2>2. OutputSize = CHOOSE s \in used : \A t \in used : t <= s
    BY <1>2 DEF OutputSize
  <2>3. OutputSize \in used
    BY <2>1, <2>2
  <2> QED
    BY <2>3, RunnerAssumption
<1> QED
  BY <1>1, <1>2

\* What resize leaves behind.
LEMMA ResizedOwned ==
    ASSUME Owned(heap, array), NEW n \in Arrays, NEW nbytes \in Nat,
           NEW r \in Resized(n, nbytes)
    PROVE  /\ Owned(r.heap, r.array)
           /\ \A m \in Arrays \ {n} : r.array[m] = array[m]
           /\ nbytes <= r.array[n].allocated
           /\ nbytes <= array[n].allocated => r.array = array
           /\ \A a \in Addresses : heap[a] = Caller => r.heap[a] = Caller
<1>1. CASE nbytes <= array[n].allocated
  <2>1. r.heap = heap /\ r.array = array
    BY <1>1 DEF Resized
  <2> QED
    BY <1>1, <2>1
<1>2. CASE ~(nbytes <= array[n].allocated)
  <2>1. PICK p \in Addresses :
          /\ Freed(n)[p] = Free
          /\ r.heap = [Freed(n) EXCEPT ![p] = n]
          /\ r.array = [array EXCEPT ![n] = [ptr |-> p, allocated |-> nbytes]]
    <3> DEFINE Given(p) == [heap |-> [Freed(n) EXCEPT ![p] = n],
                            array |-> [array EXCEPT ![n] = [ptr |-> p, allocated |-> nbytes]]]
               FreeNow == {a \in Addresses : Freed(n)[a] = Free}
    <3>1. r \in {Given(p) : p \in FreeNow}
      BY <1>2, Zenon DEF Resized
    <3>2. PICK p \in FreeNow : r = Given(p)
      <4> HIDE DEF Given
      <4> QED
        BY <3>1
    <3> QED
      BY <3>2
  <2>2. /\ Freed(n) \in [Addresses -> Arrays \cup {Free, Cached, Caller, Lost}]
        /\ \A a \in Addresses : Freed(n)[a] # n
        /\ \A a \in Addresses : heap[a] # n => Freed(n)[a] = heap[a]
        /\ \A a \in Addresses : Freed(n)[a] # Free => Freed(n)[a] = heap[a]
    BY Names, MemoryAssumption DEF Freed, Owned
  <2>3. nbytes > 0 /\ p # Null
    BY <1>2, MemoryAssumption DEF Owned
  <2>4. Owned(r.heap, r.array)
    <3>1. r.heap \in [Addresses -> Arrays \cup {Free, Cached, Caller, Lost}]
      BY <2>1, <2>2
    <3>2. r.array \in [Arrays -> [ptr : Addresses \cup {Null}, allocated : Nat]]
      BY <2>1 DEF Owned
    <3>3. \A m \in Arrays : /\ r.array[m].ptr # Null => r.heap[r.array[m].ptr] = m
                            /\ r.array[m].ptr = Null <=> r.array[m].allocated = 0
      <4> TAKE m \in Arrays
      <4>1. CASE m = n
        BY <2>1, <2>2, <2>3, <4>1 DEF Owned
      <4>2. CASE m # n
        <5>1. r.array[m] = array[m]
          BY <2>1, <4>2 DEF Owned
        <5>2. ASSUME array[m].ptr # Null PROVE r.heap[array[m].ptr] = m
          <6>1. array[m].ptr \in Addresses /\ heap[array[m].ptr] = m
            BY <5>2 DEF Owned
          <6>2. Freed(n)[array[m].ptr] = m /\ m # Free
            BY <2>2, <4>2, <6>1, Names
          <6> QED
            BY <2>1, <2>2, <6>1, <6>2
        <5> QED
          BY <5>1, <5>2 DEF Owned
      <4> QED
        BY <4>1, <4>2
    <3>4. \A a \in Addresses : r.heap[a] \in Arrays => r.array[r.heap[a]].ptr = a
      <4> TAKE a \in Addresses
      <4> HAVE r.heap[a] \in Arrays
      <4>1. CASE a = p
        BY <2>1, <2>2, <4>1 DEF Owned
      <4>2. CASE a # p
        <5>1. r.heap[a] = Freed(n)[a] /\ r.heap[a] # n /\ r.heap[a] = heap[a]
          BY <2>1, <2>2, <4>2, Names
        <5> QED
          BY <2>1, <5>1 DEF Owned
      <4> QED
        BY <4>1, <4>2
    <3> QED
      BY <3>1, <3>2, <3>3, <3>4 DEF Owned
  <2>5. \A m \in Arrays \ {n} : r.array[m] = array[m]
    BY <2>1 DEF Owned
  <2>6. r.array[n].allocated = nbytes
    BY <2>1 DEF Owned
  <2>7. \A a \in Addresses : heap[a] = Caller => r.heap[a] = Caller
    <3> TAKE a \in Addresses
    <3> HAVE heap[a] = Caller
    <3>1. Freed(n)[a] = Caller /\ Caller # Free
      BY <2>2, Names DEF Caller, Free
    <3> QED
      BY <2>1, <2>2, <3>1
  <2> QED
    BY <1>2, <2>4, <2>5, <2>6, <2>7
<1> QED
  BY <1>1, <1>2

\* A resize that fails has given the old region back.
LEMMA UnallocatedOwned ==
    ASSUME Owned(heap, array), NEW n \in Arrays
    PROVE  Owned(Unallocated(n).heap, Unallocated(n).array)
<1> DEFINE h == Freed(n)
           arr == [array EXCEPT ![n] = Empty]
<1>1. Unallocated(n).heap = h /\ Unallocated(n).array = arr
  BY DEF Unallocated
<1>2. /\ h \in [Addresses -> Arrays \cup {Free, Cached, Caller, Lost}]
      /\ \A a \in Addresses : h[a] # n
      /\ \A a \in Addresses : heap[a] # n => h[a] = heap[a]
      /\ \A a \in Addresses : h[a] # Free => h[a] = heap[a]
  BY Names, MemoryAssumption DEF Freed, Owned
<1>3. arr \in [Arrays -> [ptr : Addresses \cup {Null}, allocated : Nat]]
  BY DEF Owned, Empty
<1>4. \A m \in Arrays : /\ arr[m].ptr # Null => h[arr[m].ptr] = m
                        /\ arr[m].ptr = Null <=> arr[m].allocated = 0
  BY <1>2 DEF Owned, Empty
<1>5. \A a \in Addresses : h[a] \in Arrays => arr[h[a]].ptr = a
  BY <1>2, Names DEF Owned
<1> HIDE DEF h, arr
<1> QED
  BY <1>1, <1>2, <1>3, <1>4, <1>5 DEF Owned

\* Tensors of the caller take blocks that no array holds.
LEMMA TensorsOwned ==
    ASSUME NEW h, NEW arr, Owned(h, arr), NEW S,
           \A a \in Addresses : a \in S => h[a] \notin Arrays
    PROVE  Owned([a \in Addresses |-> IF a \in S THEN Caller ELSE h[a]], arr)
BY Names DEF Owned

\* The caller's tensors go away.
LEMMA CallerGone ==
    ASSUME NEW h, NEW arr, Owned(h, arr)
    PROVE  Owned([a \in Addresses |-> IF h[a] = Caller THEN Cached ELSE h[a]], arr)
BY Names DEF Owned

LEMMA DroppedOwned ==
    ASSUME Owned(heap, array), NEW freed \in SUBSET Arrays
    PROVE  Owned(Dropped(freed).heap, Dropped(freed).array)
<1> DEFINE Blocks(names) == {array[n].ptr : n \in names} \ {Null}
           h == [a \in Addresses |-> IF a \in Blocks(freed) THEN Free
                                     ELSE IF a \in Blocks(Arrays) THEN Lost ELSE heap[a]]
           arr == [n \in Arrays |-> Empty]
<1>1. Dropped(freed).heap = h /\ Dropped(freed).array = arr
  BY DEF Dropped
<1>2. h \in [Addresses -> Arrays \cup {Free, Cached, Caller, Lost}]
  BY DEF Owned
<1>3. \A a \in Addresses : h[a] \notin Arrays
  <2> TAKE a \in Addresses
  <2>1. CASE a \in Blocks(Arrays)
    BY <2>1, Names
  <2>2. CASE a \notin Blocks(Arrays)
    <3>1. heap[a] \notin Arrays
      BY <2>2, MemoryAssumption DEF Owned
    <3> QED
      BY <2>2, <3>1, Names
  <2> QED
    BY <2>1, <2>2
<1>4. arr \in [Arrays -> [ptr : Addresses \cup {Null}, allocated : Nat]]
  BY DEF Empty
<1>5. \A n \in Arrays : arr[n].ptr = Null /\ arr[n].allocated = 0
  BY DEF Empty
<1> HIDE DEF h, arr
<1> QED
  BY <1>1, <1>2, <1>3, <1>4, <1>5 DEF Owned

LEMMA OwnedIsProperty == Owned(heap, array) => BuffersAreOwned
BY DEF Owned, BuffersAreOwned

----------------------------------------------------------------------------
(* Steps that end, or happen outside, an inference *)

LEMMA InitRunner == Init => RunnerInv
<1> SUFFICES ASSUME Init PROVE RunnerInv
  OBVIOUS
<1> USE MemoryAssumption, RunnerAssumption
<1>1. Owned(heap, array)
  BY Names DEF Init, Owned, Empty
<1>2. TypeInv
  <2>1. mode \in ModeType
    BY DEF Init, ModeType
  <2>2. context \in [Inputs -> ContextType] /\ feed \in [Inputs -> FeedType]
    BY DEF Init, ContextType, FeedType, NoFeed, Kinds
  <2> QED
    BY <2>1, <2>2 DEF Init, TypeInv
<1>3. ControlInv /\ TensorsHeld /\ InputsSet /\ ShapesSet /\ InputsCopied /\ GraphMatches
  BY DEF Init, ControlInv, TensorsHeld, InputsSet, ShapesSet, InputsCopied, GraphMatches, Running
<1>4. PlainRunnerReadsTheFeed /\ GraphFollowsHostFeeds
  BY DEF Init, PlainRunnerReadsTheFeed, GraphFollowsHostFeeds
<1> QED
  BY <1>1, <1>2, <1>3, <1>4 DEF RunnerInv

\* Outside an inference little has to be shown.
LEMMA OutsideInference ==
    ASSUME pc' \in {"idle", "buffers"}, Owned(heap, array)', TypeInv', GraphMatches',
           pc' = "buffers" => ~held',
           (held' \/ pc' = "buffers") /\ mode'.static # Unset =>
              \A n \in Inputs : context'[n].shape = mode'.static
    PROVE  RunnerInv'
<1>1. ~Running' /\ pc' \notin {"inputs", "execute", "capture", "launch", "shapes", "outputs",
                               "copies", "return"}
  BY DEF Running
<1> QED
  BY <1>1 DEF RunnerInv, ControlInv, TensorsHeld, InputsSet, ShapesSet, InputsCopied,
    PlainRunnerReadsTheFeed, GraphFollowsHostFeeds

\* An exception leaves memory in order, and the activation disturbed.
LEMMA RaiseStep ==
    ASSUME RunnerInv, Running, Raise, Owned(heap, array)', data' \in [Addresses -> Nat],
           UNCHANGED context
    PROVE  RunnerInv'
<1> USE DEF RunnerInv
<1>1. TypeInv'
  BY DEF Raise, TypeInv, NoFeed, Kinds, FeedType
<1>2. GraphMatches'
  BY DEF Raise, GraphMatches
<1>3. pc' = "idle" /\ held /\ UNCHANGED <<held, mode>>
  BY DEF Raise, ControlInv
<1>4. mode.static # Unset => \A n \in Inputs : context[n].shape = mode.static
  BY <1>3 DEF ControlInv
<1> QED
  BY <1>1, <1>2, <1>3, <1>4, OutsideInference

LEMMA ActivateStep == RunnerInv /\ (Activate \/ MakeBuffer \/ MakeBufferFails) => RunnerInv'
<1> SUFFICES ASSUME RunnerInv, Activate \/ MakeBuffer \/ MakeBufferFails PROVE RunnerInv'
  OBVIOUS
<1> USE DEF RunnerInv
<1>1. Owned(heap, array)'
  <2>1. CASE Activate \/ MakeBufferFails
    BY <2>1, DroppedOwned DEF Activate, MakeBufferFails
  <2>2. CASE MakeBuffer
    <3>1. PICK n \in pending : \E r \in Resized(n, 1) : heap' = r.heap /\ array' = r.array
      BY <2>2 DEF MakeBuffer
    <3> QED
      BY <3>1, ResizedOwned DEF TypeInv
  <2> QED
    BY <2>1, <2>2
<1>2. TypeInv'
  <2>1. DeviceBuffers \subseteq Arrays
    BY DEF DeviceBuffers, Arrays
  <2>2. context' \in [Inputs -> ContextType]
    BY DEF Activate, MakeBuffer, MakeBufferFails, TypeInv, ModeType, ContextType
  <2> QED
    BY <2>1, <2>2 DEF Activate, MakeBuffer, MakeBufferFails, TypeInv, graph, history
<1>3. ~held' /\ pc' \in {"idle", "buffers"}
  BY DEF Activate, MakeBuffer, MakeBufferFails, ControlInv
<1>4. GraphMatches'
  BY <1>3 DEF GraphMatches
<1>5. pc' = "buffers" /\ mode'.static # Unset =>
         \A n \in Inputs : context'[n].shape = mode'.static
  BY DEF Activate, MakeBuffer, MakeBufferFails, ControlInv
<1> QED
  BY <1>1, <1>2, <1>3, <1>4, <1>5, OutsideInference

LEMMA FinishStep ==
    RunnerInv /\ (FinishActivation \/ FinishActivationFails \/ SetProfile) => RunnerInv'
<1> SUFFICES ASSUME RunnerInv, FinishActivation \/ FinishActivationFails \/ SetProfile
             PROVE  RunnerInv'
  OBVIOUS
<1> USE DEF RunnerInv, memory, control, graph, history
<1>1. Owned(heap, array)'
  BY DEF FinishActivation, FinishActivationFails, SetProfile
<1>2. TypeInv'
  <2>1. context' \in [Inputs -> ContextType]
    BY DEF FinishActivation, FinishActivationFails, SetProfile, TypeInv, ModeType, ContextType
  <2> QED
    BY <2>1 DEF FinishActivation, FinishActivationFails, SetProfile, TypeInv
<1>3. pc' = "idle"
  BY DEF FinishActivation, FinishActivationFails, SetProfile
<1>4. GraphMatches'
  <2>1. CASE FinishActivation \/ FinishActivationFails
    BY <1>3, <2>1 DEF FinishActivation, FinishActivationFails, GraphMatches, Running
  <2>2. CASE SetProfile
    <3>1. \A n \in Inputs : context'[n].shape \in {Unset, context[n].shape}
      BY <2>2 DEF SetProfile, ControlInv, TypeInv, ContextType
    <3> QED
      BY <1>3, <2>2, <3>1 DEF SetProfile, GraphMatches, Running, UsesGraphs
  <2> QED
    BY <2>1, <2>2
<1>5. mode'.static # Unset => \A n \in Inputs : context'[n].shape = mode'.static
  BY DEF FinishActivation, FinishActivationFails, SetProfile, ControlInv, TypeInv, ContextType
<1> QED
  BY <1>1, <1>2, <1>3, <1>4, <1>5, OutsideInference

LEMMA DeactivateStep == RunnerInv /\ (Deactivate \/ DeactivateFails) => RunnerInv'
<1> SUFFICES ASSUME RunnerInv, Deactivate \/ DeactivateFails PROVE RunnerInv'
  OBVIOUS
<1> USE DEF RunnerInv
<1>1. DeviceBuffers \subseteq Arrays
  BY DEF DeviceBuffers, Arrays
<1>2. Owned(heap, array)'
  BY <1>1, DroppedOwned DEF Deactivate, DeactivateFails
<1>3. TypeInv'
  BY DEF Deactivate, DeactivateFails, TypeInv, graph, history
<1>4. GraphMatches' /\ ~held' /\ pc' = "idle"
  BY DEF Deactivate, DeactivateFails, GraphMatches
<1> QED
  BY <1>2, <1>3, <1>4, OutsideInference

LEMMA ReturnStep == RunnerInv /\ Return => RunnerInv'
<1> SUFFICES ASSUME RunnerInv, Return PROVE RunnerInv'
  OBVIOUS
<1> USE DEF RunnerInv, Return
<1>1. Owned(heap, array)'
  BY CallerGone DEF TensorsDropped
<1>2. TypeInv'
  BY DEF TypeInv, NoFeed, Kinds, FeedType, graph, history
<1>3. GraphMatches'
  BY DEF GraphMatches, Running, UsesGraphs, graph, history
<1>4. mode'.static # Unset => \A n \in Inputs : context'[n].shape = mode'.static
  BY DEF ControlInv, Running
<1> QED
  BY <1>1, <1>2, <1>3, <1>4, OutsideInference

\* Every way in which infer raises.
LEMMA RaisingStep ==
    RunnerInv /\ (InputFails \/ InputOutOfMemory \/ CaptureFails \/ ExecutionFails
                  \/ SetShapeFails \/ CopyInputFails) => RunnerInv'
<1> SUFFICES ASSUME RunnerInv,
                    InputFails \/ InputOutOfMemory \/ CaptureFails \/ ExecutionFails
                    \/ SetShapeFails \/ CopyInputFails
             PROVE  RunnerInv'
  OBVIOUS
<1> USE DEF RunnerInv
<1>1. Running /\ Raise /\ data' = data /\ context' = context
  BY DEF InputFails, InputOutOfMemory, CaptureFails, ExecutionFails, SetShapeFails,
    CopyInputFails, Running
<1>2. Output \in Arrays /\ OutputSize \in Nat
  BY OutputSizeIsNat DEF Arrays
<1>3. ASSUME NEW n \in Arrays,
             array' = Unallocated(n).array,
             heap' = [a \in Addresses |-> IF heap[a] = Caller THEN Cached
                                                              ELSE Unallocated(n).heap[a]]
      PROVE  Owned(heap, array)'
  <2>1. Owned(Unallocated(n).heap, Unallocated(n).array)
    BY UnallocatedOwned
  <2>2. \A a \in Addresses : heap[a] = Caller <=> Unallocated(n).heap[a] = Caller
    BY Names DEF Unallocated, Freed, Owned, Free, Caller
  <2>3. heap' = [a \in Addresses |-> IF Unallocated(n).heap[a] = Caller THEN Cached
                                                        ELSE Unallocated(n).heap[a]]
    BY <1>3, <2>2
  <2> QED
    BY <1>3, <2>1, <2>3, CallerGone
<1>4. Owned(heap, array)'
  <2>1. CASE heap' = TensorsDropped /\ array' = array
    BY <2>1, CallerGone DEF TensorsDropped
  <2>2. CASE InputOutOfMemory
    <3>1. pending \subseteq Arrays
      BY DEF TypeInv
    <3> QED
      BY <1>3, <2>2, <3>1 DEF InputOutOfMemory
  <2>3. CASE CaptureFails
    <3>1. PICK r \in Resized(Output, OutputSize) :
            /\ heap' = [a \in Addresses |-> IF r.heap[a] = Caller THEN Cached ELSE r.heap[a]]
            /\ array' = r.array
      BY <2>3 DEF CaptureFails
    <3>2. Owned(r.heap, r.array)
      BY <1>2, ResizedOwned
    <3> QED
      BY <3>1, <3>2, CallerGone
  <2>4. CASE ExecutionFails
    BY <1>2, <1>3, <2>1, <2>4 DEF ExecutionFails
  <2> QED
    BY <2>1, <2>2, <2>3, <2>4 DEF InputFails, SetShapeFails, CopyInputFails
<1> QED
  BY <1>1, <1>4, RaiseStep DEF TypeInv

----------------------------------------------------------------------------
(* Steps of an inference *)

\* A view v of input n leaves the other inputs, and the caller's tensors, as
\* they were.
Keeps(n, v) ==
    /\ \A m \in Arrays \ {n} : v.array[m] = array[m]
    /\ \A m \in Arrays \ {n} : array[m].ptr \in Addresses =>
                                  v.data[array[m].ptr] = data[array[m].ptr]
    /\ \A a \in Addresses : heap[a] = Caller => v.heap[a] = Caller /\ v.data[a] = data[a]

LEMMA HostCopy ==
    ASSUME Owned(heap, array), data \in [Addresses -> Nat], calls \in Nat,
           NEW n \in Inputs, feed[n].shape \in Shapes, NEW v \in HostCopies(n)
    PROVE  /\ Owned(v.heap, v.array) /\ v.data \in [Addresses -> Nat]
           /\ Keeps(n, v)
           /\ v.ptr = v.array[n].ptr /\ v.ptr \in Addresses /\ v.data[v.ptr] = calls
           /\ feed[n].shape <= v.array[n].allocated
           /\ feed[n].shape <= array[n].allocated => v.array = array
<1>1. PICK r \in Resized(n, feed[n].shape) :
        /\ v.heap = r.heap /\ v.array = r.array /\ v.ptr = r.array[n].ptr
        /\ v.data = [data EXCEPT ![r.array[n].ptr] = calls]
  <2> DEFINE Copied(r) == [heap |-> r.heap, array |-> r.array, ptr |-> r.array[n].ptr,
                           data |-> [data EXCEPT ![r.array[n].ptr] = calls]]
  <2>1. v \in {Copied(r) : r \in Resized(n, feed[n].shape)}
    BY Zenon DEF HostCopies
  <2>2. PICK r \in Resized(n, feed[n].shape) : v = Copied(r)
    <3> HIDE DEF Copied
    <3> QED
      BY <2>1
  <2> QED
    BY <2>2
<1>2. n \in Arrays /\ feed[n].shape \in Nat /\ feed[n].shape > 0
  BY ShapesAreSizes DEF Arrays
<1>3. /\ Owned(r.heap, r.array)
      /\ \A m \in Arrays \ {n} : r.array[m] = array[m]
      /\ feed[n].shape <= r.array[n].allocated
      /\ feed[n].shape <= array[n].allocated => r.array = array
      /\ \A a \in Addresses : heap[a] = Caller => r.heap[a] = Caller
  BY <1>2, ResizedOwned
<1>4. r.array[n].ptr \in Addresses /\ r.heap[r.array[n].ptr] = n
  <2>1. r.array[n].allocated # 0
    BY <1>2, <1>3
  <2> QED
    BY <1>2, <1>3, <2>1 DEF Owned
<1>5. \A m \in Arrays \ {n} : array[m].ptr \in Addresses => array[m].ptr # r.array[n].ptr
  <2> TAKE m \in Arrays \ {n}
  <2> HAVE array[m].ptr \in Addresses
  <2>1. r.heap[array[m].ptr] = m
    BY <1>3, MemoryAssumption DEF Owned
  <2> QED
    BY <1>4, <2>1
<1>6. \A a \in Addresses : heap[a] = Caller => a # r.array[n].ptr
  BY <1>2, <1>3, <1>4, Names
<1> QED
  BY <1>1, <1>3, <1>4, <1>5, <1>6 DEF Keeps

LEMMA ViewOfInput ==
    ASSUME RunnerInv, Running, NEW n \in Inputs, NEW v \in Views(n)
    PROVE  /\ Owned(v.heap, v.array) /\ v.data \in [Addresses -> Nat]
           /\ v.ptr \in Addresses
           /\ Keeps(n, v)
           /\ feed[n].kind = "numpy" =>
                 /\ v.ptr = v.array[n].ptr /\ v.data[v.ptr] = calls
                 /\ feed[n].shape <= v.array[n].allocated
                 /\ feed[n].shape <= array[n].allocated => v.array = array
           /\ feed[n].kind = "cuda" => v.ptr = feed[n].block
<1> USE DEF RunnerInv
<1>1. /\ Owned(heap, array) /\ data \in [Addresses -> Nat] /\ calls \in Nat
      /\ feed[n].shape \in Shapes
  BY DEF TypeInv, ControlInv
<1>2. CASE feed[n].kind = "numpy"
  <2>1. v \in HostCopies(n)
    BY <1>2 DEF Views
  <2> QED
    BY <1>1, <1>2, <2>1, HostCopy
<1>3. CASE feed[n].kind = "cuda"
  <2>1. v = [heap |-> heap, array |-> array, data |-> data, ptr |-> feed[n].block]
    BY <1>3 DEF Views
  <2> QED
    BY <1>1, <1>3, <2>1 DEF Keeps, TensorsHeld
<1>4. CASE feed[n].kind = "host"
  <2>1. PICK a \in TorchBlocks :
          v = [heap |-> [heap EXCEPT ![a] = Cached], array |-> array, ptr |-> a,
               data |-> [data EXCEPT ![a] = calls]]
    BY <1>4 DEF Views
  <2>2. a \in Addresses /\ heap[a] \in {Free, Cached}
    BY <2>1 DEF TorchBlocks
  <2>3. Owned(v.heap, v.array) /\ v.data \in [Addresses -> Nat] /\ v.ptr \in Addresses
    BY <1>1, <2>1, <2>2, Names DEF Owned
  <2>4. Keeps(n, v)
    <3>1. heap[a] # Caller /\ heap[a] \notin Arrays
      BY <2>2, Names DEF Free, Cached, Caller
    <3>2. \A m \in Arrays : array[m].ptr \in Addresses => array[m].ptr # a
      BY <1>1, <3>1, MemoryAssumption DEF Owned
    <3> QED
      BY <1>1, <2>1, <2>2, <3>1, <3>2 DEF Keeps
  <2> QED
    BY <1>4, <2>3, <2>4
<1>5. CASE feed[n].kind \notin {"numpy", "cuda", "host"}
  BY <1>5 DEF Views
<1> QED
  BY <1>2, <1>3, <1>4, <1>5

LEMMA RefuseStep == RunnerInv /\ RefuseInput => RunnerInv'
<1> SUFFICES ASSUME RunnerInv, RefuseInput PROVE RunnerInv'
  OBVIOUS
<1> USE DEF RunnerInv
<1>1. Running /\ Raise /\ context' = context /\ pending \subseteq Inputs
  BY DEF RefuseInput, Running, ControlInv
<1>2. PICK n \in pending : \E v \in Views(n) :
        /\ heap' = [a \in Addresses |-> IF v.heap[a] = Caller THEN Cached ELSE v.heap[a]]
        /\ array' = v.array /\ data' = v.data
  BY DEF RefuseInput
<1>3. PICK v \in Views(n) :
        /\ heap' = [a \in Addresses |-> IF v.heap[a] = Caller THEN Cached ELSE v.heap[a]]
        /\ array' = v.array /\ data' = v.data
  BY <1>2
<1>4. Owned(v.heap, v.array) /\ v.data \in [Addresses -> Nat]
  BY <1>1, ViewOfInput
<1>5. Owned(heap, array)'
  BY <1>3, <1>4, CallerGone
<1> QED
  BY <1>1, <1>3, <1>4, <1>5, RaiseStep

\* The caller's tensors take their blocks.
LEMMA InferStep == RunnerInv /\ Infer => RunnerInv'
<1> SUFFICES ASSUME RunnerInv, Infer PROVE RunnerInv'
  OBVIOUS
<1> USE DEF RunnerInv
<1> DEFINE tensors == {feed'[n].block : n \in Inputs} \ {Null}
<1>1. /\ pc = "idle" /\ held /\ feed' \in Feeds
      /\ heap' = [a \in Addresses |-> IF a \in tensors THEN Caller ELSE heap[a]]
      /\ data' = [a \in Addresses |-> IF a \in tensors THEN calls + 1 ELSE data[a]]
      /\ calls' = calls + 1 /\ pending' = Inputs /\ reshape' = FALSE
      /\ pc' = IF mode.v3 THEN "inputs" ELSE "shapes"
      /\ undisturbed' = (undisturbed /\ \A n \in Inputs : feed'[n].kind = "numpy")
      /\ UNCHANGED <<array, mode, held, context, graph>>
  BY DEF Infer
<1>2. \A n \in Inputs : /\ feed'[n].kind \in Kinds /\ feed'[n].shape \in Shapes
                        /\ feed'[n].block \in Addresses \cup {Null}
                        /\ feed'[n].kind = "cuda" => feed'[n].block \in TorchBlocks
                        /\ feed'[n].kind # "cuda" => feed'[n].block = Null
  BY <1>1 DEF Feeds
<1>3. feed' \in [Inputs -> FeedType]
  BY <1>1 DEF Feeds, FeedType
<1>4. tensors \subseteq TorchBlocks
  BY <1>2
<1>5. \A a \in tensors : a \in Addresses /\ heap[a] \notin Arrays
  BY <1>4, Names DEF TorchBlocks
<1> HIDE DEF tensors
<1>6. Owned(heap, array)'
  <2>1. Owned([a \in Addresses |-> IF a \in tensors THEN Caller ELSE heap[a]], array)
    <3>1. Owned(heap, array)
      OBVIOUS
    <3> QED
      BY <1>5, <3>1, TensorsOwned
  <2>2. heap' = [a \in Addresses |-> IF a \in tensors THEN Caller ELSE heap[a]] /\ array' = array
    BY <1>1
  <2> QED
    BY <2>1, <2>2
<1>7. TypeInv'
  <2>1. data' \in [Addresses -> Nat] /\ calls' \in Nat
    BY <1>1 DEF TypeInv
  <2>2. pending' \subseteq Arrays /\ reshape' \in BOOLEAN /\ undisturbed' \in BOOLEAN
    BY <1>1 DEF Arrays
  <2> QED
    BY <1>1, <1>3, <2>1, <2>2 DEF TypeInv
<1>8. ControlInv'
  BY <1>1, <1>2 DEF ControlInv, Running, TypeInv
<1>9. TensorsHeld'
  BY <1>1, <1>2, MemoryAssumption DEF TensorsHeld, tensors, TorchBlocks
<1>10. InputsSet' /\ ShapesSet' /\ InputsCopied'
  BY <1>1 DEF InputsSet, ShapesSet, InputsCopied
<1>11. GraphMatches'
  BY <1>1 DEF GraphMatches, UsesGraphs, graph, TypeInv
<1>12. PlainRunnerReadsTheFeed' /\ GraphFollowsHostFeeds'
  BY <1>1 DEF PlainRunnerReadsTheFeed, GraphFollowsHostFeeds
<1> QED
  BY <1>6, <1>7, <1>8, <1>9, <1>10, <1>11, <1>12

\* One input is set; the ones set before stay set.
LEMMA SetInputStep == RunnerInv /\ SetInput => RunnerInv'
<1> SUFFICES ASSUME RunnerInv, SetInput PROVE RunnerInv'
  OBVIOUS
<1> USE DEF RunnerInv
<1>1. PICK n \in pending : \E v \in Views(n) :
        /\ Accepts(n)
        /\ heap' = v.heap /\ array' = v.array /\ data' = v.data
        /\ reshape' = (reshape \/ context[n].shape # feed[n].shape)
        /\ context' = [context EXCEPT ![n] = [shape |-> feed[n].shape, address |-> v.ptr]]
        /\ pending' = pending \ {n}
  BY DEF SetInput
<1>2. PICK v \in Views(n) :
        /\ Accepts(n)
        /\ heap' = v.heap /\ array' = v.array /\ data' = v.data
        /\ reshape' = (reshape \/ context[n].shape # feed[n].shape)
        /\ context' = [context EXCEPT ![n] = [shape |-> feed[n].shape, address |-> v.ptr]]
        /\ pending' = pending \ {n}
  BY <1>1
<1>3. /\ pc = "inputs" /\ pc' = "inputs" /\ Running /\ Running'
      /\ UNCHANGED <<mode, held, cuda_graph, graph_exe, feed, undisturbed, calls>>
  BY DEF SetInput, Running, graph, history
<1>4. n \in Inputs /\ n \in Arrays /\ feed[n].shape \in Shapes
  BY <1>3 DEF ControlInv, Arrays
<1>5. /\ Owned(v.heap, v.array) /\ v.data \in [Addresses -> Nat]
      /\ v.ptr \in Addresses
      /\ Keeps(n, v)
      /\ feed[n].kind = "numpy" =>
            /\ v.ptr = v.array[n].ptr /\ v.data[v.ptr] = calls
            /\ feed[n].shape <= v.array[n].allocated
            /\ feed[n].shape <= array[n].allocated => v.array = array
      /\ feed[n].kind = "cuda" => v.ptr = feed[n].block
  BY <1>3, <1>4, ViewOfInput
<1>6. context \in [Inputs -> ContextType]
  BY DEF TypeInv
<1>7. TypeInv'
  <2>1. context' \in [Inputs -> ContextType]
    BY <1>2, <1>4, <1>5, <1>6 DEF ContextType
  <2> QED
    BY <1>2, <1>3, <1>5, <2>1 DEF TypeInv
<1>8. ControlInv'
  BY <1>2, <1>3, <1>4, <1>6 DEF ControlInv, Accepts, ContextType
<1>9. TensorsHeld'
  BY <1>2, <1>3, <1>5 DEF TensorsHeld, Keeps
<1>10. InputsSet'
  <2> SUFFICES ASSUME NEW m \in Inputs \ pending'
               PROVE  /\ context'[m].shape = feed'[m].shape
                      /\ feed'[m].kind = "numpy" =>
                            HoldsData(m)' /\ context'[m].address = array'[m].ptr
                      /\ feed'[m].kind = "cuda" => context'[m].address = feed'[m].block
    BY DEF InputsSet
  <2>1. CASE m = n
    BY <1>2, <1>3, <1>4, <1>5, <1>6, <2>1 DEF HoldsData, ContextType
  <2>2. CASE m # n
    <3>1. m \in Inputs \ pending /\ m \in Arrays /\ context'[m] = context[m]
          /\ array'[m] = array[m]
      BY <1>2, <1>5, <1>6, <2>2 DEF Keeps, Arrays
    <3>2. array[m].ptr \in Addresses => data'[array[m].ptr] = data[array[m].ptr]
      BY <1>2, <1>5, <2>2, <3>1 DEF Keeps
    <3> QED
      BY <1>3, <3>1, <3>2 DEF InputsSet, HoldsData
  <2> QED
    BY <2>1, <2>2
<1>11. ShapesSet' /\ InputsCopied'
  BY <1>3 DEF ShapesSet, InputsCopied
<1>12. GraphMatches'
  <2> SUFFICES ASSUME held, UsesGraphs, undisturbed, cuda_graph = "captured", ~reshape'
               PROVE  /\ graph_exe.exists
                      /\ graph_exe.out = array'[Output].ptr
                      /\ \A m \in Inputs :
                            /\ graph_exe.address[m] = array'[m].ptr /\ array'[m].ptr \in Addresses
                            /\ graph_exe.shape[m] \in Shapes
                            /\ graph_exe.shape[m] <= array'[m].allocated
                            /\ context'[m].shape \in {Unset, graph_exe.shape[m]}
    BY <1>3 DEF GraphMatches, UsesGraphs
  <2>1. ~reshape /\ context[n].shape = feed[n].shape
    BY <1>2 DEF TypeInv
  <2>2. /\ feed[n].kind = "numpy"
        /\ graph_exe.exists
        /\ graph_exe.out = array[Output].ptr
        /\ \A m \in Inputs :
              /\ graph_exe.address[m] = array[m].ptr /\ array[m].ptr \in Addresses
              /\ graph_exe.shape[m] \in Shapes
              /\ graph_exe.shape[m] <= array[m].allocated
              /\ context[m].shape \in {Unset, graph_exe.shape[m]}
    BY <1>3, <1>4, <2>1 DEF GraphMatches
  <2>3. feed[n].shape = graph_exe.shape[n]
    BY <1>4, <2>1, <2>2, RunnerAssumption
  <2>4. array' = array
    BY <1>2, <1>4, <1>5, <2>2, <2>3
  <2>5. \A m \in Inputs : context'[m].shape = context[m].shape
    BY <1>2, <1>4, <1>6, <2>1 DEF ContextType
  <2> QED
    BY <2>2, <2>4, <2>5
<1>13. PlainRunnerReadsTheFeed' /\ GraphFollowsHostFeeds'
  BY <1>3 DEF PlainRunnerReadsTheFeed, GraphFollowsHostFeeds
<1> QED
  BY <1>2, <1>5, <1>7, <1>8, <1>9, <1>10, <1>11, <1>12, <1>13

\* A graph whose shapes are out of date is forgotten before it is launched.
LEMMA InputsDoneStep == RunnerInv /\ InputsDone => RunnerInv'
<1> SUFFICES ASSUME RunnerInv, InputsDone PROVE RunnerInv'
  OBVIOUS
<1> USE DEF RunnerInv, InputsDone, memory
<1>1. /\ pc = "inputs" /\ pending = {} /\ Running /\ Running'
      /\ pc' \in {"execute", "capture", "launch"}
      /\ pc' = "execute" => ~mode.graphs
      /\ pc' \in {"capture", "launch"} => mode.graphs
      /\ pc' = "launch" => cuda_graph' = "captured"
      /\ cuda_graph' = "captured" => ~reshape /\ cuda_graph = "captured" /\ graph_exe' = graph_exe
      /\ UNCHANGED <<heap, data, array, mode, held, pending, reshape, context, feed,
                     undisturbed, calls>>
  BY DEF Running, TypeInv, ModeType, history
<1>2. Owned(heap, array)' /\ TypeInv' /\ ControlInv' /\ TensorsHeld'
  BY <1>1 DEF TypeInv, ControlInv, TensorsHeld
<1>3. InputsSet' /\ ShapesSet' /\ InputsCopied'
  BY <1>1 DEF InputsSet, ShapesSet, InputsCopied, HoldsData
<1>4. GraphMatches'
  BY <1>1 DEF GraphMatches, UsesGraphs
<1>5. PlainRunnerReadsTheFeed' /\ GraphFollowsHostFeeds'
  BY <1>1 DEF PlainRunnerReadsTheFeed, GraphFollowsHostFeeds
<1> QED
  BY <1>2, <1>3, <1>4, <1>5

\* The engine runs on the addresses the context was given.
LEMMA ExecuteStep == RunnerInv /\ Execute => RunnerInv'
<1> SUFFICES ASSUME RunnerInv, Execute PROVE RunnerInv'
  OBVIOUS
<1> USE DEF RunnerInv
<1>1. PICK r \in Resized(Output, OutputSize) :
        /\ heap' = r.heap /\ array' = r.array
        /\ result' = Reading(ContextShape, ContextAddress, r.array[Output].ptr, r.array)
  BY DEF Execute
<1>2. /\ pc = "execute" /\ pc' = "return" /\ Running /\ Running' /\ pending = {}
      /\ UNCHANGED <<data, mode, held, pending, reshape, context, feed, undisturbed, calls>>
      /\ ~UsesGraphs /\ ~UsesGraphs'
  BY DEF Execute, Running, ControlInv, UsesGraphs, history
<1>3. /\ Owned(r.heap, r.array)
      /\ \A a \in Addresses : heap[a] = Caller => r.heap[a] = Caller
  BY OutputSizeIsNat, ResizedOwned DEF Arrays
<1>4. Owned(heap, array)' /\ TypeInv' /\ ControlInv'
  BY <1>1, <1>2, <1>3 DEF TypeInv, ControlInv
<1>5. TensorsHeld'
  BY <1>1, <1>2, <1>3 DEF TensorsHeld
<1>6. InputsSet' /\ ShapesSet' /\ InputsCopied' /\ GraphMatches' /\ GraphFollowsHostFeeds'
  BY <1>2 DEF InputsSet, ShapesSet, InputsCopied, GraphMatches, GraphFollowsHostFeeds
<1>7. PlainRunnerReadsTheFeed'
  <2> SUFFICES ASSUME WellFormed PROVE ReadsTheFeed'
    BY <1>2 DEF PlainRunnerReadsTheFeed, WellFormed, Accepts
  <2>1. ASSUME NEW n \in Inputs
        PROVE  result'.inputs[n] = [data |-> calls, shape |-> feed[n].shape]
    <3>1. /\ context[n].shape = feed[n].shape
          /\ context[n].address \in Addresses /\ data[context[n].address] = calls
      BY <1>2 DEF WellFormed, InputsSet, HoldsData, TensorsHeld
    <3>2. ContextAddress[n] = context[n].address /\ ContextShape[n] = context[n].shape
      BY DEF ContextAddress, ContextShape
    <3>3. result'.inputs[n] = [data |-> data[context[n].address], shape |-> context[n].shape]
      BY <1>1, <3>1, <3>2, MemoryAssumption DEF Reading
    <3> QED
      BY <3>1, <3>3
  <2>2. result'.wrote = result'.returned
    BY <1>1 DEF Reading
  <2> QED
    BY <1>2, <2>1, <2>2 DEF ReadsTheFeed
<1> QED
  BY <1>4, <1>5, <1>6, <1>7

\* The graph is captured with the buffers, which stay where they are.
LEMMA CaptureStep == RunnerInv /\ Capture => RunnerInv'
<1> SUFFICES ASSUME RunnerInv, Capture PROVE RunnerInv'
  OBVIOUS
<1> USE DEF RunnerInv
<1>1. PICK r \in Resized(Output, OutputSize) :
        /\ heap' = r.heap /\ array' = r.array
        /\ graph_exe' = [exists |-> TRUE, shape |-> ContextShape,
                         address |-> ContextAddress, out |-> r.array[Output].ptr]
  BY DEF Capture
<1>2. /\ pc = "capture" /\ pc' = "launch" /\ Running /\ Running' /\ pending = {}
      /\ cuda_graph' = "captured"
      /\ UNCHANGED <<data, mode, held, pending, reshape, context, feed, undisturbed, calls>>
  BY DEF Capture, Running, ControlInv, history
<1>3. /\ Owned(r.heap, r.array)
      /\ \A n \in Inputs : r.array[n] = array[n]
      /\ \A a \in Addresses : heap[a] = Caller => r.heap[a] = Caller
  BY OutputSizeIsNat, ResizedOwned, MemoryAssumption DEF Arrays
<1>4. Owned(heap, array)' /\ TypeInv' /\ ControlInv'
  BY <1>1, <1>2, <1>3 DEF TypeInv, ControlInv
<1>5. TensorsHeld'
  BY <1>1, <1>2, <1>3 DEF TensorsHeld
<1>6. InputsSet'
  BY <1>1, <1>2, <1>3 DEF InputsSet, HoldsData
<1>7. GraphMatches'
  <2> SUFFICES ASSUME held, UsesGraphs, undisturbed
               PROVE  /\ \A n \in Inputs : feed[n].kind = "numpy"
                      /\ graph_exe'.exists
                      /\ graph_exe'.out = array'[Output].ptr
                      /\ \A n \in Inputs :
                            /\ graph_exe'.address[n] = array'[n].ptr /\ array'[n].ptr \in Addresses
                            /\ graph_exe'.shape[n] \in Shapes
                            /\ graph_exe'.shape[n] <= array'[n].allocated
                            /\ context'[n].shape \in {Unset, graph_exe'.shape[n]}
    BY <1>2 DEF GraphMatches, UsesGraphs
  <2>1. \A n \in Inputs : feed[n].kind = "numpy"
    BY <1>2 DEF GraphMatches
  <2>2. \A n \in Inputs : /\ graph_exe'.address[n] = context[n].address
                          /\ graph_exe'.shape[n] = context[n].shape
    BY <1>1 DEF ContextAddress, ContextShape
  <2>3. \A n \in Inputs : /\ context[n].shape = feed[n].shape /\ HoldsData(n)
                          /\ context[n].address = array[n].ptr
    BY <1>2, <2>1 DEF InputsSet
  <2>4. \A n \in Inputs : feed[n].shape \in Shapes
    BY <1>2 DEF ControlInv
  <2>5. graph_exe'.exists /\ graph_exe'.out = array'[Output].ptr
    BY <1>1
  <2> QED
    BY <1>1, <1>2, <1>3, <2>1, <2>2, <2>3, <2>4, <2>5 DEF HoldsData
<1>8. /\ ShapesSet' /\ InputsCopied'
      /\ PlainRunnerReadsTheFeed' /\ GraphFollowsHostFeeds'
  BY <1>2 DEF ShapesSet, InputsCopied, PlainRunnerReadsTheFeed, GraphFollowsHostFeeds
<1> QED
  BY <1>4, <1>5, <1>6, <1>7, <1>8

\* The graph reads the buffers, which hold the data of this inference.
LEMMA LaunchStep == RunnerInv /\ Launch => RunnerInv'
<1> SUFFICES ASSUME RunnerInv, Launch PROVE RunnerInv'
  OBVIOUS
<1> USE DEF RunnerInv
<1>1. /\ pc = "launch" /\ pc' = "return" /\ Running /\ Running' /\ pending = {}
      /\ cuda_graph = "captured" /\ UsesGraphs
      /\ result' = Reading(graph_exe.shape, graph_exe.address, graph_exe.out, array)
      /\ UNCHANGED <<heap, data, array, mode, held, pending, reshape, context, cuda_graph,
                     graph_exe, feed, undisturbed, calls>>
  BY DEF Launch, Running, ControlInv, UsesGraphs, memory, graph, history
<1>2. Owned(heap, array)' /\ TypeInv' /\ ControlInv' /\ TensorsHeld'
  BY <1>1 DEF TypeInv, ControlInv, TensorsHeld
<1>3. InputsSet' /\ ShapesSet' /\ InputsCopied'
  BY <1>1 DEF InputsSet, ShapesSet, InputsCopied
<1>4. GraphMatches'
  BY <1>1 DEF GraphMatches, UsesGraphs
<1>5. PlainRunnerReadsTheFeed'
  BY <1>1 DEF PlainRunnerReadsTheFeed, UsesGraphs
<1>6. GraphFollowsHostFeeds'
  <2> SUFFICES ASSUME undisturbed PROVE ReadsTheFeed'
    BY <1>1 DEF GraphFollowsHostFeeds
  <2>1. held
    BY <1>1 DEF ControlInv
  <2>2. /\ \A n \in Inputs : feed[n].kind = "numpy"
        /\ graph_exe.out = array[Output].ptr
        /\ \A n \in Inputs : /\ graph_exe.address[n] = array[n].ptr /\ array[n].ptr \in Addresses
                             /\ context[n].shape \in {Unset, graph_exe.shape[n]}
    BY <1>1, <2>1 DEF GraphMatches
  <2>3. ASSUME NEW n \in Inputs
        PROVE  result'.inputs[n] = [data |-> calls, shape |-> feed[n].shape]
    <3>1. context[n].shape = feed[n].shape /\ feed[n].shape \in Shapes /\ HoldsData(n)
      BY <1>1, <2>2 DEF InputsSet, ControlInv
    <3>2. graph_exe.shape[n] = feed[n].shape
      BY <2>2, <3>1, ShapesAreSizes
    <3>3. result'.inputs[n] = [data |-> data[array[n].ptr], shape |-> graph_exe.shape[n]]
      BY <1>1, <2>2, MemoryAssumption DEF Reading
    <3> QED
      BY <3>1, <3>2, <3>3 DEF HoldsData
  <2>4. result'.wrote = result'.returned
    BY <1>1, <2>2 DEF Reading
  <2> QED
    BY <1>1, <2>3, <2>4 DEF ReadsTheFeed
<1> QED
  BY <1>2, <1>3, <1>4, <1>5, <1>6

----------------------------------------------------------------------------
(* Steps of an inference before TensorRT 8.5 *)

LEMMA ShapeStep == RunnerInv /\ (SetShape \/ ShapesDone) => RunnerInv'
<1> SUFFICES ASSUME RunnerInv, SetShape \/ ShapesDone PROVE RunnerInv'
  OBVIOUS
<1> USE DEF RunnerInv
<1>1. /\ pc = "shapes" /\ Running /\ Running' /\ ~mode.v3 /\ ~UsesGraphs'
      /\ UNCHANGED <<heap, data, array, mode, held, reshape, feed, undisturbed, calls>>
  BY DEF SetShape, ShapesDone, Running, ControlInv, UsesGraphs, memory, history
<1>2. Owned(heap, array)' /\ TensorsHeld'
  BY <1>1 DEF TensorsHeld
<1>3. /\ InputsSet' /\ InputsCopied' /\ GraphMatches'
      /\ PlainRunnerReadsTheFeed' /\ GraphFollowsHostFeeds'
  BY <1>1
  DEF SetShape, ShapesDone, InputsSet, InputsCopied, GraphMatches, PlainRunnerReadsTheFeed,
    GraphFollowsHostFeeds
<1>4. context \in [Inputs -> ContextType] /\ feed \in [Inputs -> FeedType]
  BY DEF TypeInv
<1>5. CASE SetShape
  <2>1. PICK n \in pending :
          /\ context' = IF feed[n].kind = "missing" \/ mode.static # Unset THEN context
                        ELSE [context EXCEPT ![n].shape = feed[n].shape]
          /\ pending' = pending \ {n}
    BY <1>5 DEF SetShape
  <2>2. n \in Inputs /\ feed[n].shape \in Shapes /\ pc' = "shapes"
    BY <1>1, <1>5 DEF SetShape, ControlInv
  <2>3. context' \in [Inputs -> ContextType]
    BY <1>4, <2>1, <2>2 DEF ContextType
  <2>4. TypeInv'
    BY <1>1, <2>1, <2>2, <2>3 DEF TypeInv
  <2>5. ControlInv'
    BY <1>1, <2>1, <2>2 DEF ControlInv
  <2>6. ShapesSet'
    <3> SUFFICES ASSUME NEW m \in Inputs \ pending', Accepts(m), feed[m].kind # "missing"
                 PROVE  context'[m].shape = feed[m].shape
      BY <1>1, <2>2 DEF ShapesSet, Accepts
    <3>1. CASE mode.static # Unset
      BY <1>1, <2>1, <3>1 DEF Accepts, ControlInv
    <3>2. CASE mode.static = Unset /\ m = n
      BY <1>4, <2>1, <2>2, <3>2 DEF ContextType
    <3>3. CASE mode.static = Unset /\ m # n
      <4>1. m \in Inputs \ pending /\ context'[m] = context[m]
        BY <1>4, <2>1, <3>3
      <4> QED
        BY <1>1, <4>1 DEF ShapesSet
    <3> QED
      BY <3>1, <3>2, <3>3
  <2> QED
    BY <1>2, <1>3, <2>4, <2>5, <2>6
<1>6. CASE ShapesDone
  <2>1. pc' = "outputs" /\ pending = {} /\ UNCHANGED <<pending, context>>
    BY <1>6 DEF ShapesDone
  <2>2. TypeInv' /\ ControlInv'
    BY <1>1, <2>1 DEF TypeInv, ControlInv
  <2>3. ShapesSet'
    BY <1>1, <2>1 DEF ShapesSet, Accepts
  <2> QED
    BY <1>2, <1>3, <2>2, <2>3
<1> QED
  BY <1>5, <1>6

LEMMA ResizeOutputStep == RunnerInv /\ ResizeOutput => RunnerInv'
<1> SUFFICES ASSUME RunnerInv, ResizeOutput PROVE RunnerInv'
  OBVIOUS
<1> USE DEF RunnerInv
<1>1. PICK r \in Resized(Output, OutputSize) : heap' = r.heap /\ array' = r.array
  BY DEF ResizeOutput
<1>2. /\ pc = "outputs" /\ pc' = "copies" /\ Running /\ Running' /\ ~UsesGraphs'
      /\ pending' = {n \in Inputs : feed[n].kind # "missing"}
      /\ UNCHANGED <<data, mode, held, reshape, context, feed, undisturbed, calls>>
  BY DEF ResizeOutput, Running, ControlInv, UsesGraphs, history
<1>3. /\ Owned(r.heap, r.array)
      /\ \A a \in Addresses : heap[a] = Caller => r.heap[a] = Caller
  BY OutputSizeIsNat, ResizedOwned DEF Arrays
<1>4. Owned(heap, array)' /\ TypeInv' /\ ControlInv'
  BY <1>1, <1>2, <1>3 DEF TypeInv, ControlInv, Arrays
<1>5. TensorsHeld'
  BY <1>1, <1>2, <1>3 DEF TensorsHeld
<1>6. /\ InputsSet' /\ GraphMatches' /\ InputsCopied'
      /\ PlainRunnerReadsTheFeed' /\ GraphFollowsHostFeeds'
  BY <1>2
  DEF InputsSet, InputsCopied, GraphMatches, PlainRunnerReadsTheFeed, GraphFollowsHostFeeds
<1>7. ShapesSet'
  BY <1>2 DEF ShapesSet, Accepts
<1> QED
  BY <1>4, <1>5, <1>6, <1>7

LEMMA CopyStep == RunnerInv /\ CopyInput => RunnerInv'
<1> SUFFICES ASSUME RunnerInv, CopyInput PROVE RunnerInv'
  OBVIOUS
<1> USE DEF RunnerInv
<1>1. PICK n \in pending :
        /\ feed[n].kind = "numpy"
        /\ \E v \in HostCopies(n) : heap' = v.heap /\ array' = v.array /\ data' = v.data
        /\ pending' = pending \ {n}
  BY DEF CopyInput
<1>2. PICK v \in HostCopies(n) : heap' = v.heap /\ array' = v.array /\ data' = v.data
  BY <1>1
<1>3. /\ pc = "copies" /\ pc' = "copies" /\ Running /\ Running' /\ ~UsesGraphs'
      /\ UNCHANGED <<mode, held, reshape, context, feed, undisturbed, calls>>
  BY DEF CopyInput, Running, ControlInv, UsesGraphs, history
<1>4. n \in Inputs /\ n \in Arrays /\ feed[n].shape \in Shapes
  BY <1>3 DEF ControlInv, Arrays
<1>5. /\ Owned(v.heap, v.array) /\ v.data \in [Addresses -> Nat]
      /\ Keeps(n, v)
      /\ v.ptr = v.array[n].ptr /\ v.ptr \in Addresses /\ v.data[v.ptr] = calls
      /\ feed[n].shape <= v.array[n].allocated
  BY <1>4, HostCopy DEF TypeInv
<1>6. Owned(heap, array)' /\ TypeInv' /\ ControlInv'
  BY <1>1, <1>2, <1>3, <1>5 DEF TypeInv, ControlInv
<1>7. TensorsHeld'
  BY <1>2, <1>3, <1>5 DEF TensorsHeld, Keeps
<1>8. InputsCopied'
  <2> SUFFICES ASSUME NEW m \in Inputs \ pending'
               PROVE  feed'[m].kind = "missing" \/ (feed'[m].kind = "numpy" /\ HoldsData(m)')
    BY DEF InputsCopied
  <2>1. CASE m = n
    BY <1>1, <1>2, <1>3, <1>5, <2>1 DEF HoldsData
  <2>2. CASE m # n
    <3>1. m \in Inputs \ pending /\ m \in Arrays \ {n}
      BY <1>1, <2>2 DEF Arrays
    <3>2. /\ array'[m] = array[m]
          /\ array[m].ptr \in Addresses => data'[array[m].ptr] = data[array[m].ptr]
      BY <1>2, <1>5, <3>1 DEF Keeps
    <3> QED
      BY <1>3, <3>1, <3>2 DEF InputsCopied, HoldsData
  <2> QED
    BY <2>1, <2>2
<1>9. ShapesSet'
  BY <1>3 DEF ShapesSet, Accepts
<1>10. /\ InputsSet' /\ GraphMatches'
       /\ PlainRunnerReadsTheFeed' /\ GraphFollowsHostFeeds'
  BY <1>3 DEF InputsSet, GraphMatches, PlainRunnerReadsTheFeed, GraphFollowsHostFeeds
<1> QED
  BY <1>6, <1>7, <1>8, <1>9, <1>10

LEMMA ExecuteLegacyStep == RunnerInv /\ ExecuteLegacy => RunnerInv'
<1> SUFFICES ASSUME RunnerInv, ExecuteLegacy PROVE RunnerInv'
  OBVIOUS
<1> USE DEF RunnerInv
<1>1. /\ pc = "copies" /\ pc' = "return" /\ Running /\ Running' /\ pending = {} /\ ~UsesGraphs'
      /\ result' = Reading(ContextShape, [n \in Inputs |-> array[n].ptr], array[Output].ptr, array)
      /\ UNCHANGED <<heap, data, array, mode, held, pending, reshape, context, feed,
                     undisturbed, calls>>
  BY DEF ExecuteLegacy, Running, ControlInv, UsesGraphs, memory, history
<1>2. Owned(heap, array)' /\ TypeInv' /\ ControlInv' /\ TensorsHeld'
  BY <1>1 DEF TypeInv, ControlInv, TensorsHeld
<1>3. /\ InputsSet' /\ ShapesSet' /\ InputsCopied' /\ GraphMatches' /\ GraphFollowsHostFeeds'
  BY <1>1 DEF InputsSet, ShapesSet, InputsCopied, GraphMatches, GraphFollowsHostFeeds
<1>4. PlainRunnerReadsTheFeed'
  <2> SUFFICES ASSUME WellFormed PROVE ReadsTheFeed'
    BY <1>1 DEF PlainRunnerReadsTheFeed, WellFormed, Accepts
  <2>1. ASSUME NEW n \in Inputs
        PROVE  result'.inputs[n] = [data |-> calls, shape |-> feed[n].shape]
    <3>1. feed[n].kind \in {"numpy", "cuda"} /\ Accepts(n)
      BY DEF WellFormed
    <3>2. context[n].shape = feed[n].shape /\ HoldsData(n)
      BY <1>1, <3>1 DEF ShapesSet, InputsCopied
    <3>3. result'.inputs[n] = [data |-> data[array[n].ptr], shape |-> context[n].shape]
      BY <1>1, <3>2, MemoryAssumption DEF Reading, ContextShape, HoldsData
    <3> QED
      BY <3>2, <3>3 DEF HoldsData
  <2>2. result'.wrote = result'.returned
    BY <1>1 DEF Reading
  <2> QED
    BY <1>1, <2>1, <2>2 DEF ReadsTheFeed
<1> QED
  BY <1>2, <1>3, <1>4

----------------------------------------------------------------------------
(* The theorems *)

LEMMA RunnerStutter == RunnerInv /\ UNCHANGED vars => RunnerInv'
BY DEF RunnerInv, vars, memory, control, graph, history, Owned, TypeInv, ControlInv, Running,
  TensorsHeld, InputsSet, ShapesSet, InputsCopied, GraphMatches, HoldsData, Accepts, UsesGraphs,
  PlainRunnerReadsTheFeed, GraphFollowsHostFeeds, WellFormed, ReadsTheFeed

\* The inductive invariant: what activation, inference and deactivation leave
\* for the next step, whichever of their steps fails.
THEOREM RunnerInvariance == Spec => []RunnerInv
<1>1. RunnerInv /\ [Next]_vars => RunnerInv'
  BY ActivateStep, FinishStep, DeactivateStep, ReturnStep, RaisingStep, RefuseStep, InferStep,
     SetInputStep, InputsDoneStep, ExecuteStep, CaptureStep, LaunchStep, ShapeStep,
     ResizeOutputStep, CopyStep, ExecuteLegacyStep, RunnerStutter
  DEF Next
<1> QED
  BY InitRunner, <1>1, PTL DEF Spec

\* Device memory (DeviceArray.resize and free): a block has one owner.
THEOREM OneOwner == Spec => []BuffersAreOwned
<1>1. RunnerInv => BuffersAreOwned
  BY OwnedIsProperty DEF RunnerInv
<1> QED
  BY RunnerInvariance, <1>1, PTL

\* TensorRTRunner: an inference without CUDA graphs reads what it was fed.
THEOREM PlainRunner == Spec => []PlainRunnerReadsTheFeed
<1>1. RunnerInv => PlainRunnerReadsTheFeed
  BY DEF RunnerInv
<1> QED
  BY RunnerInvariance, <1>1, PTL

\* TensorRTCUDAGraphRunner: a graph may be replayed as long as host arrays
\* are fed and nothing raised.
THEOREM GraphReplay == Spec => []GraphFollowsHostFeeds
<1>1. RunnerInv => GraphFollowsHostFeeds
  BY DEF RunnerInv
<1> QED
  BY RunnerInvariance, <1>1, PTL
=============================================================================
