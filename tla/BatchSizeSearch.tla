--------------------------- MODULE BatchSizeSearch ---------------------------
(***************************************************************************)
(* The largest batch size a TensorRT based model is converted for: the     *)
(* FindMaxBatchSize command measures what the device can hold, then        *)
(* Convert2TensorRTWithMaxBatchSizeSearch tries to convert for that size   *)
(* and falls back towards the batch size of the user's dataloader.         *)
(*                                                                         *)
(* Whether an attempt succeeds is left open at every attempt: building an  *)
(* engine depends on memory, kernels and time.  None is Python's None.     *)
(*                                                                         *)
(* Definitions introduced by "Fault" are used nowhere: they are what a     *)
(* plausible bug would make of the definition after them, and with them in *)
(* its place TLC refutes the property named.                               *)
(***************************************************************************)
EXTENDS Naturals, FiniteSets

CONSTANTS
  None,
  Sizes,          \* batch sizes of dataloaders and optimization profiles
  Configurations, \* bound: models FindMaxBatchSize may probe
  MaxMeasured,    \* last power of two the profiler measures (2^30 in the code)
  Threshold,      \* DEFAULT_MAX_BATCH_SIZE_THRESHOLD
  Halving         \* DEFAULT_MAX_BATCH_SIZE_HALVING

ASSUME SizeAssumption ==
  /\ Sizes \subseteq Nat \ {0}
  /\ None \notin Nat
  /\ Configurations \in Nat /\ MaxMeasured \in Nat
  /\ Threshold \in Nat \ {0} /\ Halving \in Nat

VARIABLES
  profileMax,    \* max_batch_size or max(batch_sizes) of the optimization profile
  dataloader,    \* dataloader_max_batch_size
  batching,      \* batch_dim is not None
  customProfile, \* the user configured a TensorRT profile for this model
  phase,
  toProbe,       \* configurations FindMaxBatchSize has not tried yet
  measured,      \* batch size of the last line of the profiler's results, 0 if none
  device,        \* device_max_batch_size
  size,          \* the fallback generator's batch size
  left,          \* max_batch_size_halving_left
  tried,         \* batch sizes convert_func was called with
  attempts,      \* how many times convert_func was called
  converted      \* the conversion_max_batch_size returned

input  == <<profileMax, dataloader, batching, customProfile>>
finding == <<toProbe, measured, device>>
vars   == <<input, finding, phase, size, left, tried, attempts, converted>>

Init ==
  /\ profileMax \in Sizes \cup {None}
  /\ dataloader \in Sizes \cup {None}
  /\ batching \in BOOLEAN
  /\ customProfile \in BOOLEAN
  /\ phase = "finding"
  \* No unit is planned for a model without batching.
  /\ toProbe \in IF batching THEN 0..Configurations ELSE {0}
  /\ measured = 0
  /\ device = None
  /\ size = None /\ left = 0 /\ tried = {} /\ attempts = 0 /\ converted = None

-----------------------------------------------------------------------------
(* FindMaxBatchSize                                                        *)

\* _execute_configuration: the file of the model is not there.
ProbeMissingModel ==
  /\ phase = "finding" /\ toProbe > 0
  /\ toProbe' = toProbe - 1
  /\ UNCHANGED <<input, measured, device, phase, size, left, tried, attempts, converted>>

\* The optimization profile names the batch size, nothing is measured.
UseProfileSize ==
  /\ phase = "finding" /\ toProbe > 0 /\ profileMax # None
  /\ device' = profileMax
  /\ phase' = "found"
  /\ UNCHANGED <<input, toProbe, measured, size, left, tried, attempts, converted>>

\* Fault (Terminates): a configuration that gave nothing is measured again.
StartMeasuringAgain ==
  /\ phase = "finding" /\ toProbe > 0 /\ profileMax = None
  /\ measured' = 0
  /\ phase' = "measuring"
  /\ UNCHANGED <<input, toProbe, device, size, left, tried, attempts, converted>>

StartMeasuring ==
  /\ phase = "finding" /\ toProbe > 0 /\ profileMax = None
  /\ toProbe' = toProbe - 1
  /\ measured' = 0
  /\ phase' = "measuring"
  /\ UNCHANGED <<input, device, size, left, tried, attempts, converted>>

\* Profiler.run appends one result for 1, 2, 4, ...; with the threshold of -2
\* the throughput never cuts the loop.
Measure ==
  /\ phase = "measuring"
  /\ measured' = IF measured = 0 THEN 1 ELSE 2 * measured
  /\ measured' <= MaxMeasured
  /\ UNCHANGED <<input, toProbe, device, phase, size, left, tried, attempts, converted>>

\* Fault (TypeOK, DeviceSizeWasSeen): the size is halved without the threshold.
StopMeasuringHalving ==
  /\ phase = "measuring"
  /\ IF measured = 0
     THEN phase' = "finding" /\ UNCHANGED device
     ELSE phase' = "found" /\ device' = measured \div 2
  /\ UNCHANGED <<input, toProbe, measured, size, left, tried, attempts, converted>>

\* The profiler ends or dies (allow_failure=True): its last result counts.
StopMeasuring ==
  /\ phase = "measuring"
  /\ IF measured = 0
     THEN phase' = "finding" /\ UNCHANGED device
     ELSE /\ phase' = "found"
          /\ device' = IF measured > Threshold THEN measured \div 2 ELSE measured
  /\ UNCHANGED <<input, toProbe, measured, size, left, tried, attempts, converted>>

\* No configuration gave a size.
FindNothing ==
  /\ phase = "finding" /\ toProbe = 0
  /\ phase' = "found"
  /\ UNCHANGED <<input, finding, size, left, tried, attempts, converted>>

-----------------------------------------------------------------------------
(* Convert2TensorRTWithMaxBatchSizeSearch                                  *)

RunSearch ==
  /\ ~customProfile
  /\ batching
  /\ dataloader # None \/ device # None

\* _get_conversion_max_batch_sizes
FirstSize == IF device # None THEN device ELSE dataloader

Try(s) == tried' = tried \cup {s} /\ attempts' = attempts + 1

\* _execute_conversion without search: one call that names no batch size; the
\* dataloader's is reported.
ConvertOnce ==
  /\ phase = "found" /\ ~RunSearch
  /\ Try(None)
  /\ \/ phase' = "converted" /\ converted' = dataloader
     \/ phase' = "failed" /\ UNCHANGED converted
  /\ UNCHANGED <<input, finding, size, left>>

ConvertFirst ==
  /\ phase = "found" /\ RunSearch
  /\ Try(FirstSize)
  /\ phase' = "converted"
  /\ converted' = FirstSize
  /\ UNCHANGED <<input, finding, size, left>>

\* Fault (GivesUpAtDataloader): no fallback from below the dataloader's size.
FailFirstBelowDataloader ==
  /\ phase = "found" /\ RunSearch
  /\ Try(FirstSize)
  /\ IF device = None THEN phase' = "type_error" /\ UNCHANGED <<size, left>>
     ELSE IF dataloader # None /\ device < dataloader
     THEN phase' = "failed" /\ UNCHANGED <<size, left>>
     ELSE phase' = "fallback" /\ size' = device \div 2 /\ left' = Halving
  /\ UNCHANGED <<input, finding, converted>>

\* The first attempt raises; the generator starts with device // 2, which is a
\* TypeError when device is None.
FailFirst ==
  /\ phase = "found" /\ RunSearch
  /\ Try(FirstSize)
  /\ IF device = None
     THEN phase' = "type_error" /\ UNCHANGED <<size, left>>
     ELSE phase' = "fallback" /\ size' = device \div 2 /\ left' = Halving
  /\ UNCHANGED <<input, finding, converted>>

\* Fault (TriedBetweenDataloaderAndDevice): halves below the dataloader's size.
YieldedUnbounded == IF left > 0 THEN size ELSE dataloader

\* Fault (AttemptsBounded): the halvings are not counted.
YieldedUncounted == IF size > dataloader THEN size ELSE dataloader

\* The generator yields halves above the dataloader's size, then that size.
Yielded == IF size > dataloader /\ left > 0 THEN size ELSE dataloader

ConvertFallback ==
  /\ phase = "fallback" /\ dataloader # None
  /\ Try(Yielded)
  /\ phase' = "converted"
  /\ converted' = Yielded
  /\ UNCHANGED <<input, finding, size, left>>

FailFallback ==
  /\ phase = "fallback" /\ dataloader # None
  /\ Try(Yielded)
  /\ IF Yielded = dataloader
     THEN phase' = "failed" /\ UNCHANGED <<size, left>>
     ELSE UNCHANGED phase /\ size' = size \div 2 /\ left' = left - 1
  /\ UNCHANGED <<input, finding, converted>>

\* The generator compares an int with None.
CompareWithNone ==
  /\ phase = "fallback" /\ dataloader = None
  /\ phase' = "type_error"
  /\ UNCHANGED <<input, finding, size, left, tried, attempts, converted>>

Ended == phase \in {"converted", "failed", "type_error"}

Find ==
  \/ ProbeMissingModel \/ UseProfileSize \/ StartMeasuring
  \/ Measure \/ StopMeasuring \/ FindNothing

Convert ==
  \/ ConvertOnce \/ ConvertFirst \/ FailFirst
  \/ ConvertFallback \/ FailFallback \/ CompareWithNone

Next == Find \/ Convert

Spec == Init /\ [][Next]_vars

\* Sequential code that does not wait for anyone; its subprocesses return.
FairSpec == Spec /\ WF_vars(Next)

-----------------------------------------------------------------------------
MaybeSize == Nat \cup {None}

TypeOK ==
  /\ profileMax \in Sizes \cup {None} /\ dataloader \in Sizes \cup {None}
  /\ batching \in BOOLEAN /\ customProfile \in BOOLEAN
  /\ phase \in {"finding", "measuring", "found", "fallback",
                "converted", "failed", "type_error"}
  /\ toProbe \in Nat /\ measured \in Nat
  /\ device \in (Nat \ {0}) \cup {None}
  /\ size \in MaybeSize /\ left \in Nat
  /\ phase = "fallback" => size \in Nat /\ device \in Nat
  /\ tried \subseteq MaybeSize /\ attempts \in Nat
  /\ converted \in MaybeSize

\* Every size tried lies between the dataloader's and the device's: the engine
\* always takes the samples of the dataloader and never more than was measured
\* (_get_conversion_fallback_batch_sizes).
TriedBetweenDataloaderAndDevice ==
  RunSearch /\ dataloader # None /\ device # None /\ dataloader <= device =>
    \A s \in tried : dataloader <= s /\ s <= device

\* One first attempt, at most Halving halves, and the dataloader's size: the
\* fallback ends whatever fails (_fallback_conversion).
AttemptsBounded == attempts <= Halving + 2

\* The search gives up only after a conversion for the dataloader's own batch
\* size has failed (_fallback_conversion raises there and nowhere else).
GivesUpAtDataloader == phase = "failed" /\ RunSearch => dataloader \in tried

\* The device size is the one asked for, or what the profiler measured last,
\* halved once if above the threshold (_execute_configuration).
DeviceSizeWasSeen ==
  device # None =>
    \/ device = profileMax
    \/ /\ device <= measured /\ measured <= 2 * device
       /\ measured <= Threshold => device = measured

\* "Raises: A conversion exception when command and fallback failed."
OnlyConversionErrors == phase # "type_error"

\* Whatever fails, the command ends: the loops over configurations, measurements
\* and batch sizes are finite (FindMaxBatchSize._run, _fallback_conversion).
Terminates == <>Ended
=============================================================================
