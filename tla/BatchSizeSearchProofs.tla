------------------------ MODULE BatchSizeSearchProofs ------------------------
(***************************************************************************)
(* The batch size search stays within its limits for every dataloader,     *)
(* profile, device and number of halvings.                                 *)
(*                                                                         *)
(* The inductive invariant SearchInv says what each phase leaves for the   *)
(* next one: no size is tried before the device's size is settled, the     *)
(* profiler's last size is a power of two (Doubling needs it to be even),  *)
(* and a fallback has spent one attempt and one per halving used up.       *)
(***************************************************************************)
EXTENDS BatchSizeSearch, TLAPS

Doubling == measured <= 1 \/ measured % 2 = 0

BeforeConversion ==
  /\ phase \in {"finding", "measuring"} => device = None
  /\ phase \in {"finding", "measuring", "found"} => tried = {} /\ attempts = 0

InFallback ==
  phase = "fallback" =>
    /\ RunSearch
    /\ left <= Halving
    /\ attempts = 1 + (Halving - left)
    /\ size <= device

SearchInv ==
  /\ TypeOK
  /\ Doubling
  /\ BeforeConversion
  /\ InFallback
  /\ TriedBetweenDataloaderAndDevice
  /\ AttemptsBounded
  /\ GivesUpAtDataloader
  /\ DeviceSizeWasSeen

-----------------------------------------------------------------------------
LEMMA Halves == \A n \in Nat : /\ n \div 2 \in Nat /\ n \div 2 <= n
                               /\ n > 1 => n \div 2 > 0
                               /\ n % 2 = 0 => n = 2 * (n \div 2)
OBVIOUS

LEMMA InitSearch == Init => SearchInv
<1> SUFFICES ASSUME Init PROVE SearchInv
  OBVIOUS
<1> USE SizeAssumption DEF Init
<1>1. TypeOK
  BY DEF TypeOK, MaybeSize
<1> QED
  BY <1>1 DEF SearchInv, Doubling, BeforeConversion, InFallback,
    TriedBetweenDataloaderAndDevice, AttemptsBounded, GivesUpAtDataloader, DeviceSizeWasSeen

\* FindMaxBatchSize: nothing is tried, the device's size comes from what was seen.
LEMMA FindStep == SearchInv /\ Find => SearchInv'
<1> SUFFICES ASSUME SearchInv, Find PROVE SearchInv'
  OBVIOUS
<1> USE SizeAssumption DEF SearchInv, input
<1>1. /\ phase \in {"finding", "measuring"} /\ phase' \in {"finding", "measuring", "found"}
      /\ UNCHANGED <<profileMax, dataloader, batching, customProfile,
                     size, left, tried, attempts, converted>>
  BY DEF Find, ProbeMissingModel, UseProfileSize, StartMeasuring, Measure, StopMeasuring,
    FindNothing
<1>2. device = None /\ tried = {} /\ attempts = 0
  BY <1>1 DEF BeforeConversion
<1>3. BeforeConversion'
  BY <1>1, <1>2
  DEF BeforeConversion, Find, ProbeMissingModel, UseProfileSize, StartMeasuring, Measure,
    StopMeasuring, FindNothing, finding
<1>4. TypeOK' /\ Doubling' /\ DeviceSizeWasSeen'
  <2>1. CASE ProbeMissingModel \/ UseProfileSize \/ FindNothing \/ StartMeasuring
    BY <1>2, <2>1
    DEF ProbeMissingModel, UseProfileSize, FindNothing, StartMeasuring, finding,
      TypeOK, MaybeSize, Doubling, DeviceSizeWasSeen
  <2>2. CASE Measure
    BY <1>2, <2>2 DEF Measure, TypeOK, MaybeSize, Doubling, DeviceSizeWasSeen
  <2>3. CASE StopMeasuring
    <3>1. measured \in Nat
      BY DEF TypeOK
    <3>2. CASE measured = 0 \/ measured <= Threshold
      BY <1>2, <2>3, <3>1, <3>2
      DEF StopMeasuring, TypeOK, MaybeSize, Doubling, DeviceSizeWasSeen
    <3>3. CASE measured > Threshold
      <4>1. /\ device' = measured \div 2 /\ measured' = measured /\ phase' = "found"
            /\ measured = 2 * (measured \div 2)
            /\ measured \div 2 \in Nat \ {0}
        BY <2>3, <3>1, <3>3, Halves DEF StopMeasuring, Doubling
      <4> QED
        BY <1>1, <2>3, <3>1, <3>3, <4>1
        DEF StopMeasuring, TypeOK, MaybeSize, Doubling, DeviceSizeWasSeen
    <3> QED
      BY <3>1, <3>2, <3>3
  <2> QED
    BY <2>1, <2>2, <2>3 DEF Find
<1>5. /\ InFallback' /\ TriedBetweenDataloaderAndDevice'
      /\ AttemptsBounded' /\ GivesUpAtDataloader'
  BY <1>1, <1>2
  DEF InFallback, TriedBetweenDataloaderAndDevice, AttemptsBounded, GivesUpAtDataloader
<1> QED
  BY <1>3, <1>4, <1>5

\* The first attempt.
LEMMA FirstStep == SearchInv /\ (ConvertOnce \/ ConvertFirst \/ FailFirst) => SearchInv'
<1> SUFFICES ASSUME SearchInv, ConvertOnce \/ ConvertFirst \/ FailFirst PROVE SearchInv'
  OBVIOUS
<1> USE SizeAssumption DEF SearchInv, input, finding
<1>1. /\ phase = "found" /\ tried = {} /\ attempts = 0 /\ attempts' = 1
      /\ UNCHANGED <<profileMax, dataloader, batching, customProfile, toProbe, measured, device>>
      /\ RunSearch' = RunSearch
  BY DEF ConvertOnce, ConvertFirst, FailFirst, Try, BeforeConversion, RunSearch
<1>2. TypeOK'
  BY <1>1, Halves
  DEF TypeOK, MaybeSize, ConvertOnce, ConvertFirst, FailFirst, Try, FirstSize, RunSearch
<1>3. Doubling' /\ BeforeConversion' /\ AttemptsBounded' /\ DeviceSizeWasSeen'
  BY <1>1
  DEF Doubling, BeforeConversion, AttemptsBounded, DeviceSizeWasSeen, ConvertOnce, ConvertFirst,
    FailFirst
<1>4. InFallback'
  BY <1>1, Halves DEF InFallback, ConvertOnce, ConvertFirst, FailFirst, TypeOK
<1>5. TriedBetweenDataloaderAndDevice'
  BY <1>1
  DEF TriedBetweenDataloaderAndDevice, ConvertOnce, ConvertFirst, FailFirst, Try, FirstSize, TypeOK
<1>6. GivesUpAtDataloader'
  BY <1>1 DEF GivesUpAtDataloader, ConvertOnce, ConvertFirst, FailFirst
<1> QED
  BY <1>2, <1>3, <1>4, <1>5, <1>6

\* The halves, and last the dataloader's size.
LEMMA FallbackStep ==
  SearchInv /\ (ConvertFallback \/ FailFallback \/ CompareWithNone) => SearchInv'
<1> SUFFICES ASSUME SearchInv, ConvertFallback \/ FailFallback \/ CompareWithNone PROVE SearchInv'
  OBVIOUS
<1> USE SizeAssumption DEF SearchInv, input, finding
<1>1. /\ phase = "fallback" /\ RunSearch /\ left <= Halving
      /\ attempts = 1 + (Halving - left) /\ size <= device
      /\ left \in Nat /\ size \in Nat /\ device \in Nat
      /\ UNCHANGED <<profileMax, dataloader, batching, customProfile, toProbe, measured, device>>
      /\ RunSearch' = RunSearch
  BY DEF ConvertFallback, FailFallback, CompareWithNone, InFallback, RunSearch, TypeOK
<1>2. CASE CompareWithNone
  BY <1>1, <1>2
  DEF CompareWithNone, TypeOK, MaybeSize, Doubling, BeforeConversion, InFallback,
    TriedBetweenDataloaderAndDevice, AttemptsBounded, GivesUpAtDataloader, DeviceSizeWasSeen
<1>3. CASE ConvertFallback \/ FailFallback
  <2>1. /\ dataloader \in Nat /\ Yielded \in Nat
        /\ Yielded = dataloader \/ (Yielded = size /\ size > dataloader /\ left > 0)
        /\ tried' = tried \cup {Yielded} /\ attempts' = attempts + 1
    BY <1>1, <1>3 DEF ConvertFallback, FailFallback, Try, Yielded, TypeOK
  <2>2. TypeOK'
    BY <1>1, <1>3, <2>1, Halves DEF ConvertFallback, FailFallback, TypeOK, MaybeSize
  <2>3. Doubling' /\ BeforeConversion' /\ AttemptsBounded' /\ DeviceSizeWasSeen'
    BY <1>1, <1>3, <2>1
    DEF ConvertFallback, FailFallback, Doubling, BeforeConversion, AttemptsBounded,
      DeviceSizeWasSeen
  <2>4. InFallback'
    BY <1>1, <1>3, <2>1, Halves DEF ConvertFallback, FailFallback, InFallback
  <2>5. TriedBetweenDataloaderAndDevice'
    BY <1>1, <2>1 DEF TriedBetweenDataloaderAndDevice
  <2>6. GivesUpAtDataloader'
    BY <1>1, <1>3, <2>1 DEF ConvertFallback, FailFallback, GivesUpAtDataloader
  <2> QED
    BY <2>2, <2>3, <2>4, <2>5, <2>6
<1> QED
  BY <1>2, <1>3

-----------------------------------------------------------------------------
LEMMA SearchStep == SearchInv /\ [Next]_vars => SearchInv'
<1> SUFFICES ASSUME SearchInv, [Next]_vars PROVE SearchInv'
  OBVIOUS
<1>1. CASE Next
  BY <1>1, FindStep, FirstStep, FallbackStep DEF Next, Convert
<1>2. CASE UNCHANGED vars
  BY <1>2
  DEF vars, input, finding, SearchInv, TypeOK, Doubling, BeforeConversion, InFallback, RunSearch,
    TriedBetweenDataloaderAndDevice, AttemptsBounded, GivesUpAtDataloader, DeviceSizeWasSeen
<1> QED
  BY <1>1, <1>2

THEOREM Invariance == Spec => []SearchInv
BY InitSearch, SearchStep, PTL DEF Spec

\* No engine is ever built for less than the dataloader's samples or for more
\* than the device size (_get_conversion_fallback_batch_sizes).
THEOREM SizesAreBounded == Spec => []TriedBetweenDataloaderAndDevice
<1>1. SearchInv => TriedBetweenDataloaderAndDevice
  BY DEF SearchInv
<1> QED
  BY <1>1, Invariance, PTL

\* A conversion is attempted at most Halving + 2 times (_fallback_conversion).
THEOREM AttemptsAreBounded == Spec => []AttemptsBounded
<1>1. SearchInv => AttemptsBounded
  BY DEF SearchInv
<1> QED
  BY <1>1, Invariance, PTL

\* A search fails only after the dataloader's own size was tried
\* (_fallback_conversion).
THEOREM DataloaderIsTried == Spec => []GivesUpAtDataloader
<1>1. SearchInv => GivesUpAtDataloader
  BY DEF SearchInv
<1> QED
  BY <1>1, Invariance, PTL

\* The device size is the profile's or at least half of what was measured last
\* (FindMaxBatchSize._execute_configuration).
THEOREM DeviceSize == Spec => []DeviceSizeWasSeen
<1>1. SearchInv => DeviceSizeWasSeen
  BY DEF SearchInv
<1> QED
  BY <1>1, Invariance, PTL
=============================================================================
