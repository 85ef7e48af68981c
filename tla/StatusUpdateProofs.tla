------------------------- MODULE StatusUpdateProofs -------------------------
(***************************************************************************)
(* What becomes of the evaluations and of the keys of a package that is    *)
(* loaded and saved any number of times, for every set of packages the     *)
(* versions can have written (PackagesAssumption).                         *)
(***************************************************************************)
EXTENDS StatusUpdate, FiniteSetTheorems, SequenceTheorems, WellFoundedInduction, TLAPS

----------------------------------------------------------------------------
(* Finite sets of numbers *)

\* A set of natural numbers that is not empty has a least element.
LEMMA LeastElement ==
    ASSUME NEW T \in SUBSET Nat, T # {}
    PROVE  \E m \in T : \A k \in T : m <= k
<1>1. PICK m \in T : \A k \in Nat : <<k, m>> \in OpToRel(<, Nat) => k \notin T
  BY NatLessThanWellFounded, WFMin
<1>2. \A k \in Nat : k < m => <<k, m>> \in OpToRel(<, Nat)
  BY DEF OpToRel
<1>3. \A k \in T : ~(k < m)
  BY <1>1, <1>2, Zenon
<1> QED
  BY <1>3

\* A finite set of natural numbers has a largest one: a smallest set that had
\* none would have none without one of its elements either.
LEMMA LargestElement ==
    ASSUME NEW S \in SUBSET Nat, IsFiniteSet(S), S # {}
    PROVE  \E x \in S : \A y \in S : x >= y
<1> DEFINE Unbounded(U) == U # {} /\ \A x \in U : \E y \in U : ~(x >= y)
           T == {c \in Nat : \E U \in SUBSET Nat :
                                IsFiniteSet(U) /\ Cardinality(U) = c /\ Unbounded(U)}
<1> SUFFICES ASSUME Unbounded(S)
             PROVE  FALSE
  OBVIOUS
<1>1. Cardinality(S) \in T
  BY FS_CardinalityType
<1>2. PICK c \in T : \A k \in T : c <= k
  <2>1. T \in SUBSET Nat /\ T # {}
    BY <1>1
  <2> QED
    BY <2>1, LeastElement
<1>3. PICK U \in SUBSET Nat : IsFiniteSet(U) /\ Cardinality(U) = c /\ Unbounded(U)
  BY <1>2
<1>4. PICK x \in U : TRUE
  BY <1>3
<1>5. /\ IsFiniteSet(U \ {x}) /\ Cardinality(U \ {x}) = c - 1
      /\ U \ {x} \in SUBSET Nat /\ c - 1 \in Nat
  <2>1. IsFiniteSet(U \ {x}) /\ Cardinality(U \ {x}) = c - 1
    BY <1>3, <1>4, FS_RemoveElement
  <2> QED
    BY <2>1, FS_CardinalityType
<1>6. ~Unbounded(U \ {x})
  <2>1. c - 1 \notin T
    BY <1>2, <1>5
  <2> QED
    BY <1>5, <2>1
<1>7. U \ {x} # {}
  <2>1. PICK y \in U : ~(x >= y)
    BY <1>3, <1>4
  <2> QED
    BY <2>1, <1>4
<1>8. PICK y \in U \ {x} : \A z \in U \ {x} : y >= z
  BY <1>6, <1>7
<1>9. \E m \in {x, y} : m >= x /\ m >= y
  BY <1>4, <1>8
<1>10. PICK m \in {x, y} : m >= x /\ m >= y
  BY <1>9
<1>11. \A z \in U : m >= z
  BY <1>4, <1>8, <1>10
<1> QED
  BY <1>3, <1>4, <1>8, <1>10, <1>11

\* What Max of FiniteSetsExt finds in such a set.
LEMMA MaxIsLargest ==
    ASSUME NEW S \in SUBSET Nat, IsFiniteSet(S), S # {}
    PROVE  Max(S) \in S /\ \A y \in S : y <= Max(S)
<1>1. Max(S) \in S /\ \A y \in S : Max(S) >= y
  BY LargestElement DEF Max
<1> QED
  BY <1>1

----------------------------------------------------------------------------
(* Runtimes and runners *)

\* No two runtimes of a format become one runner.
LEMMA OneRunnerEach ==
    ASSUME NEW format \in Formats, NEW r \in RuntimesOf(format), NEW s \in RuntimesOf(format),
           RunnerOf(format, r) = RunnerOf(format, s)
    PROVE  r = s
<1>1. CASE format = "onnx"
  BY <1>1 DEF RuntimesOf, RunnerOf
<1>2. CASE format = "trt"
  BY <1>2 DEF RuntimesOf, RunnerOf, NoRunner
<1>3. CASE format \in {"tf-trt", "tf-savedmodel"}
  BY <1>3 DEF RuntimesOf
<1>4. CASE format \in {"torch-trt", "torchscript"}
  BY <1>4 DEF RuntimesOf
<1> QED
  BY <1>1, <1>2, <1>3, <1>4 DEF Formats

\* The runtimes of a model that become runners.
Profiled(model) == {r \in DOMAIN model.results : RunnerOf(model.format, r) # NoRunner}

\* The runner a result becomes.
Entry(result) == [status |-> StatusOf(result), sizes |-> result.sizes]

\* The updates change neither which model it is nor what its results say;
\* WithPrecision gives Torch-TensorRT models a precision.
SameResult(a, b) ==
    /\ a.tolerance = b.tolerance /\ a.sizes = b.sizes /\ a.verified = b.verified

SameModel(o, m) ==
    /\ DOMAIN m = DOMAIN o
    /\ m.key = o.key /\ m.format = o.format /\ m.path = o.path
    /\ m.jit_type = o.jit_type /\ m.compile = o.compile
    /\ m.precision = o.precision \/ (m.format = "torch-trt" /\ m.precision = "fp32")
    /\ DOMAIN m.results = DOMAIN o.results
    /\ \A r \in DOMAIN o.results : SameResult(o.results[r], m.results[r])

\* Every runtime that is known finds its result with its runner.
LEMMA RunnersAreKept ==
    ASSUME NEW o, OldModel(o), NEW m, SameModel(o, m)
    PROVE  /\ \A r \in Profiled(o) :
                /\ RunnerOf(o.format, r) \in DOMAIN RunnersStatus(m)
                /\ RunnersStatus(m)[RunnerOf(o.format, r)] = Entry(o.results[r])
           /\ \A n \in DOMAIN RunnersStatus(m) : \E r \in Profiled(o) : n = RunnerOf(o.format, r)
<1> DEFINE known == {r \in DOMAIN m.results : RunnerOf(m.format, r) # NoRunner}
           of(n) == CHOOSE r \in known : RunnerOf(m.format, r) = n
           names == {RunnerOf(m.format, r) : r \in known}
<1>1. known = Profiled(o) /\ m.format = o.format
  BY DEF SameModel, Profiled
<1>2. RunnersStatus(m) = [n \in names |-> [status |-> StatusOf(m.results[of(n)]),
                                           sizes |-> m.results[of(n)].sizes]]
  BY DEF RunnersStatus
<1>3. DOMAIN RunnersStatus(m) = names
  BY <1>2
<1>4. ASSUME NEW r \in Profiled(o)
      PROVE  of(RunnerOf(o.format, r)) = r
  <2>1. r \in known /\ RunnerOf(m.format, r) = RunnerOf(o.format, r)
    BY <1>1
  <2>2. /\ of(RunnerOf(o.format, r)) \in known
        /\ RunnerOf(m.format, of(RunnerOf(o.format, r))) = RunnerOf(o.format, r)
    BY <2>1
  <2>3. o.format \in Formats /\ known \subseteq RuntimesOf(o.format)
    BY <1>1 DEF OldModel, Profiled
  <2> HIDE DEF of, known
  <2> QED
    BY <1>1, <2>1, <2>2, <2>3, OneRunnerEach
<1>5. ASSUME NEW r \in Profiled(o)
      PROVE  /\ RunnerOf(o.format, r) \in names
             /\ [status |-> StatusOf(m.results[r]), sizes |-> m.results[r].sizes]
                    = Entry(o.results[r])
  <2>1. SameResult(o.results[r], m.results[r])
    BY DEF SameModel, Profiled
  <2> QED
    BY <1>1, <2>1 DEF SameResult, Entry, StatusOf
<1> HIDE DEF of, known
<1>6. ASSUME NEW r \in Profiled(o)
      PROVE  RunnersStatus(m)[RunnerOf(o.format, r)] = Entry(o.results[r])
  BY <1>2, <1>4, <1>5
<1>7. \A n \in names : \E r \in Profiled(o) : n = RunnerOf(o.format, r)
  BY <1>1
<1> QED
  BY <1>3, <1>5, <1>6, <1>7

----------------------------------------------------------------------------
(* The inductive invariant *)

\* The models of the first file that are known in the end.
Originals == {o \in first.models : first.shape = "old" => o.path}

\* The runners of a model hold what was evaluated of o.
SameRunners(o, runners) ==
    IF first.shape = "old"
    THEN \A r \in Profiled(o) :
            /\ RunnerOf(o.format, r) \in DOMAIN runners
            /\ runners[RunnerOf(o.format, r)] = Entry(o.results[r])
    ELSE runners = o.runners

Survive(models) ==
    /\ \A m \in models : \E o \in Originals : o.key = m.key /\ SameRunners(o, m.runners)
    /\ \A o \in Originals : \E m \in models : m.key = o.key

Bounds(size) ==
    first.shape = "old" =>
        \A o \in Originals : \A r \in Profiled(o) : \A s \in o.results[r].sizes : s <= size

\* A dictionary, or a file, of the new format.
Evaluated(d) ==
    /\ {"models", "max_batch_size"} \subseteq DOMAIN d
    /\ Survive(d.models) /\ Bounds(d.max_batch_size)

\* The dictionary while it still has the old format.
Carried(models) ==
    /\ \A m \in models : \E o \in first.models : SameModel(o, m)
    /\ \A o \in first.models : \E m \in models : SameModel(o, m)

OldDict ==
    /\ first.shape = "old" /\ version = ExtractVersion(first)
    /\ DOMAIN dict = DOMAIN first /\ Carried(dict.models)
    /\ pc = "update_0_1_0" => dict = first
    /\ pc = "update_0_1_2" /\ version <= 12 => "trt_dynamic_axes" \in dict.export_config

NewVersions == {20, 21, 22}

Updating == {"update_0_1_0", "update_0_1_2", "update_0_1_3", "update_0_1_4"}

FileInv ==
    \/ file = first /\ first.shape = "old"
    \/ file.version \in NewVersions /\ Evaluated(file)

DictInv ==
    /\ pc \in Updating => OldDict \/ (version \in NewVersions /\ Evaluated(dict))
    /\ pc \in {"update_0_2_1", "build", "loaded"} => Evaluated(dict)

StatusInv ==
    /\ pc = "failed" => first.framework = "pytorch" /\ first.version \in {0, 10}
    /\ pc = "loaded" =>
          /\ DOMAIN status = {o.key : o \in Originals}
          /\ \A o \in Originals : SameRunners(o, status[o.key].runners)

EvaluationInv == first \in Packages /\ FileInv /\ DictInv /\ StatusInv

\* What a step that leaves the first file alone leaves alone with it.
LEMMA FirstStays ==
    ASSUME UNCHANGED first
    PROVE  /\ Originals' = Originals
           /\ \A o, runners : SameRunners(o, runners)' <=> SameRunners(o, runners)
           /\ \A models : Survive(models)' <=> Survive(models)
           /\ \A size : Bounds(size)' <=> Bounds(size)
           /\ \A d : Evaluated(d)' <=> Evaluated(d)
           /\ \A models : Carried(models)' <=> Carried(models)
BY DEF Originals, SameRunners, Survive, Bounds, Evaluated, Carried

LEMMA FirstIsOld ==
    ASSUME first \in Packages, first.shape = "old"
    PROVE  OldPackage(first)
BY PackagesAssumption DEF NewPackage

LEMMA FirstIsNew ==
    ASSUME first \in Packages, first.shape # "old"
    PROVE  NewPackage(first)
BY PackagesAssumption DEF OldPackage

\* Keys tell the models of the first file apart.
LEMMA OneOriginal ==
    ASSUME first \in Packages, NEW o \in Originals, NEW q \in Originals, o.key = q.key
    PROVE  o = q
<1>1. CASE first.shape = "old"
  BY <1>1, FirstIsOld DEF OldPackage, OldModel, Originals
<1>2. CASE first.shape # "old"
  BY <1>2, FirstIsNew DEF NewPackage, Originals
<1> QED
  BY <1>1, <1>2

\* The versions of files in the old format.
LEMMA OldVersion ==
    ASSUME NEW p, OldPackage(p)
    PROVE  /\ ExtractVersion(p) \in {10, 11, 12, 13, 14}
           /\ ExtractVersion(p) <= 10 => p.version \in {0, 10} /\ HasLatencies(p)
           /\ ExtractVersion(p) <= 12 => "trt_dynamic_axes" \in p.export_config
BY DEF OldPackage, ExtractVersion

\* A model is the same after an update of its results or its precision.
LEMMA SameAfterUpdate ==
    ASSUME NEW o, OldModel(o), NEW m, SameModel(o, m)
    PROVE  SameModel(o, WithPrecision(m)) /\ SameModel(o, WithStatistics(o)) /\ SameModel(o, o)
<1>1. SameModel(o, o)
  BY DEF SameModel, SameResult
<1>2. SameModel(o, WithPrecision(m))
  BY DEF SameModel, SameResult, WithPrecision, OldModel
<1>3. SameModel(o, WithStatistics(o))
  <2> DEFINE w == WithStatistics(o)
  <2>1. /\ DOMAIN w = DOMAIN o /\ w.key = o.key /\ w.format = o.format /\ w.path = o.path
        /\ w.jit_type = o.jit_type /\ w.compile = o.compile /\ w.precision = o.precision
        /\ w.results = [r \in DOMAIN o.results |-> [o.results[r] EXCEPT !.statistics = TRUE]]
    BY DEF WithStatistics, OldModel
  <2>2. ASSUME NEW r \in DOMAIN o.results
        PROVE  SameResult(o.results[r], w.results[r])
    <3>1. o.results[r] \in [tolerance : BOOLEAN, sizes : SUBSET Nat,
                             verified : BOOLEAN, statistics : BOOLEAN]
      BY DEF OldModel
    <3>2. w.results[r] = [o.results[r] EXCEPT !.statistics = TRUE]
      BY <2>1
    <3> QED
      BY <3>1, <3>2 DEF SameResult
  <2>3. DOMAIN w.results = DOMAIN o.results
    BY <2>1
  <2> QED
    BY <2>1, <2>2, <2>3 DEF SameModel
<1> QED
  BY <1>1, <1>2, <1>3

\* Results that are no longer OK had no sizes.
LEMMA OkResultsAreKept ==
    ASSUME first \in Packages, NEW o \in Originals, NEW runners, SameRunners(o, runners)
    PROVE  SameRunners(o, [n \in DOMAIN runners |-> OkResults(runners[n])])
<1> DEFINE after == [n \in DOMAIN runners |-> OkResults(runners[n])]
<1>1. CASE first.shape = "old"
  <2> SUFFICES ASSUME NEW r \in Profiled(o)
               PROVE  /\ RunnerOf(o.format, r) \in DOMAIN after
                      /\ after[RunnerOf(o.format, r)] = Entry(o.results[r])
    BY <1>1 DEF SameRunners
  <2>1. /\ RunnerOf(o.format, r) \in DOMAIN runners
        /\ runners[RunnerOf(o.format, r)] = Entry(o.results[r])
    BY <1>1 DEF SameRunners
  <2>2. o.results[r].sizes # {} => o.results[r].tolerance
    BY <1>1, FirstIsOld DEF OldPackage, OldModel, Originals, Profiled
  <2>3. OkResults(Entry(o.results[r])) = Entry(o.results[r])
    BY <2>2 DEF OkResults, Entry, StatusOf
  <2> QED
    BY <2>1, <2>3
<1>2. CASE first.shape # "old"
  <2>1. runners = o.runners
    BY <1>2 DEF SameRunners
  <2>2. NewModel(o, first.models)
    BY <1>2, FirstIsNew DEF NewPackage, Originals
  <2>3. ASSUME NEW n \in DOMAIN runners
        PROVE  OkResults(runners[n]) = runners[n]
    BY <2>1, <2>2 DEF NewModel, OkResults
  <2>4. runners = [n \in DOMAIN runners |-> runners[n]]
    BY <2>1, <2>2 DEF NewModel
  <2>5. after = runners
    BY <2>3, <2>4
  <2> QED
    BY <1>2, <2>1, <2>5 DEF SameRunners
<1> QED
  BY <1>1, <1>2

\* _update_from_v0_1_4 keeps every runner and the largest batch.
LEMMA OldModelsSurvive ==
    ASSUME first \in Packages, first.shape = "old", NEW old, Carried(old)
    PROVE  LET models == {ModelStatusOf(m) : m \in {m \in old : m.path}}
           IN  Survive(models) /\ Bounds(MaxSize(models))
<1> DEFINE models == {ModelStatusOf(m) : m \in {m \in old : m.path}}
           found == UNION {UNION {m.runners[n].sizes : n \in DOMAIN m.runners} : m \in models}
<1>1. ASSUME NEW m \in old, m.path
      PROVE  \E o \in Originals : SameModel(o, m)
  BY <1>1 DEF Carried, Originals, SameModel
<1>2. \A o \in Originals : \E m \in {m \in old : m.path} : SameModel(o, m)
  BY DEF Carried, Originals, SameModel
<1>3. \A o \in Originals : o \in first.models /\ OldModel(o)
  BY FirstIsOld DEF OldPackage, Originals
<1>4. ASSUME NEW o \in Originals, NEW m, SameModel(o, m)
      PROVE  ModelStatusOf(m).key = o.key /\ SameRunners(o, ModelStatusOf(m).runners)
  <2>1. ModelStatusOf(m).key = o.key /\ ModelStatusOf(m).runners = RunnersStatus(m)
    BY <1>4 DEF ModelStatusOf, SameModel
  <2> QED
    BY <1>3, <1>4, <2>1, RunnersAreKept DEF SameRunners
<1>5. Survive(models)
  <2>1. ASSUME NEW x \in models
        PROVE  \E o \in Originals : o.key = x.key /\ SameRunners(o, x.runners)
    <3>1. PICK m \in old : m.path /\ x = ModelStatusOf(m)
      OBVIOUS
    <3> QED
      BY <1>1, <1>4, <3>1
  <2>2. ASSUME NEW o \in Originals
        PROVE  \E x \in models : x.key = o.key
    <3>1. PICK m \in {m \in old : m.path} : SameModel(o, m)
      BY <1>2
    <3>2. ModelStatusOf(m) \in models
      OBVIOUS
    <3> QED
      BY <1>4, <3>1, <3>2
  <2> QED
    BY <2>1, <2>2 DEF Survive
<1>6. found \subseteq SizesIn(first.models)
  <2> SUFFICES ASSUME NEW x \in models, NEW n \in DOMAIN x.runners, NEW s \in x.runners[n].sizes
               PROVE  s \in SizesIn(first.models)
    OBVIOUS
  <2>1. PICK m \in old : m.path /\ x = ModelStatusOf(m)
    OBVIOUS
  <2>2. PICK o \in Originals : SameModel(o, m)
    BY <1>1, <2>1
  <2>3. x.runners = RunnersStatus(m)
    BY <2>1 DEF ModelStatusOf
  <2>4. PICK r \in Profiled(o) : n = RunnerOf(o.format, r)
    BY <1>3, <2>2, <2>3, RunnersAreKept
  <2>5. x.runners[n] = Entry(o.results[r])
    BY <1>3, <2>2, <2>3, <2>4, RunnersAreKept
  <2>6. Entry(o.results[r]).sizes = o.results[r].sizes
    BY DEF Entry
  <2>7. s \in o.results[r].sizes
    BY <2>5, <2>6
  <2> QED
    BY <1>3, <2>7 DEF SizesIn, Profiled
<1>7. IsFiniteSet({1} \cup found) /\ {1} \cup found \in SUBSET Nat
  <2>1. IsFiniteSet(SizesIn(first.models)) /\ SizesIn(first.models) \subseteq Nat
    <3>1. ASSUME NEW m \in first.models, NEW r \in DOMAIN m.results
          PROVE  m.results[r].sizes \subseteq Nat
      BY FirstIsOld DEF OldPackage, OldModel
    <3> QED
      BY <3>1, FirstIsOld DEF OldPackage, SizesIn
  <2>2. IsFiniteSet(SizesIn(first.models) \cup {1})
    BY <2>1, FS_AddElement
  <2>3. {1} \cup found \in SUBSET (SizesIn(first.models) \cup {1})
    BY <1>6
  <2>4. IsFiniteSet({1} \cup found)
    BY <2>2, <2>3, FS_Subset
  <2> QED
    BY <1>6, <2>1, <2>4
<1>8. \A s \in found : s <= MaxSize(models)
  BY <1>7, MaxIsLargest DEF MaxSize
<1>9. Bounds(MaxSize(models))
  <2> SUFFICES ASSUME NEW o \in Originals, NEW r \in Profiled(o), NEW s \in o.results[r].sizes
               PROVE  s \in found
    BY <1>8 DEF Bounds
  <2>1. PICK m \in {m \in old : m.path} : SameModel(o, m)
    BY <1>2
  <2>2. ModelStatusOf(m) \in models /\ SameRunners(o, ModelStatusOf(m).runners)
    BY <1>4, <2>1
  <2>3. /\ RunnerOf(o.format, r) \in DOMAIN ModelStatusOf(m).runners
        /\ ModelStatusOf(m).runners[RunnerOf(o.format, r)] = Entry(o.results[r])
    BY <2>2 DEF SameRunners
  <2>4. Entry(o.results[r]).sizes = o.results[r].sizes
    BY DEF Entry
  <2>5. s \in ModelStatusOf(m).runners[RunnerOf(o.format, r)].sizes
    BY <2>3, <2>4
  <2> HIDE DEF models
  <2> QED
    BY <2>2, <2>3, <2>5
<1> QED
  BY <1>5, <1>9

----------------------------------------------------------------------------
(* Steps *)

LEMMA EvaluationInit == Init => EvaluationInv
<1> SUFFICES ASSUME Init
             PROVE  EvaluationInv
  OBVIOUS
<1>1. first \in Packages /\ file = first /\ pc = "stored"
  BY DEF Init
<1>2. FileInv
  <2>1. CASE first.shape = "old"
    BY <1>1, <2>1 DEF FileInv
  <2>2. CASE first.shape # "old"
    <3>1. NewPackage(first)
      BY <1>1, <2>2, FirstIsNew
    <3>2. Survive(first.models) /\ Bounds(first.max_batch_size)
      BY <2>2 DEF Survive, Bounds, Originals, SameRunners
    <3> QED
      BY <1>1, <3>1, <3>2 DEF FileInv, Evaluated, NewPackage, NewVersions
  <2> QED
    BY <2>1, <2>2
<1> QED
  BY <1>1, <1>2 DEF EvaluationInv, DictInv, StatusInv, Updating

\* An update that leaves the file alone.
LEMMA UpdateStep ==
    ASSUME EvaluationInv, UNCHANGED <<file, first, version, status, loads>>,
           pc' \in Updating => OldDict' \/ (version \in NewVersions /\ Evaluated(dict')),
           pc' \in {"update_0_2_1", "build"} => Evaluated(dict'),
           pc' # "loaded",
           pc' = "failed" => first.framework = "pytorch" /\ first.version \in {0, 10}
    PROVE  EvaluationInv'
<1>1. FileInv'
  BY FirstStays DEF EvaluationInv, FileInv, Evaluated, Survive, Bounds, Originals, SameRunners
<1>2. Evaluated(dict') => Evaluated(dict)'
  BY DEF Evaluated, Survive, Bounds, Originals, SameRunners
<1>3. DictInv' /\ StatusInv'
  BY <1>2 DEF DictInv, StatusInv
<1> QED
  BY <1>1, <1>3 DEF EvaluationInv

LEMMA EvaluationLoad == EvaluationInv /\ Load => EvaluationInv'
<1> SUFFICES ASSUME EvaluationInv, Load
             PROVE  EvaluationInv'
  OBVIOUS
<1>1. /\ UNCHANGED <<file, first>> /\ pc' = "update_0_1_0"
      /\ dict' = file /\ version' = ExtractVersion(file)
  BY DEF Load
<1>2. FileInv'
  BY <1>1 DEF EvaluationInv, FileInv, Evaluated, Survive, Bounds, Originals, SameRunners
<1>3. DictInv'
  <2>1. CASE file = first /\ first.shape = "old"
    <3>1. \A m \in first.models : SameModel(m, m)
      BY DEF SameModel, SameResult
    <3>2. OldDict'
      BY <1>1, <2>1, <3>1 DEF OldDict, Carried
    <3> QED
      BY <1>1, <3>2 DEF DictInv
  <2>2. CASE file.version \in NewVersions /\ Evaluated(file)
    <3>1. version' \in NewVersions
      BY <1>1, <2>2 DEF ExtractVersion, NewVersions
    <3>2. Evaluated(dict)'
      BY <1>1, <2>2 DEF Evaluated, Survive, Bounds, Originals, SameRunners
    <3> QED
      BY <1>1, <3>1, <3>2 DEF DictInv
  <2> QED
    BY <2>1, <2>2 DEF EvaluationInv, FileInv
<1> QED
  BY <1>1, <1>2, <1>3 DEF EvaluationInv, StatusInv

\* What is known of the dictionary before an update.
LEMMA BeforeUpdate ==
    ASSUME EvaluationInv, pc \in Updating
    PROVE  /\ OldDict => OldPackage(first) /\ version <= 14 /\ version \in Nat
           /\ ~OldDict => version > 14 /\ version \in NewVersions /\ Evaluated(dict)
<1>1. OldDict => OldPackage(first) /\ version <= 14 /\ version \in Nat
  BY FirstIsOld, OldVersion DEF EvaluationInv, OldDict
<1>2. ~OldDict => version > 14 /\ version \in NewVersions /\ Evaluated(dict)
  BY DEF EvaluationInv, DictInv, NewVersions
<1> QED
  BY <1>1, <1>2

\* An update that is not due, or that changes what OldDict does not speak of.
LEMMA UpdateKeepsModels ==
    ASSUME EvaluationInv, pc \in Updating, UNCHANGED <<file, first, version, status, loads>>,
           pc' \in Updating \ {"update_0_1_0", "update_0_1_2"},
           DOMAIN dict' = DOMAIN dict, OldDict => Carried(dict'.models), OldDict \/ dict' = dict
    PROVE  EvaluationInv'
<1>1. CASE OldDict
  <2>1. OldDict'
    BY <1>1 DEF OldDict, Carried
  <2> QED
    BY <2>1, UpdateStep DEF Updating
<1>2. CASE ~OldDict
  BY <1>2, BeforeUpdate, UpdateStep DEF Updating
<1> QED
  BY <1>1, <1>2

LEMMA Evaluation010 == EvaluationInv /\ UpdateFrom010 => EvaluationInv'
<1> SUFFICES ASSUME EvaluationInv, UpdateFrom010
             PROVE  EvaluationInv'
  OBVIOUS
<1>1. pc = "update_0_1_0" /\ pc \in Updating /\ UNCHANGED <<file, first, version, status, loads>>
  BY DEF UpdateFrom010, Updated, Fails, Updating
<1>2. CASE OldDict
  <2>1. OldPackage(first) /\ dict = first /\ version = ExtractVersion(first)
    BY <1>1, <1>2, BeforeUpdate DEF OldDict
  <2>2. CASE ~Due(10)
    <3>1. dict' = dict /\ pc' = "update_0_1_2"
      BY <2>2 DEF UpdateFrom010, Updated
    <3>2. OldDict'
      BY <1>1, <1>2, <2>1, <3>1, OldVersion DEF OldDict, Carried
    <3> QED
      BY <1>1, <3>1, <3>2, UpdateStep DEF Updating
  <2>3. CASE Due(10)
    <3>1. first.version \in {0, 10} /\ HasLatencies(dict)
      BY <2>1, <2>3, OldVersion DEF Due
    <3>2. CASE dict.framework = "pytorch"
      <4>1. pc' = "failed"
        BY <2>3, <3>2 DEF UpdateFrom010, Fails
      <4> QED
        BY <1>1, <2>1, <3>1, <3>2, <4>1, UpdateStep DEF Updating
    <3>3. CASE dict.framework # "pytorch"
      <4>1. /\ dict' = [dict EXCEPT !.models = {WithStatistics(m) : m \in @},
                                    !.export_config = @ \cup {"optimization_profile"}]
            /\ pc' = "update_0_1_2"
        BY <2>3, <3>1, <3>3 DEF UpdateFrom010, Updated
      <4>2. /\ DOMAIN dict' = DOMAIN first
            /\ dict'.models = {WithStatistics(m) : m \in first.models}
            /\ dict'.export_config = first.export_config \cup {"optimization_profile"}
        BY <2>1, <4>1 DEF OldPackage
      <4>3. \A o \in first.models : SameModel(o, WithStatistics(o))
        BY <2>1, SameAfterUpdate DEF OldPackage, SameModel, SameResult
      <4>4. Carried(dict'.models)
        BY <4>2, <4>3 DEF Carried
      <4>5. OldDict'
        BY <1>1, <1>2, <2>1, <4>1, <4>2, <4>4, OldVersion DEF OldDict, Carried
      <4> QED
        BY <1>1, <4>1, <4>5, UpdateStep DEF Updating
    <3> QED
      BY <3>2, <3>3
  <2> QED
    BY <2>2, <2>3
<1>3. CASE ~OldDict
  <2>1. version > 14 /\ version \in NewVersions /\ Evaluated(dict)
    BY <1>1, <1>3, BeforeUpdate
  <2>2. dict' = dict /\ pc' = "update_0_1_2"
    BY <2>1 DEF UpdateFrom010, Updated, Due, NewVersions
  <2> QED
    BY <1>1, <2>1, <2>2, UpdateStep DEF Updating
<1> QED
  BY <1>2, <1>3

LEMMA Evaluation012 == EvaluationInv /\ UpdateFrom012 => EvaluationInv'
<1> SUFFICES ASSUME EvaluationInv, UpdateFrom012
             PROVE  EvaluationInv'
  OBVIOUS
<1>1. pc = "update_0_1_2" /\ pc \in Updating /\ UNCHANGED <<file, first, version, status, loads>>
  BY DEF UpdateFrom012, Updated, Fails, Updating
<1>2. CASE Due(12)
  <2>1. OldDict /\ OldPackage(first)
    BY <1>1, <1>2, BeforeUpdate DEF Due, NewVersions
  <2>2. "trt_dynamic_axes" \in dict.export_config
    BY <1>1, <1>2, <2>1 DEF OldDict, Due
  <2>3. /\ dict' = [dict EXCEPT !.models = {WithPrecision(m) : m \in @}]
        /\ pc' = "update_0_1_3"
    BY <1>2, <2>2 DEF UpdateFrom012, Updated
  <2>4. DOMAIN dict' = DOMAIN dict /\ dict'.models = {WithPrecision(m) : m \in dict.models}
    BY <2>1, <2>3 DEF OldDict, OldPackage
  <2>5. \A o \in first.models : \A m \in dict.models :
            SameModel(o, m) => SameModel(o, WithPrecision(m))
    BY <2>1, SameAfterUpdate DEF OldPackage
  <2>6. Carried(dict'.models)
    <3>1. Carried(dict.models)
      BY <2>1 DEF OldDict
    <3> QED
      BY <2>4, <2>5, <3>1 DEF Carried
  <2> QED
    BY <1>1, <2>1, <2>3, <2>4, <2>6, UpdateKeepsModels DEF Updating
<1>3. CASE ~Due(12)
  <2>1. dict' = dict /\ pc' = "update_0_1_3"
    BY <1>3 DEF UpdateFrom012, Updated
  <2>2. OldDict => Carried(dict'.models)
    BY <2>1 DEF OldDict
  <2> QED
    BY <1>1, <2>1, <2>2, UpdateKeepsModels DEF Updating
<1> QED
  BY <1>2, <1>3

LEMMA Evaluation013 == EvaluationInv /\ UpdateFrom013 => EvaluationInv'
<1> SUFFICES ASSUME EvaluationInv, UpdateFrom013
             PROVE  EvaluationInv'
  OBVIOUS
<1>1. /\ pc = "update_0_1_3" /\ pc \in Updating /\ pc' = "update_0_1_4"
      /\ UNCHANGED <<file, first, version, status, loads>>
  BY DEF UpdateFrom013, Updated, Updating
<1>2. CASE Due(13)
  <2>1. OldDict /\ OldPackage(first)
    BY <1>1, <1>2, BeforeUpdate DEF Due, NewVersions
  <2>2. DOMAIN dict' = DOMAIN dict /\ dict'.models = dict.models
    BY <1>2, <2>1 DEF UpdateFrom013, Updated, OldDict, OldPackage
  <2>3. Carried(dict'.models)
    BY <2>1, <2>2 DEF OldDict
  <2> QED
    BY <1>1, <2>1, <2>2, <2>3, UpdateKeepsModels DEF Updating
<1>3. CASE ~Due(13)
  <2>1. dict' = dict
    BY <1>3 DEF UpdateFrom013, Updated
  <2>2. OldDict => Carried(dict'.models)
    BY <2>1 DEF OldDict
  <2> QED
    BY <1>1, <2>1, <2>2, UpdateKeepsModels DEF Updating
<1> QED
  BY <1>2, <1>3

LEMMA Evaluation014 == EvaluationInv /\ UpdateFrom014 => EvaluationInv'
<1> SUFFICES ASSUME EvaluationInv, UpdateFrom014
             PROVE  EvaluationInv'
  OBVIOUS
<1>1. /\ pc = "update_0_1_4" /\ pc \in Updating /\ pc' = "update_0_2_1"
      /\ UNCHANGED <<file, first, version, status, loads>>
  BY DEF UpdateFrom014, Updated, Updating
<1>2. Evaluated(dict')
  <2>1. CASE OldDict
    <3> DEFINE models == {ModelStatusOf(m) : m \in {m \in dict.models : m.path}}
    <3>1. Due(14)
      BY <1>1, <2>1, BeforeUpdate DEF Due
    <3>2. dict' = [shape |-> "new", version |-> dict.version, models |-> models,
                   config |-> ConfigOf(dict.export_config), max_batch_size |-> MaxSize(models)]
      BY <3>1 DEF UpdateFrom014, Updated
    <3>3. Survive(models) /\ Bounds(MaxSize(models))
      BY <2>1, OldModelsSurvive DEF EvaluationInv, OldDict
    <3> HIDE DEF models
    <3>4. /\ {"models", "max_batch_size"} \subseteq DOMAIN dict'
          /\ dict'.models = models /\ dict'.max_batch_size = MaxSize(models)
      BY <3>2
    <3> QED
      BY <3>3, <3>4 DEF Evaluated
  <2>2. CASE ~OldDict
    BY <1>1, <2>2, BeforeUpdate DEF UpdateFrom014, Updated, Due, NewVersions
  <2> QED
    BY <2>1, <2>2
<1> QED
  BY <1>1, <1>2, UpdateStep DEF Updating

LEMMA Evaluation021 == EvaluationInv /\ UpdateFrom021 => EvaluationInv'
<1> SUFFICES ASSUME EvaluationInv, UpdateFrom021
             PROVE  EvaluationInv'
  OBVIOUS
<1>1. /\ pc = "update_0_2_1" /\ pc' = "build"
      /\ UNCHANGED <<file, first, version, status, loads>>
  BY DEF UpdateFrom021, Updated
<1>2. Evaluated(dict)
  BY <1>1 DEF EvaluationInv, DictInv
<1>3. /\ DOMAIN dict' = DOMAIN dict
      /\ dict'.models = dict.models /\ dict'.max_batch_size = dict.max_batch_size
  BY <1>2 DEF UpdateFrom021, Updated, Evaluated
<1>4. Evaluated(dict')
  BY <1>2, <1>3 DEF Evaluated
<1> QED
  BY <1>1, <1>4, UpdateStep DEF Updating

LEMMA EvaluationBuild == EvaluationInv /\ Build => EvaluationInv'
<1> SUFFICES ASSUME EvaluationInv, Build
             PROVE  EvaluationInv'
  OBVIOUS
<1> DEFINE of(k) == CHOOSE m \in dict.models : m.key = k
           keys == {m.key : m \in dict.models}
<1>1. /\ pc = "build" /\ pc' = "loaded" /\ UNCHANGED <<file, first, dict, version>>
      /\ first \in Packages
  BY DEF Build, EvaluationInv
<1>2. Evaluated(dict)
  BY <1>1 DEF EvaluationInv, DictInv
<1>3. keys = {o.key : o \in Originals}
  BY <1>2 DEF Evaluated, Survive
<1>4. DOMAIN status' = keys
  BY DEF Build
<1>5. ASSUME NEW o \in Originals
      PROVE  SameRunners(o, status'[o.key].runners)
  <2>1. o.key \in keys
    BY <1>3
  <2>2. of(o.key) \in dict.models /\ of(o.key).key = o.key
    BY <2>1
  <2>3. status'[o.key].runners =
          [n \in DOMAIN of(o.key).runners |-> OkResults(of(o.key).runners[n])]
    BY <2>1 DEF Build
  <2> HIDE DEF of
  <2>4. PICK q \in Originals : q.key = o.key /\ SameRunners(q, of(o.key).runners)
    BY <1>2, <2>2 DEF Evaluated, Survive
  <2>5. q = o
    BY <1>1, <2>4, OneOriginal
  <2> QED
    BY <1>1, <2>3, <2>4, <2>5, OkResultsAreKept
<1>6. FileInv'
  BY <1>1 DEF EvaluationInv, FileInv, Evaluated, Survive, Bounds, Originals, SameRunners
<1>7. Evaluated(dict)'
  BY <1>1, <1>2 DEF Evaluated, Survive, Bounds, Originals, SameRunners
<1>8. StatusInv'
  <2>1. Originals' = Originals /\ DOMAIN status' = {o.key : o \in Originals}
    BY <1>1, <1>3, <1>4 DEF Originals
  <2>2. \A o \in Originals : SameRunners(o, status[o.key].runners)'
    BY <1>1, <1>5 DEF SameRunners
  <2> QED
    BY <1>1, <2>1, <2>2 DEF StatusInv
<1> QED
  BY <1>1, <1>6, <1>7, <1>8 DEF EvaluationInv, DictInv, Updating

\* What to_dict writes of a model.
SavedModel(k) ==
    [key |-> k, format |-> status[k].format,
     parent_key |-> IF status[k].parent = << >> THEN << >> ELSE Key(status[k].parent),
     jit_type |-> status[k].options.jit_type, precision |-> status[k].options.precision,
     compile |-> status[k].options.compile, runners |-> status[k].runners]

LEMMA SavedModels ==
    ASSUME Save
    PROVE  /\ \A m \in file'.models : \E k \in DOMAIN status :
                m = SavedModel(k) /\ m.key = k /\ m.runners = status[k].runners
           /\ \A k \in DOMAIN status : SavedModel(k) \in file'.models
           /\ \A k \in DOMAIN status : \E m \in file'.models : m.key = k
<1>1. file'.models = {SavedModel(k) : k \in DOMAIN status}
  BY DEF Save, SavedModel
<1>2. \A k : SavedModel(k).key = k /\ SavedModel(k).runners = status[k].runners
  BY DEF SavedModel
<1> QED
  BY <1>1, <1>2

LEMMA EvaluationSave == EvaluationInv /\ Save => EvaluationInv'
<1> SUFFICES ASSUME EvaluationInv, Save
             PROVE  EvaluationInv'
  OBVIOUS
<1>1. pc = "loaded" /\ pc' = "stored" /\ UNCHANGED first
  BY DEF Save
<1>2. Evaluated(dict) /\ StatusInv
  BY <1>1 DEF EvaluationInv, DictInv
<1>3. /\ {"models", "max_batch_size"} \subseteq DOMAIN file'
      /\ file'.version \in NewVersions /\ file'.max_batch_size = dict.max_batch_size
  BY DEF Save, NewVersions
<1>4. /\ \A m \in file'.models : \E k \in DOMAIN status :
            m.key = k /\ m.runners = status[k].runners
      /\ \A k \in DOMAIN status : \E m \in file'.models : m.key = k
  BY SavedModels
<1>5. Survive(file'.models)
  <2>1. ASSUME NEW m \in file'.models
        PROVE  \E o \in Originals : o.key = m.key /\ SameRunners(o, m.runners)
    <3>1. PICK k \in DOMAIN status : m.key = k /\ m.runners = status[k].runners
      BY <1>4
    <3>2. PICK o \in Originals : o.key = k
      BY <1>1, <1>2 DEF StatusInv
    <3> QED
      BY <1>1, <1>2, <3>1, <3>2 DEF StatusInv
  <2>2. \A o \in Originals : \E m \in file'.models : m.key = o.key
    BY <1>1, <1>2, <1>4 DEF StatusInv
  <2> QED
    BY <2>1, <2>2 DEF Survive
<1>6. Evaluated(file')
  BY <1>2, <1>3, <1>5 DEF Evaluated
<1>7. FileInv'
  BY <1>1, <1>3, <1>6 DEF FileInv, Evaluated, Survive, Bounds, Originals, SameRunners
<1> QED
  BY <1>1, <1>7 DEF EvaluationInv, DictInv, StatusInv, Updating

\* The files, dictionaries and statuses of a package keep what was evaluated:
\* the invariant holds in every behaviour of StatusUpdate.
THEOREM EvaluationInvariance == Spec => []EvaluationInv
<1>1. EvaluationInv /\ [Next]_vars => EvaluationInv'
  <2>1. EvaluationInv /\ UNCHANGED vars => EvaluationInv'
    BY DEF vars, EvaluationInv, FileInv, DictInv, StatusInv, OldDict, Carried, Evaluated, Survive,
           Bounds, Originals, SameRunners
  <2> QED
    BY <2>1, EvaluationLoad, Evaluation010, Evaluation012, Evaluation013, Evaluation014,
       Evaluation021, EvaluationBuild, EvaluationSave DEF Next
<1> QED
  BY EvaluationInit, <1>1, PTL DEF Spec

\* Whatever version wrote a package, with whatever results and sizes, what was
\* evaluated is known after any number of loads and saves, and only PyTorch
\* packages of 0.1.0 cannot be loaded (StatusDictUpdater, Status.from_dict).
THEOREM EvaluationsKept == Spec => []EvaluationsSurvive
<1>1. EvaluationInv => EvaluationsSurvive
  <2> SUFFICES ASSUME EvaluationInv
               PROVE  EvaluationsSurvive
    OBVIOUS
  <2>1. pc = "failed" => first.framework = "pytorch" /\ first.version \in {0, 10}
    BY DEF EvaluationInv, StatusInv
  <2>2. ASSUME pc = "loaded"
        PROVE  /\ DOMAIN status = {o.key : o \in Originals} /\ Bounds(dict.max_batch_size)
               /\ \A o \in Originals : SameRunners(o, status[o.key].runners)
    BY <2>2 DEF EvaluationInv, StatusInv, DictInv, Evaluated
  <2>3. ASSUME pc = "loaded", first.shape = "old"
        PROVE  DOMAIN status = {m.key : m \in {m \in first.models : m.path}}
    BY <2>2, <2>3 DEF Originals
  <2>4. ASSUME pc = "loaded", first.shape = "old", NEW m \in first.models,
               NEW r \in DOMAIN m.results, m.path, RunnerOf(m.format, r) # NoRunner
        PROVE  LET after == status[m.key].runners[RunnerOf(m.format, r)]
                   result == m.results[r] IN
               /\ after.sizes = result.sizes
               /\ after.status.Correctness = "OK" <=> result.tolerance
               /\ after.status.Performance = "OK" <=> result.tolerance /\ result.sizes # {}
               /\ after.status.VerifyModel = "OK" => result.verified
               /\ \A s \in result.sizes : s <= dict.max_batch_size
    <3>1. m \in Originals /\ r \in Profiled(m)
      BY <2>4 DEF Originals, Profiled
    <3>2. status[m.key].runners[RunnerOf(m.format, r)] = Entry(m.results[r])
      BY <2>2, <2>4, <3>1 DEF SameRunners
    <3>3. \A s \in m.results[r].sizes : s <= dict.max_batch_size
      BY <2>2, <2>4, <3>1 DEF Bounds
    <3> QED
      BY <3>2, <3>3 DEF Entry, StatusOf
  <2>5. ASSUME pc = "loaded", first.shape = "new", NEW m \in first.models
        PROVE  status[m.key].runners = m.runners
    BY <2>2, <2>5 DEF Originals, SameRunners
  <2> QED
    BY <2>1, <2>3, <2>4, <2>5 DEF EvaluationsSurvive
<1> QED
  BY <1>1, EvaluationInvariance, PTL

----------------------------------------------------------------------------
(* Keys *)

\* What follows the format in a key.
LEMMA TailOfKey ==
    ASSUME NEW S, NEW f \in S, NEW t \in Seq(S)
    PROVE  /\ <<f>> \o t \in Seq(S) /\ <<f>> \o t # << >>
           /\ Tail(<<f>> \o t) = t
<1>1. <<f>> \in Seq(S) /\ Len(<<f>>) = 1
  OBVIOUS
<1>2. /\ <<f>> \o t \in Seq(S) /\ Len(<<f>> \o t) = 1 + Len(t)
      /\ \A i \in 1 .. 1 + Len(t) : (<<f>> \o t)[i] = IF i <= 1 THEN <<f>>[i] ELSE t[i - 1]
  BY <1>1, ConcatProperties
<1>3. <<f>> \o t # << >>
  BY <1>2
<1>4. /\ Tail(<<f>> \o t) \in Seq(S) /\ Len(Tail(<<f>> \o t)) = Len(t)
      /\ \A i \in 1 .. Len(t) : Tail(<<f>> \o t)[i] = (<<f>> \o t)[i + 1]
  BY <1>2, <1>3, HeadTailProperties
<1>5. \A i \in 1 .. Len(t) : Tail(<<f>> \o t)[i] = t[i]
  BY <1>2, <1>4
<1> QED
  BY <1>2, <1>3, <1>4, <1>5

\* The parameters of an option are words.
LEMMA PathParamsAreWords ==
    ASSUME NEW o, o.jit_type \in JitTypes, o.precision \in Precisions
    PROVE  PathParams(o) \in Seq(Words)
<1>1. \A w \in Words : <<w>> \in Seq(Words)
  OBVIOUS
<1>2. << >> \in Seq(Words)
  OBVIOUS
<1>3. \A s, t \in Seq(Words) : s \o t \in Seq(Words)
  BY ConcatProperties
<1>4. {"jit", "xla", o.jit_type, o.precision} \subseteq Words
  BY DEF Words
<1> QED
  BY <1>1, <1>2, <1>3, <1>4 DEF PathParams

\* Reading the options that were read before finds them again.
LEMMA ReadTwice ==
    ASSUME NEW m, NEW x, x.format = m.format, x.jit_type = ReadOptions(m).jit_type,
           x.precision = ReadOptions(m).precision, x.compile = ReadOptions(m).compile
    PROVE  ReadOptions(x) = ReadOptions(m)
BY DEF ReadOptions

\* Only the path of an old Torch-TensorRT model says which TorchScript it was.
Exempt(format) == first.shape = "old" /\ format = "torch-trt"

\* The key of a model in a dictionary goes on from its parent's.
Placed(m, models) ==
    /\ m.key \in Seq(Words) /\ m.format \in Formats
    /\ m.jit_type \in JitTypes /\ m.precision \in Precisions
    /\ IF m.parent_key = << >> THEN m.key = OwnKey(m) \/ Exempt(m.format)
       ELSE /\ first.shape = "new"
            /\ \E p \in models :
                 /\ p.key = m.parent_key /\ p.format \in ParentFormats(m.format)
                 /\ m.key = <<m.format>> \o Tail(p.key) \o PathParams(ReadOptions(m))

Located(models) ==
    /\ \A m \in models : Placed(m, models)
    /\ first.shape = "new" => \A m, n \in models : m.key = n.key => m = n

\* The same of a model of the status, whose options are read again as they are.
OptionsOf(k) ==
    [format |-> status[k].format, jit_type |-> status[k].options.jit_type,
     precision |-> status[k].options.precision, compile |-> status[k].options.compile]

LocatedStatus ==
    \A k \in DOMAIN status :
        /\ k \in Seq(Words) /\ status[k].format \in Formats
        /\ status[k].options.jit_type \in JitTypes /\ status[k].options.precision \in Precisions
        /\ ReadOptions(OptionsOf(k)) = status[k].options
        /\ IF status[k].parent = << >>
           THEN \/ k = <<status[k].format>> \o PathParams(status[k].options)
                \/ Exempt(status[k].format)
           ELSE /\ first.shape = "new" /\ status[k].parent \in DOMAIN status
                /\ status[status[k].parent].format \in ParentFormats(status[k].format)
                /\ k = <<status[k].format>> \o Tail(status[k].parent)
                           \o PathParams(status[k].options)

Own(k) == PathParams(status[k].options)

\* What Lineage is a value of.
IsLineage(l) ==
    l = [n \in 0 .. Cardinality(DOMAIN status) |->
            [k \in DOMAIN status |->
                IF n = 0 \/ status[k].parent = << >> THEN PathParams(status[k].options)
                ELSE l[n - 1][status[k].parent] \o PathParams(status[k].options)]]

\* A model has a grandparent at most.
LEMMA NoOlderAncestor ==
    ASSUME LocatedStatus, NEW k \in DOMAIN status, status[k].parent # << >>,
           status[status[k].parent].parent # << >>
    PROVE  status[status[status[k].parent].parent].parent = << >>
<1>1. /\ status[k].parent \in DOMAIN status
      /\ status[status[k].parent].format \in ParentFormats(status[k].format)
  BY DEF LocatedStatus
<1>2. /\ status[status[k].parent].parent \in DOMAIN status
      /\ status[status[status[k].parent].parent].format
            \in ParentFormats(status[status[k].parent].format)
  BY <1>1 DEF LocatedStatus
<1>3. status[status[status[k].parent].parent].format \in {"tf-savedmodel", "torchscript"}
  BY <1>1, <1>2 DEF ParentFormats
<1>4. ParentFormats(status[status[status[k].parent].parent].format) = {}
  BY <1>3 DEF ParentFormats
<1> QED
  BY <1>2, <1>4 DEF LocatedStatus

LEMMA LineageExists ==
    ASSUME LocatedStatus, Cardinality(DOMAIN status) \in Nat
    PROVE  IsLineage(Lineage)
<1> DEFINE N == Cardinality(DOMAIN status)
           parent(k) == status[k].parent
           child(n, k)      == IF n = 0 \/ parent(k) = << >> THEN Own(k)
                               ELSE Own(parent(k)) \o Own(k)
           grandchild(n, k) == IF n = 0 \/ parent(k) = << >> THEN Own(k)
                               ELSE child(n - 1, parent(k)) \o Own(k)
           l == [n \in 0 .. N |-> [k \in DOMAIN status |-> grandchild(n, k)]]
           next(n, k) == IF n = 0 \/ parent(k) = << >> THEN Own(k)
                         ELSE l[n - 1][parent(k)] \o Own(k)
<1>1. ASSUME NEW n \in 0 .. N, NEW k \in DOMAIN status
      PROVE  grandchild(n, k) = next(n, k)
  <2>1. CASE n = 0 \/ parent(k) = << >>
    BY <2>1
  <2>2. CASE n # 0 /\ parent(k) # << >>
    <3>1. n - 1 \in 0 .. N /\ parent(k) \in DOMAIN status
      <4>1. parent(k) \in DOMAIN status
        BY <2>2 DEF LocatedStatus
      <4>2. n \in 0 .. N /\ n # 0 /\ N \in Nat
        BY <2>2
      <4> HIDE DEF N
      <4>3. n - 1 \in 0 .. N
        BY <4>2
      <4> QED
        BY <4>1, <4>3
    <3>2. l[n - 1][parent(k)] = grandchild(n - 1, parent(k))
      BY <3>1
    <3>3. child(n - 1, parent(k)) = grandchild(n - 1, parent(k))
      <4>1. CASE n - 1 = 0 \/ parent(parent(k)) = << >>
        BY <4>1
      <4>2. CASE n - 1 # 0 /\ parent(parent(k)) # << >>
        <5>1. parent(parent(parent(k))) = << >>
          BY <2>2, <4>2, NoOlderAncestor
        <5> QED
          BY <4>2, <5>1
      <4> QED
        BY <4>1, <4>2
    <3> HIDE DEF l, child
    <3> QED
      BY <2>2, <3>2, <3>3
  <2> QED
    BY <2>1, <2>2
<1>2. IsLineage(l)
  <2>1. l = [n \in 0 .. N |-> [k \in DOMAIN status |-> next(n, k)]]
    <3> HIDE DEF next, grandchild
    <3> QED
      BY <1>1 DEF l
  <2> HIDE DEF l
  <2> QED
    BY <2>1 DEF IsLineage, Own
<1>3. Lineage = CHOOSE f : IsLineage(f)
  BY DEF Lineage, IsLineage
<1> HIDE DEF l
<1> QED
  BY <1>2, <1>3

\* One step of Lineage.
LEMMA LineageStep ==
    ASSUME LocatedStatus, Cardinality(DOMAIN status) \in Nat,
           NEW n \in 0 .. Cardinality(DOMAIN status), NEW k \in DOMAIN status
    PROVE  Lineage[n][k] = IF n = 0 \/ status[k].parent = << >> THEN Own(k)
                           ELSE Lineage[n - 1][status[k].parent] \o Own(k)
<1> DEFINE l == Lineage
<1>1. IsLineage(l)
  BY LineageExists
<1> HIDE DEF l
<1>2. l[n] = [i \in DOMAIN status |->
                IF n = 0 \/ status[i].parent = << >> THEN PathParams(status[i].options)
                ELSE l[n - 1][status[i].parent] \o PathParams(status[i].options)]
  BY <1>1 DEF IsLineage
<1>3. l[n][k] = IF n = 0 \/ status[k].parent = << >> THEN Own(k)
                ELSE l[n - 1][status[k].parent] \o Own(k)
  BY <1>2 DEF Own
<1> QED
  BY <1>3 DEF l

\* The parts of a key, and that they are put together again.
LEMMA KeysComeBack ==
    ASSUME LocatedStatus, IsFiniteSet(DOMAIN status),
           NEW k \in DOMAIN status, ~Exempt(status[k].format)
    PROVE  Key(k) = k
<1> DEFINE N == Cardinality(DOMAIN status)
           p == status[k].parent
           q == status[p].parent
<1>1. N \in Nat /\ N # 0
  BY FS_CardinalityType, FS_EmptySet
<1>2. ASSUME NEW i \in DOMAIN status
      PROVE  Own(i) \in Seq(Words) /\ status[i].format \in Words
  BY PathParamsAreWords DEF LocatedStatus, Own, Words
<1>3. ASSUME NEW i \in DOMAIN status, status[i].parent = << >>, ~Exempt(status[i].format)
      PROVE  i = <<status[i].format>> \o Own(i) /\ Tail(i) = Own(i)
  <2>1. i = <<status[i].format>> \o Own(i)
    BY <1>3 DEF LocatedStatus, Own
  <2>2. Tail(<<status[i].format>> \o Own(i)) = Own(i)
    BY <1>2, TailOfKey
  <2> QED
    BY <2>1, <2>2
<1>4. ASSUME NEW i \in DOMAIN status, status[i].parent # << >>
      PROVE  /\ status[i].parent \in DOMAIN status /\ status[i].parent \in Seq(Words)
             /\ first.shape = "new" /\ ~Exempt(status[status[i].parent].format)
             /\ Tail(status[i].parent) \in Seq(Words)
             /\ i = <<status[i].format>> \o (Tail(status[i].parent) \o Own(i))
             /\ Tail(i) = Tail(status[i].parent) \o Own(i)
             /\ status[i].parent # i
  <2> DEFINE j == status[i].parent
  <2>1. /\ j \in DOMAIN status /\ first.shape = "new" /\ j # << >>
        /\ status[j].format \in ParentFormats(status[i].format)
        /\ i = <<status[i].format>> \o Tail(j) \o Own(i)
    BY <1>4 DEF LocatedStatus, Own
  <2>2. j \in Seq(Words)
    BY <2>1 DEF LocatedStatus
  <2>3. Tail(j) \in Seq(Words)
    BY <2>1, <2>2, HeadTailProperties
  <2>4. <<status[i].format>> \in Seq(Words)
    BY <1>2
  <2> HIDE DEF j
  <2>5. i = <<status[i].format>> \o (Tail(j) \o Own(i))
    BY <1>2, <2>1, <2>3, <2>4, ConcatAssociative
  <2>6. Tail(j) \o Own(i) \in Seq(Words)
    BY <1>2, <2>3, ConcatProperties
  <2>7. Tail(i) = Tail(j) \o Own(i)
    BY <1>2, <2>5, <2>6, TailOfKey
  <2>8. j # i
    BY <2>1 DEF ParentFormats
  <2> QED
    BY <2>1, <2>2, <2>3, <2>5, <2>7, <2>8 DEF Exempt, j
<1>5. Key(k) = <<status[k].format>> \o Lineage[N][k]
  BY DEF Key
<1>6. CASE p = << >>
  <2>1. Lineage[N][k] = Own(k)
    BY <1>1, <1>6, LineageStep
  <2> QED
    BY <1>3, <1>5, <1>6, <2>1
<1>7. CASE p # << >>
  <2>1. /\ p \in DOMAIN status /\ ~Exempt(status[p].format) /\ p # k
        /\ k = <<status[k].format>> \o (Tail(p) \o Own(k))
    BY <1>4, <1>7
  <2>2. N - 1 \in 0 .. N /\ N \in 0 .. N
    BY <1>1
  <2>3. Lineage[N][k] = Lineage[N - 1][p] \o Own(k)
    BY <1>1, <1>7, <2>2, LineageStep
  <2>4. Lineage[N - 1][p] = Tail(p)
    <3>1. CASE q = << >>
      <4>1. Lineage[N - 1][p] = Own(p)
        BY <1>1, <2>1, <2>2, <3>1, LineageStep
      <4> QED
        BY <1>3, <2>1, <3>1, <4>1
    <3>2. CASE q # << >>
      <4>1. /\ q \in DOMAIN status /\ ~Exempt(status[q].format)
            /\ Tail(p) = Tail(q) \o Own(p)
        BY <1>4, <2>1, <3>2
      <4>2. N - 1 # 0
        <5>1. CASE N = 1
          BY <2>1, <5>1, FS_Singleton
        <5> QED
          BY <1>1, <5>1
      <4>3. N - 2 \in 0 .. N /\ (N - 1) - 1 = N - 2
        BY <1>1, <4>2
      <4>4. Lineage[N - 1][p] = Lineage[N - 2][q] \o Own(p)
        <5> HIDE DEF N
        <5> QED
          BY <1>1, <2>1, <2>2, <3>2, <4>2, <4>3, LineageStep DEF N
      <4>5. status[q].parent = << >>
        BY <1>7, <3>2, NoOlderAncestor
      <4>6. Lineage[N - 2][q] = Own(q)
        BY <1>1, <4>1, <4>3, <4>5, LineageStep
      <4>7. Tail(q) = Own(q)
        BY <1>3, <4>1, <4>5
      <4> QED
        BY <4>1, <4>4, <4>6, <4>7
    <3> QED
      BY <3>1, <3>2
  <2> QED
    BY <1>5, <2>1, <2>3, <2>4
<1> QED
  BY <1>6, <1>7

\* Files, dictionaries and statuses of the new format have such keys.
PlaceInv ==
    /\ file.version \in NewVersions => Located(file.models)
    /\ pc \in Updating /\ version \in NewVersions => Located(dict.models)
    /\ pc \in {"update_0_2_1", "build"} => Located(dict.models)
    /\ pc = "loaded" => LocatedStatus

\* Models that are loaded are finitely many.
LEMMA StatusIsFinite ==
    ASSUME EvaluationInv, pc = "loaded"
    PROVE  IsFiniteSet(DOMAIN status)
<1> DEFINE keys == {o.key : o \in Originals}
           keyOf == [o \in Originals |-> o.key]
<1>1. DOMAIN status = keys
  BY DEF EvaluationInv, StatusInv
<1>2. IsFiniteSet(first.models)
  BY FirstIsOld, FirstIsNew DEF EvaluationInv, OldPackage, NewPackage
<1>3. IsFiniteSet(Originals)
  BY <1>2, FS_Subset DEF Originals
<1>4. keyOf \in Surjection(Originals, keys)
  BY DEF Surjection
<1> HIDE DEF keys, keyOf
<1> QED
  BY <1>1, <1>3, <1>4, FS_Surjection

LEMMA LocatedStays ==
    ASSUME UNCHANGED first
    PROVE  \A models : Located(models)' <=> Located(models)
BY DEF Located, Placed, Exempt

\* The versions of the old format are not the new ones.
LEMMA VersionsDiffer ==
    ASSUME NEW p, OldPackage(p)
    PROVE  p.version \notin NewVersions /\ ExtractVersion(p) \notin NewVersions
BY OldVersion DEF OldPackage, NewVersions

LEMMA PlaceInit == Init => PlaceInv
<1> SUFFICES ASSUME Init
             PROVE  PlaceInv
  OBVIOUS
<1>1. first \in Packages /\ file = first /\ pc = "stored"
  BY DEF Init
<1>2. CASE first.shape = "old"
  BY <1>1, <1>2, FirstIsOld, VersionsDiffer DEF PlaceInv, Updating
<1>3. CASE first.shape # "old"
  <2>1. NewPackage(first)
    BY <1>1, <1>3, FirstIsNew
  <2>2. ASSUME NEW m \in first.models
        PROVE  Placed(m, first.models)
    BY <2>1 DEF NewPackage, NewModel, Placed
  <2>3. Located(first.models)
    BY <2>1, <2>2 DEF Located, NewPackage
  <2> QED
    BY <1>1, <2>3 DEF PlaceInv, Updating
<1> QED
  BY <1>2, <1>3

LEMMA PlaceLoad == EvaluationInv /\ PlaceInv /\ Load => PlaceInv'
<1> SUFFICES ASSUME EvaluationInv, PlaceInv, Load
             PROVE  PlaceInv'
  OBVIOUS
<1>1. /\ UNCHANGED <<file, first>> /\ pc' = "update_0_1_0"
      /\ dict' = file /\ version' = ExtractVersion(file)
  BY DEF Load
<1>2. version' \in NewVersions => file.version \in NewVersions
  <2>1. CASE file = first /\ first.shape = "old"
    BY <1>1, <2>1, FirstIsOld, VersionsDiffer DEF EvaluationInv
  <2>2. CASE file.version \in NewVersions
    BY <2>2
  <2> QED
    BY <2>1, <2>2 DEF EvaluationInv, FileInv
<1>3. (file.version \in NewVersions => Located(file.models))'
  BY <1>1, LocatedStays DEF PlaceInv
<1>4. (version \in NewVersions => Located(dict.models))'
  BY <1>1, <1>2, LocatedStays DEF PlaceInv
<1> QED
  BY <1>1, <1>3, <1>4 DEF PlaceInv

\* An update that keeps the models of the new format.
LEMMA PlaceUpdate ==
    ASSUME PlaceInv, UNCHANGED <<file, first, version>>, pc' # "loaded",
           pc' \in Updating /\ version \in NewVersions => Located(dict'.models),
           pc' \in {"update_0_2_1", "build"} => Located(dict'.models)
    PROVE  PlaceInv'
<1>1. Located(dict'.models) <=> Located(dict.models)'
  BY DEF Located, Placed, Exempt
<1>2. (file.version \in NewVersions => Located(file.models))'
  BY LocatedStays DEF PlaceInv
<1> QED
  BY <1>1, <1>2 DEF PlaceInv

LEMMA PlaceNotDue ==
    ASSUME EvaluationInv, PlaceInv, UpdateFrom010 \/ UpdateFrom012 \/ UpdateFrom013
    PROVE  PlaceInv'
<1>1. /\ pc \in Updating /\ UNCHANGED <<file, first, version>>
      /\ pc' \in Updating \cup {"failed"}
      /\ version \in NewVersions => dict' = dict
  BY DEF UpdateFrom010, UpdateFrom012, UpdateFrom013, Updated, Fails, Due, Updating, NewVersions
<1>2. version \in NewVersions => Located(dict'.models)
  BY <1>1 DEF PlaceInv
<1> QED
  BY <1>1, <1>2, PlaceUpdate DEF Updating

\* What _update_from_v0_1_4 makes of a model has the old model's options.
LEMMA PlacedFromOld ==
    ASSUME first \in Packages, first.shape = "old", NEW m, m.path, NEW models,
           NEW o \in first.models, SameModel(o, m)
    PROVE  Placed(ModelStatusOf(m), models)
<1>1. OldModel(o)
  BY FirstIsOld DEF OldPackage
<1>2. /\ ModelStatusOf(m).key = o.key /\ ModelStatusOf(m).format = o.format
      /\ ModelStatusOf(m).parent_key = << >> /\ ModelStatusOf(m).jit_type = o.jit_type
      /\ ModelStatusOf(m).compile = o.compile /\ ModelStatusOf(m).precision = m.precision
      /\ o.path /\ m.precision \in Precisions
  BY <1>1 DEF ModelStatusOf, SameModel, OldModel, Precisions
<1>3. CASE o.format = "torch-trt"
  BY <1>1, <1>2, <1>3 DEF Placed, OldModel, Exempt
<1>4. CASE o.format # "torch-trt"
  <2>1. m.precision = o.precision
    BY <1>4 DEF SameModel
  <2>2. OwnKey(ModelStatusOf(m)) = OwnKey(o)
    BY <1>2, <2>1 DEF OwnKey, ReadOptions
  <2>3. o.key = OwnKey(o)
    BY <1>1, <1>2, <1>4 DEF OldModel
  <2> QED
    BY <1>1, <1>2, <2>2, <2>3 DEF Placed, OldModel
<1> QED
  BY <1>3, <1>4

LEMMA Place014 == EvaluationInv /\ PlaceInv /\ UpdateFrom014 => PlaceInv'
<1> SUFFICES ASSUME EvaluationInv, PlaceInv, UpdateFrom014
             PROVE  PlaceInv'
  OBVIOUS
<1>1. /\ pc = "update_0_1_4" /\ pc \in Updating /\ pc' = "update_0_2_1"
      /\ UNCHANGED <<file, first, version>>
  BY DEF UpdateFrom014, Updated, Updating
<1>2. Located(dict'.models)
  <2>1. CASE OldDict
    <3> DEFINE models == {ModelStatusOf(m) : m \in {m \in dict.models : m.path}}
    <3>1. Due(14) /\ first \in Packages /\ first.shape = "old" /\ Carried(dict.models)
      BY <1>1, <2>1, BeforeUpdate DEF Due, EvaluationInv, OldDict
    <3>2. dict'.models = models
      BY <3>1 DEF UpdateFrom014, Updated
    <3>3. ASSUME NEW x \in models
          PROVE  Placed(x, models)
      <4>1. PICK m \in dict.models : m.path /\ x = ModelStatusOf(m)
        OBVIOUS
      <4>2. PICK o \in first.models : SameModel(o, m)
        BY <3>1 DEF Carried
      <4> HIDE DEF models
      <4> QED
        BY <3>1, <4>1, <4>2, PlacedFromOld
    <3> QED
      BY <3>1, <3>2, <3>3 DEF Located
  <2>2. CASE ~OldDict
    <3>1. version \in NewVersions /\ version > 14
      BY <1>1, <2>2, BeforeUpdate
    <3>2. dict' = dict
      BY <3>1 DEF UpdateFrom014, Updated, Due, NewVersions
    <3> QED
      BY <1>1, <3>1, <3>2 DEF PlaceInv
  <2> QED
    BY <2>1, <2>2
<1> QED
  BY <1>1, <1>2, PlaceUpdate DEF Updating

LEMMA Place021 == EvaluationInv /\ PlaceInv /\ UpdateFrom021 => PlaceInv'
<1> SUFFICES ASSUME EvaluationInv, PlaceInv, UpdateFrom021
             PROVE  PlaceInv'
  OBVIOUS
<1>1. pc = "update_0_2_1" /\ pc' = "build" /\ UNCHANGED <<file, first, version>>
  BY DEF UpdateFrom021, Updated
<1>2. dict'.models = dict.models
  BY <1>1 DEF UpdateFrom021, Updated, EvaluationInv, DictInv, Evaluated
<1>3. Located(dict'.models)
  BY <1>1, <1>2 DEF PlaceInv
<1> QED
  BY <1>1, <1>3, PlaceUpdate DEF Updating

LEMMA PlaceBuild == EvaluationInv /\ PlaceInv /\ Build => PlaceInv'
<1> SUFFICES ASSUME EvaluationInv, PlaceInv, Build
             PROVE  PlaceInv'
  OBVIOUS
<1> DEFINE of(k) == CHOOSE m \in dict.models : m.key = k
           keys == {m.key : m \in dict.models}
<1>1. /\ pc = "build" /\ pc' = "loaded" /\ UNCHANGED <<file, first>>
      /\ Located(dict.models)
  BY DEF Build, PlaceInv
<1>2. status' = [k \in keys |->
                    [format |-> of(k).format, options |-> ReadOptions(of(k)),
                     parent |-> ParentKey(of(k)),
                     runners |-> [n \in DOMAIN of(k).runners |-> OkResults(of(k).runners[n])]]]
  BY DEF Build
<1>3. DOMAIN status' = keys
  BY <1>2
<1>4. ASSUME NEW k \in keys
      PROVE  /\ of(k) \in dict.models /\ of(k).key = k /\ Placed(of(k), dict.models)
             /\ status'[k].format = of(k).format /\ status'[k].options = ReadOptions(of(k))
             /\ status'[k].parent = ParentKey(of(k))
  <2>1. of(k) \in dict.models /\ of(k).key = k
    OBVIOUS
  <2> HIDE DEF of, keys
  <2>2. Placed(of(k), dict.models)
    BY <1>1, <2>1 DEF Located
  <2> QED
    BY <1>2, <2>1, <2>2
<1> HIDE DEF of
<1>5. ASSUME NEW k \in keys
      PROVE  /\ k \in Seq(Words) /\ status'[k].format \in Formats
             /\ status'[k].options.jit_type \in JitTypes
             /\ status'[k].options.precision \in Precisions
  <2>1. /\ k \in Seq(Words) /\ of(k).format \in Formats
        /\ of(k).jit_type \in JitTypes /\ of(k).precision \in Precisions
    BY <1>4 DEF Placed
  <2>2. /\ ReadOptions(of(k)).jit_type \in {of(k).jit_type, "none"}
        /\ ReadOptions(of(k)).precision \in {of(k).precision, "none"}
    BY DEF ReadOptions
  <2>3. "none" \in JitTypes /\ "none" \in Precisions
    BY DEF JitTypes, Precisions
  <2> QED
    BY <1>4, <2>1, <2>2, <2>3
<1>6. ASSUME NEW k \in keys
      PROVE  ReadOptions(OptionsOf(k)') = status'[k].options
  <2> DEFINE x == OptionsOf(k)'
  <2>1. /\ x.format = status'[k].format /\ x.jit_type = status'[k].options.jit_type
        /\ x.precision = status'[k].options.precision /\ x.compile = status'[k].options.compile
    BY DEF OptionsOf
  <2> HIDE DEF x
  <2>2. ReadOptions(x) = ReadOptions(of(k))
    BY <1>4, <2>1, ReadTwice
  <2> QED
    BY <1>4, <2>2 DEF x
<1>7. ASSUME NEW k \in keys, of(k).parent_key = << >>
      PROVE  /\ status'[k].parent = << >>
             /\ \/ k = <<status'[k].format>> \o PathParams(status'[k].options)
                \/ Exempt(status'[k].format)
  BY <1>4, <1>7 DEF ParentKey, Placed, OwnKey
<1>8. ASSUME NEW k \in keys, of(k).parent_key # << >>
      PROVE  /\ status'[k].parent # << >>
             /\ first.shape = "new" /\ status'[k].parent \in keys
             /\ status'[status'[k].parent].format \in ParentFormats(status'[k].format)
             /\ k = <<status'[k].format>> \o Tail(status'[k].parent)
                        \o PathParams(status'[k].options)
  <2>1. /\ first.shape = "new"
        /\ \E p \in dict.models :
             /\ p.key = of(k).parent_key /\ p.format \in ParentFormats(of(k).format)
             /\ of(k).key = <<of(k).format>> \o Tail(p.key) \o PathParams(ReadOptions(of(k)))
    BY <1>4, <1>8 DEF Placed
  <2>2. PICK p \in dict.models :
             /\ p.key = of(k).parent_key /\ p.format \in ParentFormats(of(k).format)
             /\ of(k).key = <<of(k).format>> \o Tail(p.key) \o PathParams(ReadOptions(of(k)))
    BY <2>1
  <2>3. status'[k].parent = p.key /\ p.key \in keys
    BY <1>4, <2>2 DEF ParentKey
  <2>4. of(p.key) = p
    BY <1>1, <1>4, <2>1, <2>2, <2>3 DEF Located
  <2>5. status'[p.key].format = p.format
    BY <1>4, <2>3, <2>4
  <2> QED
    BY <1>4, <1>8, <2>1, <2>2, <2>3, <2>5
<1>9. LocatedStatus'
  <2> HIDE DEF keys
  <2>1. \A format : Exempt(format)' <=> Exempt(format)
    BY <1>1 DEF Exempt
  <2> SUFFICES ASSUME NEW k \in keys
               PROVE  /\ (IF status[k].parent = << >>
                           THEN \/ k = <<status[k].format>> \o PathParams(status[k].options)
                                \/ Exempt(status[k].format)
                           ELSE /\ first.shape = "new" /\ status[k].parent \in DOMAIN status
                                /\ status[status[k].parent].format
                                      \in ParentFormats(status[k].format)
                                /\ k = <<status[k].format>> \o Tail(status[k].parent)
                                           \o PathParams(status[k].options))'
    BY <1>3, <1>5, <1>6 DEF LocatedStatus
  <2>2. CASE of(k).parent_key = << >>
    BY <1>7, <2>1, <2>2
  <2>3. CASE of(k).parent_key # << >>
    BY <1>1, <1>3, <1>8, <2>3
  <2> QED
    BY <2>2, <2>3
<1>10. (file.version \in NewVersions => Located(file.models))'
  BY <1>1, LocatedStays DEF PlaceInv
<1> QED
  BY <1>1, <1>9, <1>10 DEF PlaceInv, Updating

LEMMA PlaceSave == EvaluationInv /\ PlaceInv /\ Save => PlaceInv'
<1> SUFFICES ASSUME EvaluationInv, PlaceInv, Save
             PROVE  PlaceInv'
  OBVIOUS
<1>1. /\ pc = "loaded" /\ pc' = "stored" /\ UNCHANGED first
      /\ LocatedStatus /\ IsFiniteSet(DOMAIN status)
  BY StatusIsFinite DEF Save, PlaceInv
<1>2. ASSUME NEW k \in DOMAIN status
      PROVE  Placed(SavedModel(k), file'.models)
  <2> DEFINE m == SavedModel(k)
             parent == status[k].parent
  <2>1. /\ m.key = k /\ m.format = status[k].format
        /\ m.jit_type = status[k].options.jit_type /\ m.precision = status[k].options.precision
        /\ m.parent_key = IF parent = << >> THEN << >> ELSE Key(parent)
    BY DEF SavedModel
  <2>2. /\ m.key \in Seq(Words) /\ m.format \in Formats
        /\ m.jit_type \in JitTypes /\ m.precision \in Precisions
        /\ ReadOptions(m) = status[k].options
    <3>1. ReadOptions(SavedModel(k)) = ReadOptions(OptionsOf(k))
      BY DEF ReadOptions, SavedModel, OptionsOf
    <3> QED
      BY <1>1, <2>1, <3>1 DEF LocatedStatus
  <2>3. CASE parent = << >>
    <3>1. m.parent_key = << >>
      BY <2>1, <2>3
    <3>2. m.key = OwnKey(m) \/ Exempt(m.format)
      BY <1>1, <2>1, <2>2, <2>3 DEF LocatedStatus, OwnKey
    <3> QED
      BY <2>2, <3>1, <3>2 DEF Placed
  <2>4. CASE parent # << >>
    <3>1. /\ first.shape = "new" /\ parent \in DOMAIN status
          /\ status[parent].format \in ParentFormats(status[k].format)
          /\ k = <<status[k].format>> \o Tail(parent) \o PathParams(status[k].options)
      BY <1>1, <2>4 DEF LocatedStatus
    <3>2. Key(parent) = parent
      BY <1>1, <3>1, KeysComeBack DEF Exempt
    <3>3. m.parent_key = parent
      BY <2>1, <2>4, <3>2
    <3>4. SavedModel(parent) \in file'.models
      BY <3>1, SavedModels
    <3>5. SavedModel(parent).key = parent /\ SavedModel(parent).format = status[parent].format
      BY DEF SavedModel
    <3> HIDE DEF m, parent
    <3>6. \E p \in file'.models :
             /\ p.key = m.parent_key /\ p.format \in ParentFormats(m.format)
             /\ m.key = <<m.format>> \o Tail(p.key) \o PathParams(ReadOptions(m))
      BY <2>1, <2>2, <3>1, <3>3, <3>4, <3>5
    <3> QED
      BY <2>2, <2>4, <3>1, <3>3, <3>6 DEF Placed, m
  <2> QED
    BY <2>3, <2>4
<1>3. Located(file'.models)
  <2>1. \A m \in file'.models : Placed(m, file'.models)
    BY <1>2, SavedModels
  <2>2. \A m, n \in file'.models : m.key = n.key => m = n
    BY SavedModels
  <2> QED
    BY <2>1, <2>2 DEF Located
<1>4. Located(file.models)'
  BY <1>1, <1>3 DEF Located, Placed, Exempt
<1> QED
  BY <1>1, <1>4 DEF PlaceInv, Updating

\* The keys of files, dictionaries and statuses agree with the options and the
\* parents they are made of: the invariant holds in every behaviour.
THEOREM PlaceInvariance == Spec => []PlaceInv
<1>1. EvaluationInv /\ PlaceInv /\ [Next]_vars => PlaceInv'
  <2>1. PlaceInv /\ UNCHANGED vars => PlaceInv'
    BY DEF vars, PlaceInv, Located, Placed, Exempt, LocatedStatus, OptionsOf
  <2> QED
    BY <2>1, PlaceLoad, PlaceNotDue, Place014, Place021, PlaceBuild, PlaceSave DEF Next
<1> QED
  BY EvaluationInvariance, PlaceInit, <1>1, PTL DEF Spec

\* A model that is loaded is looked for where its files lie, load after load,
\* whichever options and ancestors it has (ModelConfig.path, Status.from_dict).
THEOREM ModelsFoundAgain == Spec => []ModelsAreFoundAgain
<1>1. EvaluationInv /\ PlaceInv => ModelsAreFoundAgain
  <2> SUFFICES ASSUME EvaluationInv, PlaceInv, pc = "loaded", NEW k \in DOMAIN status
               PROVE  Key(k) = k \/ (first.shape = "old" /\ status[k].format = "torch-trt")
    BY DEF ModelsAreFoundAgain
  <2> QED
    BY StatusIsFinite, KeysComeBack DEF PlaceInv, Exempt
<1> QED
  BY <1>1, EvaluationInvariance, PlaceInvariance, PTL
=============================================================================
