----------------------- MODULE TritonRepositoryProofs -----------------------
(***************************************************************************)
(* What a repository holds after any number of deployments, of any         *)
(* configurations and versions, each of which may end at every step.       *)
(*                                                                         *)
(* Neither property is inductive.  That config.pbtxt never names a model   *)
(* that is gone rests on the only step that takes one away: the second     *)
(* attempt of copytree removes a directory that this deployment made, and  *)
(* it made it because there was none, so that no configuration named it    *)
(* (NotNamed).  That a deployment which returns is complete rests on what  *)
(* lies in the place it writes at each of its steps (InProgress): a file   *)
(* or a directory that it opened empty has nothing but its own pieces, and *)
(* a directory that a file is put into may have others.  What is deployed  *)
(* from a package is carried unchanged from the package to the file, and   *)
(* what is written is a configuration that was accepted (OriginInv).       *)
(***************************************************************************)
EXTENDS TritonRepository, TLAPS

Stages == {"mkdir", "copy", "copytree", "pieces", "config", "write"}

Kinds       == {"absent", "file", "directory"}
PieceType   == Nat \X (Blocks \cup Entries)
ContentType == [kind : Kinds, pieces : SUBSET PieceType]

TypeInv ==
    /\ dirs \subseteq Versions
    /\ files \in [Versions -> [Backends -> ContentType]]
    /\ pc \in Stages \cup {"idle"}
    /\ calls \in Nat
    /\ outcome = "returned" => pc = "idle"
    /\ pbtxt.state = "written" =>
          pbtxt.version \in Versions /\ pbtxt.config.backend \in Backends

\* What the running deployment copies.
Copying == AtPath(calls, request.source)

\* The running deployment and what it has achieved.
InProgress ==
    /\ pc \in Stages =>
          request.call = calls /\ request.version \in Versions /\ Backend \in Backends
    /\ pc \in Stages \ {"mkdir"} => request.version \in dirs
    /\ pc = "copytree" => request.source = "directory"
    /\ pc = "copy" => request.source # "directory"
    /\ pc \in {"pieces", "config", "write"} =>
          /\ Here.kind # "absent"
          /\ request.source = "directory" => Here.kind = "directory"
          /\ Here.kind = KindOf(request.source) => Here.pieces \subseteq Copying
    /\ pc \in {"config", "write"} => Copying \subseteq Here.pieces

\* The configuration in the repository is not about the directory that is
\* being copied to.
NotNamed ==
    pc = "pieces" /\ request.source = "directory" /\ pbtxt.state = "written" =>
        pbtxt.version # request.version \/ pbtxt.config.backend # Backend

RepositoryInv == TypeInv /\ InProgress /\ NotNamed /\ ConfigNamesAModel /\ SuccessMeansComplete

LEMMA InitRepository == Init => RepositoryInv
BY RepositoryAssumption
DEF Init, RepositoryInv, TypeInv, InProgress, NotNamed, ConfigNamesAModel, SuccessMeansComplete,
    ContentType, Kinds, Absent, NoConfig, Stages

\* A deployment that begins finds the repository as it is.
LEMMA BeginStep ==
    ASSUME RepositoryInv, NEW config, NEW source, NEW version \in Versions, NEW runtime,
           config.backend \in Backends, Begin(config, source, version, runtime)
    PROVE  RepositoryInv'
<1>1. CASE Valid(config)
  BY <1>1 DEF Begin, store, RepositoryInv, TypeInv, InProgress, NotNamed, ConfigNamesAModel,
    SuccessMeansComplete, Stages, Backend, Place
<1>2. CASE ~Valid(config)
  BY <1>2 DEF Begin, store, RepositoryInv, TypeInv, InProgress, NotNamed, ConfigNamesAModel,
    SuccessMeansComplete, Stages, Backend, Place
<1> QED
  BY <1>1, <1>2

LEMMA BackendOfRuntime == \A runtime \in TritonRunners : BackendOf(runtime.format) \in Backends
BY DEF TritonRunners, BackendOf, Backends

LEMMA AddStep == RepositoryInv /\ (AddModel \/ AddModelFromPackage) => RepositoryInv'
<1> SUFFICES ASSUME RepositoryInv, AddModel \/ AddModelFromPackage
             PROVE  RepositoryInv'
  OBVIOUS
<1>1. CASE AddModel
  BY <1>1, BeginStep, RepositoryAssumption DEF AddModel
<1>2. CASE AddModelFromPackage
  <2>1. PICK package \in Packages, version \in Versions, response_cache \in {0, 1} :
           \E source : Begin(ConfigFromPackage(package, package.best, response_cache), source, version,
                             [from |-> "package", chosen |-> package.best,
                              sizes |-> package.measured[package.best],
                              batching |-> package.batch_dim = "first"])
    BY <1>2 DEF AddModelFromPackage
  <2>2. package.best \in TritonRunners
    BY RepositoryAssumption DEF Packages
  <2>3. ConfigFromPackage(package, package.best, response_cache).backend \in Backends
    BY <2>2, BackendOfRuntime DEF ConfigFromPackage
  <2> QED
    BY <2>1, <2>3, BeginStep
<1> QED
  BY <1>1, <1>2

\* Steps after which the running deployment is over without a change to the
\* repository.
LEMMA RaisingStep ==
    RepositoryInv /\ (CopyTreeRefused \/ GeneratorFails \/ Interrupted) => RepositoryInv'
BY DEF CopyTreeRefused, GeneratorFails, Interrupted, End, store, RepositoryInv, TypeInv,
   InProgress, NotNamed, ConfigNamesAModel, SuccessMeansComplete, Stages, Backend, Place

LEMMA MakeDirectoryStep == RepositoryInv /\ MakeDirectory => RepositoryInv'
BY DEF MakeDirectory, Go, RepositoryInv, TypeInv, InProgress, NotNamed, ConfigNamesAModel,
   SuccessMeansComplete, Stages, Backend, Here, Copying, Place

\* What a step that puts something in the place of the deployment leaves
\* alone: every other place, the configuration and the deployment itself.
LEMMA PutStep ==
    ASSUME RepositoryInv, pc \in Stages, NEW content \in ContentType, Put(content)
    PROVE  /\ files' \in [Versions -> [Backends -> ContentType]]
           /\ files'[request.version][Backend] = content
           /\ \A v \in Versions, b \in Backends :
                 v # request.version \/ b # Backend => files'[v][b] = files[v][b]
BY DEF Put, RepositoryInv, TypeInv, InProgress

\* A step that leaves in the place of the deployment something it may copy
\* to: what is there, if it is of the kind deployed, belongs to the deployment.
LEMMA CopyingStep ==
    ASSUME RepositoryInv, pc \in Stages \ {"mkdir"}, pc' = "pieces",
           UNCHANGED <<dirs, pbtxt, request, outcome, calls>>,
           NEW content \in ContentType, Put(content),
           content.kind # "absent",
           request.source = "directory" => content.kind = "directory",
           content.kind = KindOf(request.source) => content.pieces \subseteq Copying,
           NotNamed'
    PROVE  RepositoryInv'
<1>1. /\ files' \in [Versions -> [Backends -> ContentType]]
      /\ files'[request.version][Backend] = content
      /\ \A v \in Versions, b \in Backends :
            v # request.version \/ b # Backend => files'[v][b] = files[v][b]
  BY PutStep
<1>2. /\ request.call = calls /\ request.version \in Versions \cap dirs /\ Backend \in Backends
      /\ Backend' = Backend /\ Copying' = Copying
  BY DEF RepositoryInv, InProgress, Backend, Copying
<1>3. Here' = content
  BY <1>1, <1>2 DEF Here
<1>4. TypeInv'
  BY <1>1 DEF RepositoryInv, TypeInv, Stages
<1>5. InProgress'
  BY <1>2, <1>3 DEF InProgress
<1>6. ConfigNamesAModel'
  BY <1>1 DEF RepositoryInv, TypeInv, ConfigNamesAModel, Place
<1>7. SuccessMeansComplete'
  BY DEF RepositoryInv, TypeInv, SuccessMeansComplete, Stages
<1> QED
  BY <1>4, <1>5, <1>6, <1>7 DEF RepositoryInv

\* An empty file or directory, before anything is copied.
LEMMA OpenFileStep == RepositoryInv /\ (OpenFile \/ CopyTree) => RepositoryInv'
<1> SUFFICES ASSUME RepositoryInv, OpenFile \/ CopyTree
             PROVE  RepositoryInv'
  OBVIOUS
<1>1. UNCHANGED <<dirs, pbtxt, request, outcome, calls>> /\ pc' = "pieces"
  BY DEF OpenFile, CopyTree, Go
<1>2. CASE OpenFile
  <2>1. pc = "copy" /\ Put(Empty("file")) /\ request.source # "directory"
    BY <1>2 DEF OpenFile, RepositoryInv, InProgress
  <2>2. Empty("file") \in ContentType /\ Empty("file").kind = "file" /\ Empty("file").pieces = {}
    BY DEF Empty, ContentType, Kinds
  <2>3. NotNamed'
    BY <1>1, <2>1 DEF NotNamed
  <2> QED
    BY <1>1, <2>1, <2>2, <2>3, CopyingStep DEF Stages
<1>3. CASE CopyTree
  <2>1. pc = "copytree" /\ Put(Empty("directory")) /\ Here.kind = "absent"
    BY <1>3 DEF CopyTree
  <2>2. /\ Empty("directory") \in ContentType
        /\ Empty("directory").kind = "directory" /\ Empty("directory").pieces = {}
    BY DEF Empty, ContentType, Kinds
  <2>3. NotNamed'
    BY <1>1, <2>1 DEF RepositoryInv, NotNamed, ConfigNamesAModel, Place, Here, Backend
  <2> QED
    BY <1>1, <2>1, <2>2, <2>3, CopyingStep DEF Stages
<1> QED
  BY <1>2, <1>3

\* A file that goes into a directory: the former pieces may stay.
LEMMA OpenFileInDirectoryStep == RepositoryInv /\ OpenFileInDirectory => RepositoryInv'
<1> SUFFICES ASSUME RepositoryInv, OpenFileInDirectory
             PROVE  RepositoryInv'
  OBVIOUS
<1>1. PICK replaced : Put([Here EXCEPT !.pieces = @ \ replaced])
  BY DEF OpenFileInDirectory
<1> DEFINE rest == [Here EXCEPT !.pieces = @ \ replaced]
<1>2. /\ pc = "copy" /\ pc' = "pieces" /\ Here.kind = "directory"
      /\ UNCHANGED <<dirs, pbtxt, request, outcome, calls>>
  BY DEF OpenFileInDirectory, Go
<1>3. request.source # "directory" /\ Here \in ContentType
  BY <1>2 DEF RepositoryInv, TypeInv, InProgress, Stages, Here
<1>4. rest \in ContentType /\ rest.kind = "directory"
  BY <1>2, <1>3 DEF ContentType
<1>5. KindOf(request.source) = "file"
  BY <1>3 DEF KindOf
<1>6. NotNamed'
  BY <1>2, <1>3 DEF NotNamed
<1> HIDE DEF rest
<1>7. Put(rest)
  BY <1>1 DEF rest
<1> QED
  BY <1>2, <1>3, <1>4, <1>5, <1>6, <1>7, CopyingStep DEF Stages

\* A piece more of the model of this deployment.
LEMMA CopyPieceStep == RepositoryInv /\ CopyPiece => RepositoryInv'
<1> SUFFICES ASSUME RepositoryInv, CopyPiece
             PROVE  RepositoryInv'
  OBVIOUS
<1>1. PICK piece \in AtPath(request.call, request.source) \ Here.pieces :
         Put([Here EXCEPT !.pieces = @ \cup {piece}])
  BY DEF CopyPiece
<1> DEFINE more == [Here EXCEPT !.pieces = @ \cup {piece}]
<1>2. pc = "pieces" /\ pc' = "pieces" /\ UNCHANGED <<dirs, pbtxt, request, outcome, calls>>
  BY DEF CopyPiece, Go
<1>3. /\ request.call = calls /\ calls \in Nat /\ Here \in ContentType
      /\ Here.kind # "absent"
      /\ request.source = "directory" => Here.kind = "directory"
      /\ Here.kind = KindOf(request.source) => Here.pieces \subseteq Copying
  BY <1>2 DEF RepositoryInv, TypeInv, InProgress, Stages, Here
<1>4. piece \in Copying /\ piece \in PieceType
  BY <1>1, <1>3 DEF Copying, AtPath, PieceType
<1>5. more \in ContentType /\ more.kind = Here.kind /\ more.pieces = Here.pieces \cup {piece}
  BY <1>3, <1>4 DEF ContentType
<1>6. NotNamed'
  BY <1>2 DEF RepositoryInv, NotNamed, Backend
<1> HIDE DEF more
<1>7. Put(more)
  BY <1>1 DEF more
<1> QED
  BY <1>2, <1>3, <1>4, <1>5, <1>6, <1>7, CopyingStep DEF Stages

\* The directory that is removed is this deployment's own.
LEMMA CopyTreeFailsStep == RepositoryInv /\ CopyTreeFails => RepositoryInv'
<1> SUFFICES ASSUME RepositoryInv, CopyTreeFails
             PROVE  RepositoryInv'
  OBVIOUS
<1>1. /\ pc = "pieces" /\ pc' = "copytree" /\ request.source = "directory" /\ Put(Absent)
      /\ request' = [request EXCEPT !.retried = TRUE]
      /\ UNCHANGED <<dirs, pbtxt, outcome, calls>>
  BY DEF CopyTreeFails
<1>2. /\ request'.call = request.call /\ request'.version = request.version
      /\ request'.config = request.config /\ request'.source = request.source
  BY <1>1
<1>3. Absent \in ContentType
  BY DEF Absent, ContentType, Kinds
<1>4. /\ files' \in [Versions -> [Backends -> ContentType]]
      /\ \A v \in Versions, b \in Backends :
            v # request.version \/ b # Backend => files'[v][b] = files[v][b]
  BY <1>1, <1>3, PutStep DEF Stages
<1>5. TypeInv'
  BY <1>1, <1>4 DEF RepositoryInv, TypeInv, Stages
<1>6. InProgress'
  BY <1>1, <1>2 DEF RepositoryInv, InProgress, Stages, Backend
<1>7. NotNamed'
  BY <1>1 DEF NotNamed
<1>8. ConfigNamesAModel'
  BY <1>1, <1>4 DEF RepositoryInv, TypeInv, NotNamed, ConfigNamesAModel, Place
<1>9. SuccessMeansComplete'
  BY <1>1 DEF RepositoryInv, TypeInv, SuccessMeansComplete
<1> QED
  BY <1>5, <1>6, <1>7, <1>8, <1>9 DEF RepositoryInv

LEMMA ConfigStep == RepositoryInv /\ (Copied \/ OpenConfig) => RepositoryInv'
<1>1. RepositoryInv /\ Copied => RepositoryInv'
  BY DEF Copied, Go, store, RepositoryInv, TypeInv, InProgress, NotNamed, ConfigNamesAModel,
    SuccessMeansComplete, Stages, Backend, Here, Copying, Place
<1>2. RepositoryInv /\ OpenConfig => RepositoryInv'
  BY DEF OpenConfig, Go, RepositoryInv, TypeInv, InProgress, NotNamed, ConfigNamesAModel,
    SuccessMeansComplete, Stages, Backend, Here, Copying
<1> QED
  BY <1>1, <1>2

\* config.pbtxt is written when the whole model is there.
LEMMA WriteConfigStep == RepositoryInv /\ WriteConfig => RepositoryInv'
<1> SUFFICES ASSUME RepositoryInv, WriteConfig
             PROVE  RepositoryInv'
  OBVIOUS
<1>1. /\ pc = "write" /\ pc' = "idle" /\ outcome' = "returned"
      /\ UNCHANGED <<dirs, files, calls>>
  BY DEF WriteConfig, End
<1>2. /\ pbtxt'.state = "written" /\ pbtxt'.call = request.call
      /\ pbtxt'.version = request.version /\ pbtxt'.config = request.config
      /\ pbtxt'.source = request.source
  BY DEF WriteConfig
<1>3. /\ request.call = calls /\ request.version \in Versions /\ Backend \in Backends
      /\ request.version \in dirs /\ Here.kind # "absent"
      /\ Here.kind = KindOf(request.source) => Here.pieces \subseteq Copying
      /\ Copying \subseteq Here.pieces
  BY <1>1 DEF RepositoryInv, InProgress, Stages
<1>4. Place' = Here
  BY <1>1, <1>2 DEF Place, Here, Backend
<1>5. TypeInv'
  BY <1>1, <1>2, <1>3 DEF RepositoryInv, TypeInv, Backend
<1>6. InProgress' /\ NotNamed'
  BY <1>1 DEF InProgress, NotNamed, Stages
<1>7. ConfigNamesAModel'
  BY <1>1, <1>2, <1>3, <1>4 DEF ConfigNamesAModel
<1>8. SuccessMeansComplete'
  BY <1>1, <1>2, <1>3, <1>4 DEF SuccessMeansComplete, Copying
<1> QED
  BY <1>5, <1>6, <1>7, <1>8 DEF RepositoryInv

LEMMA RepositoryStutter == RepositoryInv /\ UNCHANGED vars => RepositoryInv'
BY DEF vars, store, RepositoryInv, TypeInv, InProgress, NotNamed, ConfigNamesAModel,
   SuccessMeansComplete, Backend, Here, Copying, Place

\* The inductive invariant: what each step of a deployment finds, whichever
\* deployments ended before it and where.
THEOREM RepositoryInvariance == Spec => []RepositoryInv
<1>1. RepositoryInv /\ [Next]_vars => RepositoryInv'
  BY AddStep, RaisingStep, MakeDirectoryStep, OpenFileStep, OpenFileInDirectoryStep,
     CopyPieceStep, CopyTreeFailsStep, ConfigStep, WriteConfigStep, RepositoryStutter
  DEF Next
<1> QED
  BY InitRepository, <1>1, PTL DEF Spec

\* config.pbtxt never names a version or a model that is not in the
\* repository (deploy_model writes it last).
THEOREM NamesAModel == Spec => []ConfigNamesAModel
<1>1. RepositoryInv => ConfigNamesAModel
  BY DEF RepositoryInv
<1> QED
  BY RepositoryInvariance, <1>1, PTL

\* A deployment that returns has left all that was at model_path and its
\* configuration, and nothing else unless it put a file into a directory that
\* was there (_copy_model, deploy_model).
THEOREM CompleteOnReturn == Spec => []SuccessMeansComplete
<1>1. RepositoryInv => SuccessMeansComplete
  BY DEF RepositoryInv
<1> QED
  BY RepositoryInvariance, <1>1, PTL

----------------------------------------------------------------------------
(* Deployments from a package *)

\* The configuration was accepted, and made from the package it is said to
\* be from.
Made(config, runtime) ==
    /\ Valid(config) /\ TypedSettings(config)
    /\ runtime.from = "package" =>
          \E package \in Packages, response_cache \in {0, 1} :
             /\ config = ConfigFromPackage(package, package.best, response_cache)
             /\ runtime.chosen = package.best
             /\ runtime.sizes = package.measured[package.best]
             /\ runtime.batching <=> package.batch_dim = "first"

OriginInv ==
    /\ pc # "idle" => Made(request.config, request.runtime)
    /\ pbtxt.state = "written" => Made(pbtxt.config, pbtxt.runtime)

\* A measured runtime has a largest batch size.
LEMMA LargestIsMeasured ==
    ASSUME NEW package \in Packages
    PROVE  MaxOf(package.measured[package.best]) \in Nat
<1> DEFINE sizes == package.measured[package.best]
<1>1. /\ package.measured \in Measurements /\ package.best \in Runtimes
      /\ sizes # {}
  BY DEF Packages
<1>2. /\ sizes \subseteq Nat
      /\ \E s \in sizes : \A t \in sizes : t <= s
  BY <1>1, RepositoryAssumption
<1> HIDE DEF sizes
<1>3. MaxOf(sizes) \in sizes
  BY <1>2 DEF MaxOf
<1> QED
  BY <1>2, <1>3 DEF sizes

LEMMA InitOrigin == Init => OriginInv
BY DEF Init, OriginInv, NoConfig

LEMMA OriginStep == OriginInv /\ [Next]_vars => OriginInv'
<1> SUFFICES ASSUME OriginInv, [Next]_vars
             PROVE  OriginInv'
  OBVIOUS
<1>1. CASE AddModel
  <2>1. PICK upload \in Uploads, version \in Versions :
           Begin(upload.config, upload.source, version, ByUser)
    BY <1>1 DEF AddModel
  <2>2. ByUser.from # "package"
    BY DEF ByUser
  <2>3. Valid(upload.config) => Made(upload.config, ByUser)
    BY <2>2, RepositoryAssumption DEF Made
  <2> QED
    BY <2>1, <2>3 DEF Begin, store, OriginInv
<1>2. CASE AddModelFromPackage
  <2>1. PICK package \in Packages, version \in Versions, response_cache \in {0, 1} :
           \E source : Begin(ConfigFromPackage(package, package.best, response_cache), source, version,
                             [from |-> "package", chosen |-> package.best,
                              sizes |-> package.measured[package.best],
                              batching |-> package.batch_dim = "first"])
    BY <1>2 DEF AddModelFromPackage
  <2> DEFINE config  == ConfigFromPackage(package, package.best, response_cache)
             runtime == [from |-> "package", chosen |-> package.best,
                         sizes |-> package.measured[package.best],
                         batching |-> package.batch_dim = "first"]
  <2>2. TypedSettings(config)
    BY LargestIsMeasured DEF ConfigFromPackage, TypedSettings, PlainBatcher
  <2>3. Valid(config) => Made(config, runtime)
    BY <2>2 DEF Made
  <2> HIDE DEF config, runtime
  <2> QED
    BY <2>1, <2>3 DEF Begin, store, OriginInv, config, runtime
<1>3. CASE WriteConfig
  BY <1>3 DEF WriteConfig, End, OriginInv
<1>4. CASE OpenConfig
  BY <1>4 DEF OpenConfig, Go, OriginInv
<1>5. CASE MakeDirectory \/ OpenFile \/ OpenFileInDirectory \/ CopyTree \/ CopyPiece \/ Copied
  BY <1>5 DEF MakeDirectory, OpenFile, OpenFileInDirectory, CopyTree, CopyPiece, Copied, Go, store,
    OriginInv
<1>6. CASE CopyTreeRefused \/ GeneratorFails \/ Interrupted
  BY <1>6 DEF CopyTreeRefused, GeneratorFails, Interrupted, End, store, OriginInv
<1>7. CASE CopyTreeFails
  <2>1. request'.config = request.config /\ request'.runtime = request.runtime
    BY <1>7 DEF CopyTreeFails
  <2> QED
    BY <1>7, <2>1 DEF CopyTreeFails, OriginInv
<1>8. CASE UNCHANGED vars
  BY <1>8 DEF vars, store, OriginInv
<1> QED
  BY <1>1, <1>2, <1>3, <1>4, <1>5, <1>6, <1>7, <1>8 DEF Next

\* The functions that make the groups, one per kind of model, pick the runners
\* that say they run on the GPU, but for one.
LEMMA GroupsFollowDevices ==
    ASSUME NEW runtime \in TritonRunners
    PROVE  \/ /\ Groups(runtime) = {GroupOfKind("KIND_GPU")}
              /\ runtime.device = "cuda"
           \/ /\ Groups(runtime) = {}
              /\ runtime.device = "cpu" \/ runtime.runner = "TensorFlowSavedModelCUDA"
<1> HIDE DEF GroupOfKind
<1> QED
  BY DEF TritonRunners, Groups

\* What is written for a configuration from a package.
LEMMA MadeIsMeasured ==
    ASSUME NEW config, NEW runtime, runtime.from = "package", Made(config, runtime)
    PROVE  LET file == Generated(config) IN
           /\ file.max_batch_size > 0 <=> runtime.batching
           /\ runtime.batching => file.max_batch_size = MaxOf(runtime.sizes)
           /\ file.optimization.kind # "none" <=> runtime.chosen.runner = "OnnxTensorRT"
           /\ PinnedToGPU(file) => runtime.chosen.device = "cuda"
           /\ runtime.chosen.device = "cuda"
                 /\ runtime.chosen.runner # "TensorFlowSavedModelCUDA" => PinnedToGPU(file)
<1>1. PICK package \in Packages, response_cache \in {0, 1} :
         /\ config = ConfigFromPackage(package, package.best, response_cache)
         /\ runtime.chosen = package.best
         /\ runtime.sizes = package.measured[package.best]
         /\ runtime.batching <=> package.batch_dim = "first"
  BY DEF Made
<1> DEFINE file == Generated(config)
<1>2. /\ config.batching = IF runtime.batching THEN 1 ELSE 0
      /\ config.max_batch_size = MaxOf(runtime.sizes)
      /\ config.instance_groups = Groups(runtime.chosen)
      /\ config.optimization = IF runtime.chosen.runner = "OnnxTensorRT"
                               THEN DefaultAccelerator ELSE NoOptimization
  BY <1>1 DEF ConfigFromPackage
<1>3. /\ file.max_batch_size = MaxBatchSize(config)
      /\ file.instance_group = InstanceGroups(config.instance_groups)
      /\ file.optimization = Optimization(config.optimization)
  BY DEF Generated
<1> HIDE DEF file
<1>4. config.batching = 1 => config.max_batch_size >= 1
  BY DEF Made, Valid, ValidBase
<1>5. MaxOf(runtime.sizes) \in Nat /\ runtime.chosen \in TritonRunners
  BY <1>1, LargestIsMeasured, RepositoryAssumption DEF Packages
<1>6. /\ file.max_batch_size > 0 <=> runtime.batching
      /\ runtime.batching => file.max_batch_size = MaxOf(runtime.sizes)
  BY <1>2, <1>3, <1>4, <1>5 DEF MaxBatchSize
<1>7. file.optimization.kind # "none" <=> runtime.chosen.runner = "OnnxTensorRT"
  BY <1>2, <1>3
  DEF Optimization, NoOptimization, DefaultAccelerator, AcceleratedOptimization, TensorRTAccelerator
<1>8. GroupOfKind("KIND_GPU").kind = "KIND_GPU"
  BY DEF GroupOfKind
<1>9. PinnedToGPU(file) <=> Groups(runtime.chosen) # {}
  <2>1. CASE Groups(runtime.chosen) = {}
    BY <2>1, <1>2, <1>3 DEF InstanceGroups, PinnedToGPU
  <2>2. CASE Groups(runtime.chosen) = {GroupOfKind("KIND_GPU")}
    <3> DEFINE onGPU == [kind |-> GroupOfKind("KIND_GPU").kind,
                         fields |-> Truthy(Without(GroupOfKind("KIND_GPU"), {"kind", "count_given"}))]
    <3>1. onGPU \in file.instance_group
      BY <2>2, <1>2, <1>3 DEF InstanceGroups
    <3> QED
      BY <2>2, <3>1, <1>8 DEF PinnedToGPU
  <2> QED
    BY <2>1, <2>2, <1>5, GroupsFollowDevices
<1>10. /\ PinnedToGPU(file) => runtime.chosen.device = "cuda"
       /\ runtime.chosen.device = "cuda"
             /\ runtime.chosen.runner # "TensorFlowSavedModelCUDA" => PinnedToGPU(file)
  BY <1>5, <1>9, GroupsFollowDevices
<1> QED
  BY <1>6, <1>7, <1>10 DEF file

\* A package is deployed with batching exactly if it has it, up to the
\* largest batch that was measured, accelerated if it was measured so, and put
\* on the GPU only if it was measured there and then always, but for
\* SavedModels (add_model_from_package).
THEOREM AsMeasured == Spec => []DeployedAsMeasured
<1>1. OriginInv => DeployedAsMeasured
  BY MadeIsMeasured DEF OriginInv, DeployedAsMeasured
<1> QED
  BY InitOrigin, OriginStep, <1>1, PTL DEF Spec

----------------------------------------------------------------------------
(* What Triton reads *)

\* A field that is left out because it has its default is read as its default.
LEMMA TruthyIsRead ==
    ASSUME NEW settings, NEW left, NEW fields, fields \subseteq DOMAIN settings \ left
    PROVE  Reads(Truthy(Without(settings, left)), settings, fields)
BY DEF Reads, Truthy, Without, Field, Restrict

\* The same with a field that is always written: the others are still read as
\* they were set, and this one too if it is written with its own value.
LEMMA WrittenIsRead ==
    ASSUME NEW settings, NEW left, NEW f, NEW value,
           NEW fields, fields \subseteq DOMAIN settings \ left,
           f \in fields => value = settings[f]
    PROVE  Reads(WithField(Truthy(Without(settings, left)), f, value), settings, fields)
BY DEF Reads, WithField, Truthy, Without, Field, Restrict

LEMMA InitialStateIsRead ==
    ASSUME NEW initial, initial.zero_data \in Nat, initial.data_file \in Nat,
           ValidInitialState(initial)
    PROVE  Reads(InitialState(initial), initial, {"zero_data", "data_file"})
<1>1. \/ initial.zero_data = 1 /\ initial.data_file = 0
      \/ initial.zero_data = 0 /\ initial.data_file = 1
  BY DEF ValidInitialState
<1> QED
  BY <1>1 DEF Reads, InitialState, Field

LEMMA StrategyIsRead ==
    ASSUME NEW strategy
    PROVE  /\ BatcherStrategy(strategy).kind = strategy.kind
           /\ Reads(BatcherStrategy(strategy).fields, strategy, DOMAIN strategy \ {"kind"})
<1>1. CASE strategy.kind = "oldest"
  <2>1. BatcherStrategy(strategy) =
           [kind |-> strategy.kind,
            fields |-> WithField(Truthy(Without(strategy, {"kind"})),
                                 "max_candidate_sequences", strategy.max_candidate_sequences)]
    BY <1>1 DEF BatcherStrategy
  <2> QED
    BY <2>1, WrittenIsRead
<1>2. CASE strategy.kind # "oldest"
  <2>1. BatcherStrategy(strategy) =
           [kind |-> strategy.kind, fields |-> Truthy(Without(strategy, {"kind"}))]
    BY <1>2 DEF BatcherStrategy
  <2> QED
    BY <2>1, TruthyIsRead
<1> QED
  BY <1>1, <1>2

LEMMA DynamicBatcherIsRead ==
    ASSUME NEW batcher, batcher.kind = "dynamic"
    PROVE  BatcherReaches(batcher, DynamicBatching(batcher))
<1>1. Reads(Truthy(Without(batcher, {"kind", "priority_queue_policy"})), batcher,
            DOMAIN batcher \ {"kind", "priority_queue_policy"})
  BY TruthyIsRead
<1> QED
  BY <1>1 DEF BatcherReaches, DynamicBatching

LEMMA SequenceBatcherIsRead ==
    ASSUME NEW batcher, batcher.kind = "sequence", ValidSequenceBatcher(batcher),
           \A state \in batcher.states : \A initial \in state.initial_states :
              initial.zero_data \in Nat /\ initial.data_file \in Nat
    PROVE  BatcherReaches(batcher, SequenceBatching(batcher))
<1> DEFINE message == SequenceBatching(batcher)
<1>1. /\ message.present = "sequence_batching"
      /\ message.strategy = BatcherStrategy(batcher.strategy)
      /\ message.control_input = ControlInputs(batcher.control_inputs)
      /\ message.state = States(batcher.states)
  BY DEF SequenceBatching
<1> HIDE DEF message
<1>2. ASSUME NEW c \in batcher.control_inputs
      PROVE  \E m \in message.control_input :
                m.kind = c.kind /\ Reads(m.fields, c, DOMAIN c \ {"kind"})
  <2> DEFINE m == [kind |-> c.kind, fields |-> Truthy(Without(c, {"kind"}))]
  <2>1. m \in message.control_input
    BY <1>1 DEF ControlInputs
  <2>2. m.kind = c.kind /\ Reads(m.fields, c, DOMAIN c \ {"kind"})
    BY TruthyIsRead
  <2> QED
    BY <2>1, <2>2
<1>3. ASSUME NEW s \in batcher.states
      PROVE  \E m \in message.state :
                /\ m.name = s.name
                /\ \A i \in s.initial_states : \E r \in m.initial :
                      Reads(r, i, {"zero_data", "data_file"})
  <2> DEFINE m == [name |-> s.name, initial |-> {InitialState(i) : i \in s.initial_states}]
  <2>1. m \in message.state
    BY <1>1 DEF States
  <2>2. \A i \in s.initial_states : Reads(InitialState(i), i, {"zero_data", "data_file"})
    BY InitialStateIsRead DEF ValidSequenceBatcher
  <2>3. \A i \in s.initial_states : \E r \in m.initial : Reads(r, i, {"zero_data", "data_file"})
    BY <2>2
  <2> QED
    BY <2>1, <2>3
<1> QED
  BY <1>1, <1>2, <1>3, StrategyIsRead DEF BatcherReaches, message

LEMMA GroupsAreRead ==
    ASSUME NEW groups
    PROVE  \A g \in groups : \E m \in InstanceGroups(groups) : GroupReaches(g, m)
<1> SUFFICES ASSUME NEW g \in groups
             PROVE  \E m \in InstanceGroups(groups) : GroupReaches(g, m)
  OBVIOUS
<1> DEFINE m == [kind |-> g.kind, fields |-> Truthy(Without(g, {"kind", "count_given"}))]
<1>1. m \in InstanceGroups(groups)
  BY DEF InstanceGroups
<1>2. GroupReaches(g, m)
  BY TruthyIsRead DEF GroupReaches
<1> QED
  BY <1>1, <1>2

LEMMA TensorsAreRead ==
    ASSUME NEW tensors
    PROVE  TensorsReach(tensors, Signature(tensors))
<1> SUFFICES ASSUME NEW t \in tensors
             PROVE  \E m \in Signature(tensors) :
                       m.name = t.name /\ Reads(m.fields, t, DOMAIN t \ {"name", "shape", "dtype"})
  BY DEF TensorsReach
<1> DEFINE m == [name |-> t.name, fields |-> Truthy(Without(t, {"name", "shape", "dtype"}))]
<1>1. m \in Signature(tensors)
  BY DEF Signature
<1>2. m.name = t.name /\ Reads(m.fields, t, DOMAIN t \ {"name", "shape", "dtype"})
  BY TruthyIsRead
<1> QED
  BY <1>1, <1>2

\* The map has the options that were given, but for those given as 0.
LEMMA OptionsAreRead ==
    ASSUME NEW optimization
    PROVE  OptionsReach(optimization, Truthy(Without(optimization, {"kind", "accelerator"})),
                        LostSettings)
BY DEF OptionsReach, LostSettings, Truthy, Without, Restrict

LEMMA OptimizationIsRead ==
    ASSUME NEW config, ValidOptimization(config)
    PROVE  OptimizationReaches(config.optimization, Optimization(config.optimization), LostSettings)
<1> DEFINE optimization == config.optimization
<1>1. CASE optimization = NoOptimization
  BY <1>1 DEF OptimizationReaches, Optimization, NoOptimization
<1>2. CASE optimization.kind = "tensorrt"
  <2>1. Optimization(optimization).parameters =
           WithField(Truthy(Without(optimization, {"kind"})), "eager_batching", 1)
    BY <1>2 DEF Optimization, TensorRTOptimization
  <2>2. Reads(Optimization(optimization).parameters, optimization,
              DOMAIN optimization \ ({"kind"} \cup LostSettings))
    BY <2>1, WrittenIsRead DEF LostSettings
  <2> QED
    BY <1>2, <2>2 DEF OptimizationReaches
<1>3. CASE optimization.kind = "accelerated"
  <2>1. Optimization(optimization) = AcceleratedOptimization(optimization)
    BY <1>3 DEF Optimization
  <2>2. AcceleratedOptimization(optimization).name = optimization.accelerator
    BY DEF AcceleratedOptimization, TensorRTAccelerator
  <2>3. optimization.accelerator = "tensorrt" =>
           OptionsReach(optimization, AcceleratedOptimization(optimization).parameters, LostSettings)
    BY OptionsAreRead DEF AcceleratedOptimization, TensorRTAccelerator
  <2> QED
    BY <1>3, <2>1, <2>2, <2>3 DEF OptimizationReaches
<1> QED
  BY <1>1, <1>2, <1>3 DEF ValidOptimization

\* Every valid configuration reaches Triton through what is generated of it.
LEMMA ValidIsRead ==
    ASSUME NEW config, Valid(config), TypedSettings(config)
    PROVE  Reaches(config, Generated(config), LostSettings)
<1> DEFINE file == Generated(config)
<1>1. /\ file.serves \in {config.backend, config.platform}
      /\ file.max_batch_size = MaxBatchSize(config)
      /\ file.batching = Batching(config)
      /\ file.input = Signature(config.inputs) /\ file.output = Signature(config.outputs)
      /\ file.instance_group = InstanceGroups(config.instance_groups)
      /\ file.optimization = Optimization(config.optimization)
      /\ file.response_cache = config.response_cache
  BY DEF Generated
<1> HIDE DEF file
<1>2. ValidBase(config) /\ ValidOptimization(config)
  BY DEF Valid
<1>3. file.max_batch_size > 0 <=> config.batching = 1
  BY <1>1, <1>2 DEF MaxBatchSize, TypedSettings, ValidBase
<1>4. config.batching = 1 =>
         /\ file.max_batch_size = config.max_batch_size
         /\ BatcherReaches(config.batcher, file.batching)
  <2> SUFFICES ASSUME config.batching = 1
               PROVE  /\ file.max_batch_size = config.max_batch_size
                      /\ BatcherReaches(config.batcher, file.batching)
    OBVIOUS
  <2>1. CASE config.batcher.kind = "dynamic"
    BY <1>1, <2>1, DynamicBatcherIsRead DEF MaxBatchSize, Batching
  <2>2. CASE config.batcher.kind = "sequence" /\ ValidSequenceBatcher(config.batcher)
    BY <1>1, <2>2, SequenceBatcherIsRead DEF MaxBatchSize, Batching, TypedSettings
  <2> QED
    BY <1>2, <2>1, <2>2 DEF ValidBase, ValidBatcher
<1>5. /\ \A g \in config.instance_groups : \E m \in file.instance_group : GroupReaches(g, m)
      /\ OptimizationReaches(config.optimization, file.optimization, LostSettings)
      /\ TensorsReach(config.inputs, file.input) /\ TensorsReach(config.outputs, file.output)
  BY <1>1, <1>2, GroupsAreRead, OptimizationIsRead, TensorsAreRead
<1>6. "max_sequence_idle_microseconds" \in LostSettings
  BY DEF LostSettings
<1> QED
  BY <1>1, <1>3, <1>4, <1>5, <1>6 DEF Reaches, file

\* Triton reads from the file what was configured, whatever was configured
\* and accepted, but for three settings (ModelConfigGenerator).
THEOREM SettingsAreRead == Spec => []SettingsReachTriton
<1>1. OriginInv => SettingsReachTriton
  BY ValidIsRead DEF OriginInv, Made, SettingsReachTriton
<1> QED
  BY InitOrigin, OriginStep, <1>1, PTL DEF Spec
=============================================================================
