# A verification of Model Navigator

Model Navigator takes a model from Torch, TensorFlow, JAX, ONNX or plain Python, exports it, converts it to
other formats (TorchScript, SavedModel, ONNX, TensorRT, TF-TRT, Torch-TensorRT), checks that the results are
correct, measures them, lets the user verify them, and keeps the outcome in a package from which the best model
for an aim can be taken. These modules state what the parts of that process promise, check it with TLC on small
instances and prove every one of the safety properties with TLAPS for every instance.

Paths below are relative to `src/model_navigator/`.

## 1. The system

| Part | State it keeps | Operations | Interacts with |
|---|---|---|---|
| **Entry points** `api/*.py` | none | `optimize`, `profile`, `package.*` | choose target formats and pipeline builders, hand them to the wrappers |
| **Model configurations** `configuration/model/` | none; makes `ModelConfig` objects that form a forest by `parent` | `generate_model_config` | read by the builders; the key names the directory and the status entry of a model |
| **Builders** `pipelines/builders/` | none | one function per pipeline, making `ExecutionUnit`s | the registry of runners, the configurations |
| **Pipeline execution** `pipelines/pipeline*.py`, `pipelines/wrappers/` | the workspace directory; `PipelineContext` (a status and an output per command, model and runner) and its copy `context.yaml` | `optimize_pipeline`, `PipelineManager.run`, `Pipeline.run`, `_execute_unit`, `update`, `save`, `command_args`, `validate_execution` | runs commands; a required command that fails exits the process |
| **Commands** `commands/` | model files and samples in the workspace | `_pre_run`, `_run`, `_post_run` per command | read the outputs of earlier commands as named arguments; start subprocesses |
| **Batch size search** `commands/find_max_batch_size/`, `commands/convert/base.py` | `device_max_batch_size` in the context; the fallback generator | measure what the device can hold; convert with fallback | the profiler in a subprocess, the three TensorRT based converters |
| **Profiler** `commands/performance/profiler.py` | the file of results, one line per batch size | windows of inferences until stable, next batch size until throughput drops | runners; `Performance`, `Profile` and `FindMaxBatchSize` read the file |
| **Runners** `runners/` | `is_active`, the loaded model, `inference_time` | `activate`, `infer`, `deactivate`, registry | profiler, correctness, verification, users |
| **Device memory and CUDA graphs** `frameworks/tensorrt/cuda.py` | the pointer and size of each `DeviceArray`, streams, captured graphs | `resize`, `copy_from`, `free`, `begin_capture`, `launch` | the TensorRT runners; PyTorch's allocator on the same device |
| **Runtime analyzer** `runtime_analyzer/` | none | `get_runtime` for five strategies | the status of a package |
| **Package and archive** `package/`, `api/package.py` | `Status` in memory, `status.yaml`, model files, the `.nav` archive | `create`, `save`, `load`, `optimize`, `profile`, `set_verified`, `get_runner` | the workspace it lies in, the pipelines, the analyzer |
| **Status format** `package/status.py` | none | reading, writing and updating of old versions | loader and builder of packages |
| **Execution context and logging** `commands/execution_context.py`, `core/logger.py` | the list of log handlers; scripts that reproduce a command | run a script in this process or another | commands |
| **Triton deployment** `triton/`, `api/triton.py` | the model repository: a directory per version, one `config.pbtxt` shared by the versions | `add_model`, `add_model_from_package` | packages, the analyzer |

### What is hard about it

*Partial failure is the normal case.* Every optional command may be skipped or fail, and later ones decide by
what is recorded and by which files exist whether they run at all. The combinations are far more than a test
suite runs. *Two memories.* The context in memory, `context.yaml`, and the model files are updated at different
moments and survive a kill differently; the workspace is used again by the next run. *Names as contracts.*
`command_args` merges the outputs of all earlier commands into one dictionary; a missing or repeated name is an
exception that the pipeline reports as a failure of the command. *Plans.* The order of units comes from the
iteration orders of several builders, of the dictionary of configurations and of the registry. *Retry.*
Converters are retried with smaller sizes whatever went wrong. *Best-of loops* keep a value and its companions.
*Device memory.* A TensorRT
runner keeps addresses of buffers in an execution context and in captured graphs, next to an allocator of its
own and PyTorch's; an inference may raise between any two of the updates that keep these copies in step.
There is no shared-memory concurrency in the parts modelled: a run is one sequential process that waits for its
subprocesses. Two runs in one workspace at the same time are not supported by the code and not modelled.

### What makes each part correct

* Execution: statuses follow the plan one by one; nothing is recorded after a required command that did not
  succeed; a pair of model and runner is verified only after it was found correct and measured; evaluation is
  skipped only where nothing was produced; nothing of an earlier run is taken for a result of this one;
  `context.yaml` never contradicts the context; arguments always resolve; a run ends.
* Planning: parents are made before children, each evaluated model exactly once and before it is evaluated,
  requirements before what requires them, every mandatory argument comes from a setting or a required command,
  no two units or configurations share a key, the batch size search sits between export and conversion.
* Batch size search: sizes stay between the dataloader's and the device's, the number of attempts is bounded,
  it gives up only at the dataloader's size, it ends.
* Analyzer: the answer is the best measurement in the sense of the strategy, with the throughput and latency
  of one and the same measurement.
* Packages: a package whose workspace nobody else has taken serves the files it measured and no others, its best
  models survive saving and loading, its `status.yaml` is its own.
* TensorRT runners: a block of memory has one owner; an inference reads what it was fed, whatever inferences and
  activations failed before it; a captured graph follows the feeds it can follow.
* Profiler: the results are a beginning of the planned batch sizes, each stable, and of the sample they are filed
  under, even if the session raised or was killed in the middle of a line.
* Logging: the console handlers are attached again when a command is over.
* Status: the evaluations in a file of any version survive its update, and models are found where they were put.
* Triton: `config.pbtxt` never names an absent model, a deployment that returns has put all of the model where the
  server looks for it, every setting that was accepted reaches the server, and a package is deployed with the batch
  size and on the device it was measured at.

## 2. The modules

| Module | Models | EXTENDS |
|---|---|---|
| `CommandCatalog` | what each command needs, returns and requires | |
| `PlanRequirements` | what a run relies on in its plan | `CommandCatalog` |
| `PipelineExecution` | the state machine of a run, and of the runs after it | `PlanRequirements` |
| `CommandLedger` | abstract: what a run promises its callers | |
| `ModelConfigs` | `generate_model_config` | |
| `PipelineBuilders` | the builders and the entry points | `ModelConfigs` |
| `PipelinePlanning` | from a request to a plan | `PipelineBuilders`, `CommandCatalog` |
| `PipelineProofs` | theorems about `PipelineExecution` and `PipelinePlanning` | both, `TLAPS` |
| `BatchSizeSearch` | `FindMaxBatchSize`, conversion with fallback | |
| `BatchSizeSearchProofs` | theorems about `BatchSizeSearch` | `BatchSizeSearch`, `TLAPS` |
| `RuntimeAnalyzer` | `RuntimeAnalyzer.get_runtime` | |
| `RuntimeAnalyzerProofs` | theorems about `RuntimeAnalyzer` | `RuntimeAnalyzer`, `TLAPS` |
| `PackageStore` | packages, their workspaces and the archive | |
| `PackageStoreProofs` | theorems about `PackageStore` | `PackageStore`, `TLAPS` |
| `DeviceMemory` | device blocks, their owners, `DeviceArray` | |
| `TensorRTRunner` | `TensorRTRunner`, `TensorRTCUDAGraphRunner`, `NavigatorRunner` | `DeviceMemory` |
| `TensorRTRunnerProofs` | theorems about `TensorRTRunner` | `TensorRTRunner`, `TLAPS` |
| `ProfilingSession` | `Performance` and `Profile`, the profiler, `ExecutionContext`, the log handlers | |
| `ProfilingSessionProofs` | theorems about `ProfilingSession` | `ProfilingSession`, `TLAPS` |
| `StatusUpdate` | `StatusDictUpdater`, `Status.from_dict` and `to_dict` | |
| `StatusUpdateProofs` | theorems about `StatusUpdate` | `StatusUpdate`, `TLAPS` |
| `TritonModelConfig` | specialised configurations, `ModelConfigBuilder`, `ModelConfigGenerator` | |
| `TritonRepository` | `add_model`, `add_model_from_package` | `TritonModelConfig` |
| `TritonRepositoryProofs` | theorems about `TritonRepository` | `TritonRepository`, `TLAPS` |
| `MCPipeline`, `MCPipelinePlanning`, `MCRuntimeAnalyzer`, `MCPackageStore`, `MCTensorRTRunner`, `MCProfilingSession`, `MCStatusUpdate`, `MCTritonRepository` | instances for TLC | the modules they are named for |

Planning and execution meet in `PlanRequirements`. It states, of a plan and its models as constants, what
`PipelineManager` relies on without a check; `PipelineExecution` assumes it of the plan it runs
(`PlanAssumption`), and `PlansCanBeRun` proves it of every plan that `PipelinePlanning` builds, so that the
theorems about runs hold for whatever the entry points can ask for. For TLC, `MCPipeline` composes the two: the
plans of the runs are computed by `PipelineBuilders` from requests.

Definitions introduced by **Fault** are plausible bugs: each has the parameters of the definition after it, is
used nowhere, and makes TLC refute the property it names when it takes that definition's place. They show that
the properties depend on the code and not on the shape of the model.

### Correspondence with the code

**PipelineExecution.** `pos` is the position of the two nested `for` loops (pipelines, units) in their
concatenation `Plan`; `phase` the place in the loop body; `result` the status `_execute_unit` returned;
`commands` is `PipelineContext.commands` with the outputs abstracted to their names; `artifact` says of each
model file whether a successful command of this run wrote it; `contextFile` and `saved` are `context.yaml`.

| Action | Code |
|---|---|
| `BeginRun` | `optimize_pipeline` (or `profile_pipeline`): a workspace that is not the package's own is emptied, the context file unlinked |
| `TouchContext` | `PipelineContext.initialize`, second half |
| `ExecuteUnit` | `Pipeline._execute_unit` that returns: `validate_execution`, `command_args`, `Command.run`, the `except` clauses |
| `ExitOnRequired` | `_execute_unit` that calls `sys.exit`; nothing is recorded |
| `Update` | `PipelineContext.update` |
| `TruncateContext`, `DumpContext` | `PipelineContext.save`: `open(..., "w")` empties the file, `safe_dump` fills it |
| `Finish` | `PipelineManager.run` returns |
| `Crash` | the process is killed between any two of these |

The outcomes of a command are read off its `_run`: exporters skip when their file exists, converters when the
parent's file does not (`ConvertTorchScript2ONNX` alone does not look and fails), evaluators when the model's
file does not; every one may raise, which leaves the old file or a partial one (`"stale"`). What a model,
a sample or a tolerance contains is not modelled.

**ModelConfigs, PipelineBuilders, PipelinePlanning.** Pure functions as operators. A configuration is its
format, its key options with those of its ancestors, and its parent's key. `GenerateModelConfig` is the builder's
dictionary, a list of configurations per format; `Where` filters a list as the comprehensions of the builders do,
and `Joined` goes through the dictionary in the order in which the formats were put into it (`SourceOrder`, then
`SerializedOrder`). `Requests` are the requests that validation lets through, with the runners the user selected,
`BuildPipelines` the whole of planning.

`CustomAssumption` says that no option of a request is repeated. The code does not look: a precision or JIT type
given twice, or both `None` and `False` for `jit_compile` or `enable_xla` (the key tells only true from not true),
would be two configurations with one key and directory, made one over the other.

**BatchSizeSearch.** The first half is `FindMaxBatchSize._run` over the configurations of a run; `Measure` and
`StopMeasuring` let the profiling subprocess end or die after any result. The second half is one conversion:
first attempt, generator, loop. Python's `None` is a model value, and the two places where the code computes
with it are `FailFirst` and `CompareWithNone`.

**RuntimeAnalyzer.** Each loop that keeps a best value and its companions is a recursive function of the number of
its turns (`FirstBest`), with the code's strict comparisons; the properties say with quantifiers what the loops
should find.

**PackageStore.** A package object is a `Status` and the path of its workspace; the files are looked up by path
whenever they are used. `files[d][m]` is the number of the run that wrote the file of model `m`, so that a file
that takes another one's place is told apart. `call` is the call under way and the place it has reached; one
process makes one call at a time, and `Raise` and `Kill` may end it at every place.

| Action | Code |
|---|---|
| `Optimize`, `PackageOptimize`, `RunPipelines` | `optimize_pipeline` on a source model (the workspace is initialised) and on a package (it is not, and `LoadMetadata` needs a whole `status.yaml`); the pipelines are one step with every outcome `PipelineExecution` has for the files |
| `DeleteStatusFile`, `OpenStatusFile`, `DumpStatus` | `Package.save_status_file`, from `create` and from `save` |
| `ReturnPackage` | `optimize` returns, the result is assigned |
| `Save`, `SaveRefused` | `PackageBuilder.save` up to the status file; the older archive is unlinked first |
| `OpenArchive`, `WriteStatus`, `AddModel`, `CloseArchive` | `_make_zip` |
| `Load`, `Extract`, `ExtractSome` | `load`, `PackageLoader.from_file`; the workspace is initialised before the archive is known to be readable |
| `RemoveWorkspace` | the user removes the directory; `save` foresees it |
| `Raise` | an exception; during `_make_zip` it closes the archive, which stays readable and lacks models |

`owner`, `sound` and `whole` are history variables: whose workspace it is, whether its owner saved the archive,
and whether that save came to its end. The properties speak of owners, because the code does not protect a
package from a later call on the same directory: after such a call its object serves, without notice, whatever
file now has the name of its best model, and saving it overwrites the newer package's `status.yaml`.

**DeviceMemory, TensorRTRunner.** `heap` says whom each block of the device belongs to: an array, nobody, PyTorch's
cache, a tensor of the caller, or an array that was dropped. `data` is the number of the inference that wrote a
block last, so that old data is told apart from the feed. `context` is what the execution context remembers per
input, `graph_exe` what a captured graph does. An inference visits its inputs one after the other, in any order.

| Action | Code |
|---|---|
| `Activate`, `MakeBuffer`, `FinishActivation` and their failures, `SetProfile` | `activate`, `activate_impl`: context, a buffer per input, the stream; the optimization profile |
| `Infer`, `SetInput`, `RefuseInput`, `InputFails`, `InputOutOfMemory`, `InputsDone` | `infer`, `_set_shapes_and_addresses`: per input a resize and a copy from a NumPy array, or the address of a CUDA tensor; changed inputs drop the captured graph |
| `Execute`, `Capture`, `CaptureFails`, `Launch`, `ExecutionFails`, `Return` | `_execute`, `_capture_cuda_graph`: enqueue without graphs, enqueue and capture on the first call with them, replay afterwards |
| `SetShape`, `ShapesDone`, `ResizeOutput`, `CopyInput`, `ExecuteLegacy` | the path for TensorRT before 8.5 |
| `Deactivate`, `DeactivateFails` | `deactivate`; `free` of the arrays the code frees |

One case is left out: an inference that runs on the buffers of an earlier activation after a later one failed
half way (`held` keeps them apart).

**ProfilingSession.** A command clears or writes the sample, starts a session in this process or in a subprocess,
and reads what the session left in the file of results. `MeasureWindow`, `MeasureStabilized` and `Report` are
the profiler's loop; `Exit`, `ScriptRaises`, `ScriptKilled` and `InterruptScript` its ends. `HideConsole`,
`HideHandler` and `Log` are `FileHandlersLogging.__enter__`, turn by turn (`position` is the iterator of the loop
over the list that changes under it: of two adjacent console handlers the second is skipped); `ShowConsole` is
`__exit__`.

**StatusUpdate.** `Load` reads the file and takes the version; every update applies when its version is reached
and may raise `KeyError` on what it does not find; `Build` makes the `Status`, with the path of every model
computed anew (`Lineage` walks up the parents, as `ModelConfig.key` does); `Save` writes it back in the current
format. `OldPackage` and `NewPackage` say what a version can have written: which runtimes a format was profiled
with, which formats a format is made from, where its files were put. The packages of the run are shaped as in
`tests/unit/base/mocks/statuses.py` and TLC checks that they are such packages.

**TritonModelConfig, TritonRepository.** A setting is a number, the file a function from the fields that are written
to their values. Most settings become protobuf fields, for which 0 and absent are the same to Triton. The options
of the TensorRT accelerator become entries of a map of strings and are not: an option that was not given is not in
the record's domain, so an explicit 0 differs from it. `Valid` is `__post_init__`, `Generated` the dictionary of
`ModelConfigGenerator`. In the repository, `MakeDirectory`, `OpenFile`, `CopyTree`, `CopyPiece`, `OpenConfig` and
`WriteConfig` are the steps of one deployment, `Interrupted` and the `Fails` actions end it between any two.

As in the code, `model_path` alone decides how a model is copied: `source` is a file, a directory, or a file of a
model with weights in other files ("split"), for every backend. A file is written over a file that is there, but into
a directory that is there, under its own name, which an older piece may have too (`OpenFileInDirectory`); a directory
is refused whatever is there (`CopyTreeRefused`), and copied a second time at most once (`CopyTreeFails`).
`TritonRunners` has the format and the device from the runner classes; the groups of instances come from the four
`_..._config_from_runtime_result` functions (`Groups`), which do not look at these.

## 3. The runs

| Run | Shows | Distinct states |
|---|---|---|
| `pipeline_onnx` | `SkippedOnlyIfNotProduced`, `StaleOnlyFromFailure`, `ContextFileFollows`, the refinement `ImplementsLedger` and `RunEnds`, for ONNX made in two ways | 3 921 |
| `pipeline_package` | `TypeOK`, `VerifiedOnlyAfterEvaluation`, `RequiredSucceeded`, `ArgumentsResolve` for a TensorFlow package optimised where it lies, where files of earlier runs stay | 34 278 |
| `pipeline_planning` | the six properties of plans, for all requests | 18 560 |
| `batch_size_search` | the four bounds and termination | 2 168 |
| `runtime_analyzer` | the four strategies that search | 25 236 |
| `package_store` | `TypeOK`, `BestIsThere`, `ServesWhatWasMeasured`, `MetadataIsOwn` for two packages that take the workspace from each other | 244 525 |
| `tensorrt_runner` | `BuffersAreOwned`, `PlainRunnerReadsTheFeed`, `GraphFollowsHostFeeds`: memory has one owner and inferences read their feed after any failure | 695 814 |
| `profiling_session` | `ResultsFollowThePlan`, `ResultsAreOfTheirSample`, `ConsoleComesBack` for commands in and out of process that end in every way | 1 042 558 |
| `status_update` | `EvaluationsSurvive`, `ModelsAreFoundAgain` from every version, through loading and saving again | 37 644 |
| `triton_repository` | `ConfigNamesAModel`, `SuccessMeansComplete`, `SettingsReachTriton`, `DeployedAsMeasured` with interrupted deployments of files and directories | 478 134 |

Two runs end in a violation of what a docstring says:

| Run | The docstring | The code |
|---|---|---|
| `batch_size_errors` | "Raises: A conversion exception when command and fallback failed" (`commands/convert/base.py:54`) | with one of the two sizes unknown, a failed first attempt ends in a `TypeError` of the generator |
| `graph_replay` | "Runs inference using the provided feed_dict." (`runners/base.py:196`) | a captured graph keeps the addresses of CUDA tensors; a tensor at another address with the same shape is not read (`runners/tensorrt.py:448`) |

### Divergences without a run

These definitions state further sentences that the code does not keep; each is refuted when it is added to the
configuration of its module's run.

| Definition | The sentence | The code |
|---|---|---|
| `PipelinePlanning!EveryTargetIsConfigured` | "Generates all valid checkpoint configurations" (`model_config_builder.py:57`) | base formats are added one level deep, so TensorRT for TensorFlow or JAX, asked for alone, yields no TensorRT configuration |
| `RuntimeAnalyzer!FallsBackToMaxThroughput` | "search is repeated with MaxThroughputStrategy" (`api/package.py:123`) | it is not; the analyzer's error is raised |
| `RuntimeAnalyzer!OnlyAnalyzerErrors` | "ModelNavigatorRuntimeAnalyzerError: When no runtime satisfies the strategy requirements" (`analyzer.py:85`) | a selected runner without a measurement raises `KeyError` |
| `TritonRepository!ReplacesFormerModel` | "In the end, the model with the configuration is created inside the provided model repository path." (`docs/triton/triton_deployment.md:22`) | a file that is deployed where another deployment, complete or killed, left a directory is copied into it (`model_repository.py:336`), and `add_model` returns: a GraphDef after a SavedModel, or a `.pt` file after a directory as the tests deploy one (`tests/unit/base/test_triton_model_repository.py:147`) |
| `TritonRepository!DeploysWholeModel` | "Create the Triton Model Store with optimized model and save it" (`model_repository.py:185`) | of an ONNX model with weights in other files, which the package's archive includes (`package/builder.py:127`), only `model.onnx` is copied (`model_repository.py:336`) |
| `TritonRepository!ExplicitZerosReachTriton` | "minimum_segment_size: The smallest model subgraph that will be considered for optimization by TensorRT", `None` if not given (`specialized_configs/common.py:248`) | a 0 that was given is left out of the map, as for the other two sizes (`model_config_generator.py:480, 489, 493`), and the backend takes a default of its own |
| `TritonRepository!EagerBatchingReachesTriton` | the option of `TensorRTModelConfig` (`tensorrt_model_config.py:34`) | `eager_batching` is written as true whatever it was set to (`model_config_generator.py:410`) |
| `TritonRepository!SavedModelsDeployedAsMeasured` | `TensorFlowSavedModelCUDA` is among the runners whose measurements are deployed (`model_repository.py:99`), and its class declares CUDA | a SavedModel measured with it gets no GPU instance group, so Triton chooses the device ("TODO: check runner for savedmodel when available", `model_repository.py:395`) |
| `StatusUpdate!EveryModelIsFoundAgain` | packages of 0.1.4 list Torch-TensorRT models under `torch-trt-script-fp16` (`tests/unit/base/mocks/statuses.py:708`) | the path computed on loading leaves the JIT type out: `torch-trt-fp16` |

Seen while modelling, without a sentence to hold them against: a fallback that is announced as smaller may repeat
the same size (`convert/base.py:189`); `save` with override unlinks the old archive before it finds out that the
workspace is gone (`builder.py:87`); `is_empty` and the analyzer judge a skipped `Performance` differently
(`package.py:217`); a deployment that fails leaves its version's directory behind; the array of the output
allocator, the graph and its executable are not freed by `deactivate`; the temporary CUDA copy of a CPU tensor is
freed before the engine has read it.

### Bounds, and why they are enough

* *Pipelines.* Two plans, one with ONNX made in two ways and one runner, one with four formats and two runners;
  nothing else is bounded. A unit interacts with units of its own model and runner, with its model's maker and
  parent, and with the units without a model; two runners and a parent and child already give each of these and
  an independent neighbour. Runs repeat without limit, since a new run forgets all but the files.
* *Planning.* Every framework, non-empty set of targets, device, batching and profile setting, all three flows,
  with two selections of runners (all, and three of different kinds) and two sets of custom options: one value
  each, and two JIT types, two or three precisions per TensorRT based format and four SavedModel options at once
  with extended ONNX conversion. Keys and orders differ only in these. The theorems hold for every selection and
  every set of options without repetitions.
* *Batch sizes.* `MaxMeasured` = 64 stands for 2^30, `Threshold` = 8 for the code's threshold, `Halving` = 2
  for its number of halvings, `Configurations` = 2 models to probe; dataloader and profile sizes lie on both
  sides of each other and of the powers of two. The theorems hold for every value.
* *Analyzer.* Two models with up to two measurements each, or three runners with one, over two latencies and
  two throughputs: enough for ties, for a best that comes first or last, and for a companion value to be wrong.

* *Packages.* One exported and one converted model, so that fastest and busiest may differ and either be left
  out of the archive; two optimizations, so that an older and a newer file of the same name meet; two packages in
  one workspace. One package in two workspaces, which it moves between through its archive (658 882 states), and
  two in two (11 million) hold as well and take longer than a regular run should; the theorems cover every
  number. Slots and workspaces are symmetric: no definition chooses among them.
* *Runner.* Four blocks of memory, two inputs and two shapes, two inferences, two activations: one more block than
  the arrays need, so that a caller's tensor may get a block back or take one an array gave up; a failure may
  leave one input up to date and the other not; the second call meets what the first left, in the same
  activation or the next. Inputs and addresses are symmetric. The theorems cover every number.
* *Profiling.* Two console handlers, since only adjacent ones disturb each other; two samples, two commands, a
  device that holds 4, windows with two latencies.
* *Status.* Packages of every format version with parents, several runners and results that failed; three loads
  with a save between them, after which nothing changes any more.
* *Triton.* Two versions and two deployments: one to leave something behind and one to find it. Configurations for
  every backend, each with settings unlike the defaults, a model of every source for the plain ones, and of every
  kind of model a runtime that is put on the GPU and one that is not. Two pieces make half-copied visible; the
  second call meets nothing, a file, or a directory, whole or not. Four deployments of one version hold as well.

### Fairness

`FairSpec` of `PipelineExecution` is `WF_vars(Progress)`: the loop is plain sequential code, it goes on as long
as it can. Neither `BeginRun` nor `Crash` is fair. `WF_vars(Next)` in `BatchSizeSearch` says the same. Both take
it that a command returns: subprocesses are awaited without a timeout (`execution_context.py:219`), so a
converter that hangs stops the run, and no property of this project says otherwise.

`CHECK_DEADLOCK FALSE` is set where the modelled function returns once (planning, the search, the analyzer) and
where a counter bounds the calls of a behaviour (the runner, profiling, status, Triton).

## 4. What is proved

**PipelineProofs** has two parts. The first is about runs, for every plan, set of models and runners. Assumptions,
evaluated by TLC on the runs' instances: `SettingAssumption` (types) and `PlanAssumption`, which is all of
`PlanRequirements`: a plan is a sequence of units (`PlanIsTyped`) about models with a format and perhaps a parent
(`ModelsAreTyped`), no unit that another one requires comes after it (`RequirementsAreOrdered`), a model is made by
one unit, before it is evaluated (`ModelsAreMadeOnce`), and no argument of a unit has two sources while each it
cannot do without comes from a setting or a required unit (`ArgumentsHaveOneSource`). They are about plans and say
nothing of a run; the second part proves them of every plan that is built.

| Theorem | Says |
|---|---|
| `TypeCorrect` | `Spec => []TypeOK` |
| `Verification` | `Spec => []VerifiedOnlyAfterEvaluation` |
| `RequiredFirst` | `Spec => []RequiredSucceeded` |
| `ContextFile` | `Spec => []ContextFileFollows` |
| `Refinement` | `Spec => ImplementsLedger` |
| `FilesInvariance` | `Spec => []FilesInv` |
| `SkippedRightly` | `Spec => []SkippedOnlyIfNotProduced` |
| `StaleRightly` | `Spec => []StaleOnlyFromFailure` |
| `ArgumentsAreThere` | `Spec => []ArgumentsResolve` |

The argument: neither safety property is inductive. That a verified pair stays verified needs that no later
`Update` overwrites the status of its requirement, that is, that statuses are only written for the next unit of
the plan (`LedgerIsPrefix`: exactly the recorded prefix has a status) and that a required unit never comes later
(`RequirementsAreOrdered`). That a status OK was only possible for an executable unit must be remembered between
`ExecuteUnit` and `Update` (`PendingResult`). `IInv` is the conjunction of these with the properties, and there
is one lemma per action. `ContextFile` has an invariant of its own on top of it (`FileInv`), since `saved`
follows `commands` one phase later. `FilesInv` ties the files to the ledger: a model whose maker succeeded has a
file of this run (`MadeIsThere`), and a stale file in an initialised workspace has a failed maker
(`StaleFromMaker`); with `ModelsAreMadeOnce` no later unit of the plan can undo either.
`Refinement` maps each action to a step of `CommandLedger` or to a stutter.

The second part is about plans, for every set of requests: any framework, targets and device, any selection of
runners, and any number of options of each kind. Assumptions: `FlowAssumption` (the three entry points modelled) and
`CustomAssumption` (no option is repeated, and a JIT type or precision is one word of a key).

| Theorem | Says |
|---|---|
| `PlansAreOrdered` | a plan lists exactly the units of its request, each once, in one order of all commands |
| `PlansOfRequests` | `Planning => []PlanIsOfRequest` |
| `PlansOverwriteNothing` | `Planning => []NothingIsOverwritten` |
| `PlansMakeParentsFirst` | `Planning => []ParentsAreMadeFirst` |
| `PlansMakeWhatTheyEvaluate` | `Planning => []EvaluatedModelsAreMade` |
| `PlansVerifyLast` | `Planning => []RequirementsComeFirst` |
| `PlansProvideNeeds` | `Planning => []NeedsAreProvided` |
| `PlansSearchBetween` | `Planning => []SearchComesBetween` |
| `PlansCanBeRun` | `Planning => []PlanCanBeRun`: the assumptions of `PipelineExecution` hold of every plan |

The builders join, filter and multiply lists. The proofs replace each list by the set it enumerates, without
repetitions (`Enumerates`). What joining keeps (`FlattenSeq` is a fold) is shown by the least position at which it
would not, once, and the rest are set equations: the configurations of a format (`IsConfigList`), the units of a
builder, the units of an entry point. What is left of the lists is their order. All builders keep to one order of the
commands (`Turn`), from the metadata to `VerifyModel`; a list that enumerates its units in that order is a `Segment`,
segments with turns after each other join to segments (`SegmentsJoined`), and so the plan of each entry point is
one (`PlansAreOrdered`). *What comes before what* then is a comparison of two numbers. *What there is only once*
follows from the keys: configurations of a request with the same key are equal (`KeysDiffer`), since what a
format adds to the options of its parents always has the same length (`SameLength`), so that a key can be taken
apart again; and a configuration is made by one command. That no argument has two sources needs that of the commands
with a common output only one hands its outputs to a unit (`OneSourceOfAKind`).

**BatchSizeSearchProofs**, for every set of sizes, number of configurations, threshold and number of halvings
(`SizeAssumption`): `SizesAreBounded`, `AttemptsAreBounded`, `DataloaderIsTried`, `DeviceSize`. `SearchInv` adds
that a measured size is 1 or even, so that halving it loses nothing (`Doubling`), that nothing was tried before
the device's size is settled (`BeforeConversion`), and that a fallback has spent one attempt and one per halving
and goes down from the device's size (`InFallback`).

**PackageStoreProofs**, for every set of slots, workspaces and models and every number of runs (`StoreAssumption`:
the constants for "nothing" and "not filled" are not numbers or slots): `StoreTypeCorrect`, `Serves`,
`BestSurvives`, `OwnMetadata`. The properties speak of packages at rest and are not inductive: the package that
`create` will return must fit its workspace already, during `save` the object in its slot is the one being saved
and nobody else owns the workspace, what is in an archive so far agrees with its status, and a workspace being
extracted to is empty. `StoreInv` is the conjunction of the properties with these (`PendingRun`,
`PendingPackage`, `PendingSave`, `PendingArchive`, `PendingLoad`, `ArchiveIsSound`), with a lemma per action;
`OwnersKeep` says once what an action that leaves the owners' workspaces alone preserves.

**TensorRTRunnerProofs**, for every device, set of inputs and shapes, number of inferences and activations
(`MemoryAssumption`, `RunnerAssumption`: the constants for nobody and nothing are no names, and a set of sizes has
a largest): `RunnerInvariance`, `OneOwner`, `PlainRunner`, `GraphReplay`. What an inference reads is settled only
when it is launched; in the middle of it some inputs are new and some old. `RunnerInv` therefore says what the
inputs visited so far have (`InputsSet`, `ShapesSet`, `InputsCopied`), that the tensors of the caller keep their
blocks while the inference runs (`TensorsHeld`), and that a captured graph agrees with the context it was
captured from, input by input, as long as it is not dropped (`GraphMatches`). One lemma per action.

**TritonRepositoryProofs**, for every set of versions, of models users deploy, of measurements of the runners in
`TritonRunners`, and every number of deployments (`RepositoryAssumption`: backends and runners are known ones, and a
runtime that was measured has a largest batch): `RepositoryInvariance`, `NamesAModel`, `CompleteOnReturn`,
`AsMeasured`, `SettingsAreRead`. The only step that takes a model away is the second attempt of `copytree`; it
removes a directory that this deployment made because there was none, so no configuration named it (`NotNamed`).
What lies in the place being written at each step is `InProgress`: the pieces of the deployment, and others only if a
file goes into a directory, the case that `CompleteOnReturn` leaves out and `ReplacesFormerModel` is about. All steps that
open or fill the place go through one lemma (`CopyingStep`). `AsMeasured` has an invariant of its own, which carries
the package from the call to the file (`OriginInv`), and compares the runners that the code lists with the devices
their classes declare (`GroupsFollowDevices`). `SettingsAreRead` goes through the dictionary that is generated, field
by field: a field that is left out must be one whose value was 0, and of the accelerator's options the ones that are
left out are those not given and the explicit zeros (`OptionsAreRead`).

**ProfilingSessionProofs**, for every set of profiles and consoles and number of samples and commands
(`SessionAssumption`: positive latencies and counts, profiles with numbers, finitely many consoles):
`SessionInvariance`, `OwnSample`, `PlanInvariance`, `PlanFollowed`, `ConsoleInvariance`, `ConsolesStay`.

* A result is a copy of a line, and a line is about the sample on disk; `SessionInv` says of the sample on disk,
  the lines and the results read so far that they belong together, and at which steps.
* `PlanInv` divides the plan of a session into the lines written (`LinesFollow`) and the sizes still to be measured
  (`RestFollows`), no line but the last being a reason to stop. Reading appends the lines to results of earlier
  samples only (`SamplesInOrder`), so that within a sample results follow the plan (`ResultsFollow`) and stop
  where they should (`ResultsGoOn`).
* `ConsoleInv` says that each console of the process is once among the handlers or among the removed ones
  (`HandlersInv`), that `format.log` is a handler exactly during a command (`FormatLogInv`), and that the loop,
  which skips handlers, has removed one before it passes one that stays (`LoopInv`); this is why hiding never does
  nothing.

**RuntimeAnalyzerProofs**, for every set of packages and strategies with numbers as measurements
(`AnalyzerAssumption`): `AnswerInvariance`, `MinLatency`, `MaxThroughput`, `Budget`, `Combined`. A best-of loop is a
function of the number of its turns, and what it has found so far is best up to there (`BestUpTo`). That a loop
function exists at all (`LoopExists`) and that what every turn keeps holds at the end (`EveryTurn`) are proved by a
least counterexample (`LeastElement`, from the well-foundedness of the order of the natural numbers). The rest
relates the loops over runners and results inside to the one over models (`RunnersBest`, `BestOfChoices`).

**StatusUpdateProofs**, for every set of packages that some version can have written (`PackagesAssumption`) and
every number of loads: `EvaluationInvariance`, `EvaluationsKept`, `PlaceInvariance`, `ModelsFoundAgain`.

* `EvaluationInv`: the file is the first one or one that was saved with all of its evaluations (`FileInv`); the
  dictionary is still in the shape of the first file at the steps that are due for its version, and has the
  runners of the first file's models afterwards (`DictInv`); only a PyTorch package of 0.1.0 fails (`StatusInv`).
  That 0.1.1 called itself 0.1.0 matters: only the fields of the file tell which updates are due. That the largest
  batch bounds all sizes needs that a finite set of numbers has a largest (`LargestElement`).
* `PlaceInv`: in a file or dictionary of the new format every model's key goes on from its parent's, and so does the
  key computed for a loaded one. `ParentFormats` bounds the walk up the parents: a parent's format is none its
  child can be made from, so no model has more than a grandparent (`NoOlderAncestor`), and the walk over as many
  ancestors as there are models reaches the oldest (`KeysComeBack`).

**Only model-checked:** `RunEnds` and `Terminates`, since liveness under fairness is out of the prover's reach. Every
other property of a passing run is a theorem. What the two other runs refute is left to TLC's counterexamples.

Induction over data is possible only in a roundabout way: the library's induction rules take an operator as a
parameter, which the provers cannot instantiate. Loops and walks are therefore recursive functions of a number, and
each lemma about them assumes a least number that refutes it.

## 5. What is not modelled, and why

* What commands compute: metadata, tolerances, engines, measured numbers. Libraries do it.
* `PipelineContext.load`: nothing calls it.
* Validation of user input before any state exists, formatting of configurations, reproduction scripts.
* Of the CUDA and TensorRT bindings: the search for the library, NumPy views, engine builders, representations.
  Tensors, dataloaders, environment queries: conversions and queries without state that the pipelines only
  pass on.
* Converters and exporters: scripts around the frameworks' own functions, of which the pipelines see the outcome.
* The runners of the other frameworks: a handle to a loaded model and no buffers. Two of them reach beyond
  themselves (Torch runners move the shared model to the device and back, TensorFlow CPU runners hide the GPUs
  from the whole process), which is left for later.
* Of packages: samples, reproduction files and external ONNX weights in the archive (they are treated like the
  files modelled), `set_verified` and `load_source_model` (they change the object only), `profile` (it changes no
  file but `context.yaml`).
* Of the status: metadata, environment and the dataloader's TensorRT profile, which updates pass through; the
  entries of source formats in packages of the new format, which have no options and no file of their own.
* Of logging: `StdoutLogger`, and the file handlers each initialised workspace adds.
* Of profiling: means and percentiles beyond the latencies of the windows.
* Of Triton: the `parameters` map and warm-up data, which are copied as they are. The PyTriton adapter: a layer
  over `Package.get_runner` and the Triton configuration without state of its own.

## 6. The plan

Order of work, the most important behaviour first:

1. *Done:* `PipelineExecution` with `CommandLedger`, `ModelConfigs` and `PipelineBuilders`,
   `BatchSizeSearch`, `RuntimeAnalyzer`, `PackageStore`.
2. *Done:* `DeviceMemory` and `TensorRTRunner`, `ProfilingSession` (profiler and logging), `StatusUpdate`,
   `TritonModelConfig` and `TritonRepository`.
3. *Done:* proofs of every safety property that a passing run checks, and of what a run assumes of its plan.
4. An abstract specification of `PackageStore` (a store of whole packages) and the refinement; `is_empty` and the
   choice of the best model by `RuntimeAnalyzer` in the place of any measured model.
5. `VerifyModel`: its two generators, each of which holds an active runner while the user's function runs.
6. The runners that reach beyond themselves, two of them active at a time.
