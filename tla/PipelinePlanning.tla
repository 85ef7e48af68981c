-------------------------- MODULE PipelinePlanning --------------------------
(***************************************************************************)
(* From a request to a plan: generate_model_config and the builders of an  *)
(* entry point, for every framework, set of target formats, device and set *)
(* of custom options.  What PipelineExecution assumes of a plan, and what  *)
(* the commands of a plan rely on, is checked here for all of them.        *)
(***************************************************************************)
EXTENDS PipelineBuilders, CommandCatalog

CONSTANTS
  Flows,       \* "optimize", "package_optimize", "package_profile"
  Devices,
  Customs,     \* custom options, as in ModelConfigs
  Selections,  \* the values of the runners option, as sets of names
  Batching     \* values of "batch_dim is not None"

ASSUME FlowAssumption == Flows \subseteq {"optimize", "package_optimize", "package_profile"}

\* An option that is given twice would be configured twice under one key: the
\* code does not look for it.
ASSUME CustomAssumption == \A custom \in Customs : IsCustom(custom)

VARIABLES request, configs, plan

planning == <<request, configs, plan>>

Requests ==
  {r \in [flow : Flows, framework : Frameworks, targets : SUBSET Formats,
          device : Devices, custom : Customs, runners : Selections, batching : Batching,
          trtProfile : BOOLEAN] :
     /\ r.targets # {} /\ r.targets \subseteq AvailableTargetFormats[r.framework]
     \* _get_builders of api/package.py refuses packages of plain Python.
     /\ r.flow = "package_optimize" => r.framework # "none"}

Settings(r) ==
  [framework |-> r.framework, device |-> r.device, batching |-> r.batching,
   trtProfile |-> r.trtProfile, runners |-> r.runners]

Lists(r) ==
  GenerateModelConfig(r.framework,
    IF r.flow = "optimize" THEN OptimizeTargets(r.framework, r.targets) ELSE r.targets,
    r.custom)

PlanOf(r) ==
  CASE r.flow = "optimize"         -> OptimizePlan(Lists(r), Settings(r))
    [] r.flow = "package_optimize" -> PackageOptimizePlan(Lists(r), Settings(r))
    [] r.flow = "package_profile"  -> PackageProfilePlan(Lists(r), Settings(r))

Requested ==
  /\ request \in Requests
  /\ configs = <<>>
  /\ plan = <<>>

\* generate_model_config, then PipelineManager._build_pipelines.
BuildPipelines ==
  /\ configs = <<>> /\ plan = <<>>
  /\ configs' = AllConfigs(Lists(request))
  /\ plan' = PlanOf(request)
  /\ UNCHANGED request

Planning == Requested /\ [][BuildPipelines]_planning

-----------------------------------------------------------------------------
Configured == {configs[i] : i \in DOMAIN configs}

\* The units that write the file of a model.
MakersOf(key) == {i \in DOMAIN plan : plan[i].model = key /\ plan[i].command \in Makers}

SameUnit(u, v) == u.command = v.command /\ u.model = v.model /\ u.runner = v.runner

\* No two units of a run share the place their status is recorded at, so that
\* none is overwritten, and no two configurations share a directory
\* (ModelConfig.key, PipelineContext.update).
NothingIsOverwritten ==
  /\ \A i, j \in DOMAIN plan : SameUnit(plan[i], plan[j]) => i = j
  /\ \A i, j \in DOMAIN configs : Key(configs[i]) = Key(configs[j]) => i = j

\* Every model with a parent finds it among the configurations, and when both
\* are made in the run the parent is made first.
ParentsAreMadeFirst ==
  \A c \in Configured : c.parent # NullModel =>
    /\ c.parent \in {Key(d) : d \in Configured}
    /\ \A i \in MakersOf(Key(c)), j \in MakersOf(c.parent) : j < i

\* A run from the source makes every model it evaluates, exactly once and
\* before it evaluates it; a run on a package makes no model twice.
EvaluatedModelsAreMade ==
  \A i \in DOMAIN plan :
    plan[i].command \in Evaluators /\ plan[i].model[1] \notin SourceFormats =>
      LET makers == MakersOf(plan[i].model)
      IN /\ request.flow = "optimize" => Cardinality(makers) = 1
         /\ Cardinality(makers) <= 1
         /\ \A j \in makers : j < i

\* Verification comes after the commands it requires, for each model and runner
\* that is verified (requires= of VerifyModel).
RequirementsComeFirst ==
  \A i \in DOMAIN plan : \A c \in Requires(plan[i].command) :
    \E j \in 1..(i - 1) :
      SameUnit(plan[j], [plan[i] EXCEPT !.command = c])

\* Every mandatory argument of every unit is a setting, an option of its model
\* or an output of a required unit that ran before, whose outputs it is given;
\* the optional commands may all fail.  And no argument has two of these sources,
\* also if all commands succeed (Command.run, command_args).
NeedsAreProvided ==
  \A i \in DOMAIN plan :
    LET u == plan[i]
        options == (IF u.model = NullModel THEN {} ELSE FormatArgs(u.model[1]))
                   \cup (IF u.runner = NullRunner THEN {} ELSE {"runner_cls"})
        given == ConfigArgs \cup u.kwargs \cup options
        sources == {j \in 1..(i - 1) :
                      \/ plan[j].model = NullModel
                      \/ plan[j].model = u.model /\ plan[j].runner \in {NullRunner, u.runner}}
    IN /\ u.kwargs \cap ConfigArgs = {} /\ options \cap (ConfigArgs \cup u.kwargs) = {}
       /\ \A j \in sources : Outputs[plan[j].command] \cap given = {}
       /\ \A j, k \in sources :
            j # k => Outputs[plan[j].command] \cap Outputs[plan[k].command] = {}
       /\ Needs[u.command] \subseteq
            given \cup UNION {Outputs[plan[j].command] :
                              j \in {k \in sources : plan[k].command \in Required}}

\* The device's batch size is searched for after every export it may load and
\* before every conversion that uses it.
SearchComesBetween ==
  \A i, j \in DOMAIN plan :
    plan[i].command = "FindMaxBatchSize" =>
      /\ plan[j].command \in Exporters => j < i
      /\ plan[j].command \in Converters => i < j

\* "Generates all valid checkpoint configurations that can be exported and
\* converted."
EveryTargetIsConfigured ==
  configs # <<>> =>
    \A f \in request.targets : \E c \in Configured : c.format = f
=============================================================================
