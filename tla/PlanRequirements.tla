-------------------------- MODULE PlanRequirements --------------------------
(***************************************************************************)
(* What PipelineManager relies on in the plan it runs, and what generate_  *)
(* model_config and the builders see to: the code checks none of it.       *)
(* PipelineExecution assumes it of its plan; PipelineProofs proves it of   *)
(* every plan PipelinePlanning builds.                                     *)
(***************************************************************************)
EXTENDS CommandCatalog, Naturals

CONSTANTS
  Plan,           \* the execution units of all pipelines, in order
  Models,         \* keys of the model configurations
  Runners,        \* names of the runners
  NoModel,        \* model_config=None
  NoRunner,       \* runner_cls=None
  FormatOf,       \* format of each model configuration
  ParentOf        \* parent_key of each model configuration, NoModel if None

\* The arguments a unit can be given by keyword: mandatory ones of its command
\* that no setting has.
Keywords == (UNION {Needs[c] : c \in Commands}) \ ConfigArgs

\* ExecutionUnit refuses a runner without a model.
Units ==
  {u \in [command : Commands, model : Models \cup {NoModel},
          runner : Runners \cup {NoRunner}, kwargs : SUBSET Keywords] :
     u.model = NoModel => u.runner = NoRunner}

PlanIsTyped ==
  /\ Plan \in Seq(Units)
  /\ NoModel \notin Models
  /\ NoRunner \notin Runners

ModelsAreTyped ==
  /\ FormatOf \in [Models -> Formats]
  /\ ParentOf \in [Models -> Models \cup {NoModel}]

\* Where a unit's status is kept in models_commands, runners_commands, commands.
Id(u) == <<u.model, u.runner, u.command>>

\* No unit that another one requires comes after it in the plan.
RequirementsAreOrdered ==
  \A i, j \in DOMAIN Plan :
    /\ Plan[j].command \in Requires(Plan[i].command)
    /\ Plan[j].model = Plan[i].model
    /\ Plan[j].runner = Plan[i].runner
    => j < i

\* A model is made by one unit, before it is evaluated.
ModelsAreMadeOnce ==
  \A i \in DOMAIN Plan : Plan[i].command \in Makers =>
    /\ Plan[i].model # NoModel
    /\ \A j \in DOMAIN Plan : Plan[j].model = Plan[i].model =>
         /\ Plan[j].command \in Makers => j = i
         /\ Plan[j].command \in Evaluators => i < j

ModelArgs(u) ==
  IF u.model = NoModel THEN {} ELSE
    FormatArgs(FormatOf[u.model])
    \cup (IF u.runner = NoRunner THEN {} ELSE {"runner_cls"})

\* What the settings and the model configuration give a unit.
Given(u) == ConfigArgs \cup u.kwargs \cup ModelArgs(u)

\* Units before the i-th whose outputs it is given if they succeed.
Sources(i) ==
  {j \in 1..(i - 1) : \/ Plan[j].model = NoModel
                      \/ /\ Plan[j].model = Plan[i].model
                         /\ Plan[j].runner \in {NoRunner, Plan[i].runner}}

\* No argument of a unit has two sources, and what is mandatory comes from the
\* settings or from a required command.
ArgumentsHaveOneSource ==
  \A i \in DOMAIN Plan :
    LET u == Plan[i] IN
    /\ u.kwargs \cap ConfigArgs = {} /\ ModelArgs(u) \cap (ConfigArgs \cup u.kwargs) = {}
    /\ \A j \in Sources(i) :
         /\ Outputs[Plan[j].command] \cap Given(u) = {}
         /\ \A k \in Sources(i) : Id(Plan[k]) # Id(Plan[j]) =>
              Outputs[Plan[j].command] \cap Outputs[Plan[k].command] = {}
    /\ Needs[u.command] \subseteq
         Given(u) \cup UNION {Outputs[Plan[j].command] :
                               j \in {k \in Sources(i) : Plan[k].command \in Required}}
=============================================================================
