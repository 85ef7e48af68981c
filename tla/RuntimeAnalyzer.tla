--------------------------- MODULE RuntimeAnalyzer ---------------------------
(***************************************************************************)
(* RuntimeAnalyzer.get_runtime: which model and runner of a package is     *)
(* chosen for a search strategy.  The loops over the models, their runners *)
(* and their profiling results are recursive functions of the number of    *)
(* turns; what they should find is stated with sets and quantifiers in the *)
(* properties.                                                             *)
(*                                                                         *)
(* An entry is one runner status of one model status, in iteration order:  *)
(*   [model, format, runner, correctness, performance : statuses,          *)
(*    results : a sequence of [latency, throughput]]                       *)
(* results is empty unless performance is OK.                              *)
(*                                                                         *)
(* A definition introduced by "Fault" is a plausible bug in the definition *)
(* after it, with which TLC refutes the property named; nothing uses it.   *)
(***************************************************************************)
EXTENDS Integers, Sequences

CONSTANTS
  Packages,   \* sequences of entries
  Strategies  \* [kind, budget, formats, runners, model, runner] to ask with

Kinds ==
  {"MinLatency", "MaxThroughput", "MaxThroughputAndMinLatency",
   "MaxThroughputWithLatencyBudget", "SelectedRuntime"}

ASSUME AnalyzerAssumption ==
  /\ \A package \in Packages :
       /\ Len(package) \in Nat /\ DOMAIN package = 1 .. Len(package)
       /\ \A i \in DOMAIN package : package[i].results \in Seq([latency : Int, throughput : Int])
  /\ \A asked \in Strategies : asked.kind \in Kinds /\ asked.budget \in Int

VARIABLES entries, strategy, answer

vars == <<entries, strategy, answer>>

None == [kind |-> "none"]
AnalyzerError == [kind |-> "ModelNavigatorRuntimeAnalyzerError"]
OtherError == [kind |-> "KeyError"]

Result(entry, perf) ==
  [kind |-> "result", latency |-> perf.latency, throughput |-> perf.throughput,
   model |-> entry.model, runner |-> entry.runner]

\* Fault (MinLatencyIsMinimal): correctness is not looked at.
ConsideredIfFast(entry, asked) ==
  /\ entry.format \in asked.formats
  /\ entry.runner \in asked.runners
  /\ entry.performance = "OK"

\* The formats and runners filters, and both commands recorded OK.
Considered(entry, asked) ==
  /\ entry.format \in asked.formats
  /\ entry.runner \in asked.runners
  /\ entry.correctness = "OK" /\ entry.performance = "OK"

Faster(p, q) == p.latency < q.latency

\* Fault (MaxThroughputIsMaximal): the comparison is the one of latencies.
BusierByLatency(p, q) == p.throughput < q.throughput

Busier(p, q) == p.throughput > q.throughput

Better(aim, p, q) == IF aim = "latency" THEN Faster(p, q) ELSE Busier(p, q)

\* A loop that keeps what is strictly better than everything before it.
FirstBest(aim, found) ==
  LET best[n \in 0 .. Len(found)] ==
        IF n = 0 THEN None
        ELSE IF found[n] # None /\ (best[n - 1] = None \/ Better(aim, found[n], best[n - 1]))
        THEN found[n] ELSE best[n - 1]
  IN best[Len(found)]

\* The loop over the profiling results of one runner.
BestOfRunner(aim, limited, entry, asked) ==
  FirstBest(aim, [j \in DOMAIN entry.results |->
                    IF limited => entry.results[j].latency <= asked.budget
                    THEN Result(entry, entry.results[j]) ELSE None])

\* The loop over models and runners.
BestRuntime(aim, limited, asked) ==
  FirstBest(aim, [i \in DOMAIN entries |->
                    IF Considered(entries[i], asked)
                    THEN BestOfRunner(aim, limited, entries[i], asked) ELSE None])

GetMinLatencyRuntime(asked) == BestRuntime("latency", FALSE, asked)

GetMaxThroughputRuntime(asked) == BestRuntime("throughput", FALSE, asked)

\* Fault (BudgetIsRespected): the budget is checked on the best runtime only.
GetMaxThroughputRuntimeThenBudget(asked) ==
  LET best == GetMaxThroughputRuntime(asked)
  IN IF best # None /\ best.latency <= asked.budget THEN best ELSE None

GetMaxThroughputRuntimeWithBudget(asked) == BestRuntime("throughput", TRUE, asked)

OrError(found) == IF found = None THEN AnalyzerError ELSE found

\* Fault (CombinedReachesBoth): the runners are not compared.
GetMaxThroughputModelMinLatencyModel(asked) ==
  LET fast == GetMinLatencyRuntime(asked)
      busy == GetMaxThroughputRuntime(asked)
  IN IF fast # None /\ busy # None /\ fast.model = busy.model
     THEN fast ELSE AnalyzerError

\* Both searches must end at the same model path and runner.
GetMaxThroughputRuntimeMinLatencyRuntime(asked) ==
  LET fast == GetMinLatencyRuntime(asked)
      busy == GetMaxThroughputRuntime(asked)
  IN IF fast # None /\ busy # None
        /\ fast.model = busy.model /\ fast.runner = busy.runner
     THEN fast ELSE AnalyzerError

\* No status is looked at; result["Performance"] exists only for an output.
GetSelectedRuntime(asked) ==
  LET chosen == {i \in DOMAIN entries : /\ entries[i].model = asked.model
                                        /\ entries[i].runner = asked.runner}
  IN IF chosen = {} THEN AnalyzerError ELSE
       LET entry == entries[CHOOSE i \in chosen : TRUE]
       IN IF entry.performance # "OK" THEN OtherError
          ELSE IF entry.results = <<>> THEN AnalyzerError
          ELSE Result(entry, entry.results[Len(entry.results)])

Init ==
  /\ entries \in Packages
  /\ strategy \in Strategies
  /\ answer = None

\* get_runtime dispatches on the class of the strategy.
RuntimeFor(asked) ==
  CASE asked.kind = "MinLatency"    -> OrError(GetMinLatencyRuntime(asked))
    [] asked.kind = "MaxThroughput" -> OrError(GetMaxThroughputRuntime(asked))
    [] asked.kind = "MaxThroughputAndMinLatency" ->
         GetMaxThroughputRuntimeMinLatencyRuntime(asked)
    [] asked.kind = "MaxThroughputWithLatencyBudget" ->
         OrError(GetMaxThroughputRuntimeWithBudget(asked))
    [] asked.kind = "SelectedRuntime" -> GetSelectedRuntime(asked)

GetRuntime ==
  /\ answer = None
  /\ answer' = RuntimeFor(strategy)
  /\ UNCHANGED <<entries, strategy>>

Next == GetRuntime

Spec == Init /\ [][Next]_vars

-----------------------------------------------------------------------------
\* Every measurement the strategy may choose from, with its model and runner:
\* of the formats and runners asked for, correct and measured.
Candidates ==
  LET Eligible == {i \in DOMAIN entries :
                     /\ entries[i].format \in strategy.formats
                     /\ entries[i].runner \in strategy.runners
                     /\ {entries[i].correctness, entries[i].performance} = {"OK"}}
  IN UNION {{Result(entries[i], entries[i].results[j]) : j \in DOMAIN entries[i].results} :
            i \in Eligible}

WithinBudget == {c \in Candidates : c.latency <= strategy.budget}

Fastest(S) == {c \in S : \A d \in S : c.latency <= d.latency}
Busiest(S) == {c \in S : \A d \in S : c.throughput >= d.throughput}

AskedFor(kind) == strategy.kind = kind /\ answer # None

\* The chosen runtime has the lowest latency of all runtimes that passed both
\* correctness and performance, its throughput is the one measured with that
\* latency, and an error means there is no such runtime.
MinLatencyIsMinimal ==
  AskedFor("MinLatency") =>
    IF Candidates = {} THEN answer = AnalyzerError ELSE answer \in Fastest(Candidates)

\* The same for the highest throughput.
MaxThroughputIsMaximal ==
  AskedFor("MaxThroughput") =>
    IF Candidates = {} THEN answer = AnalyzerError ELSE answer \in Busiest(Candidates)

\* Within a latency budget: the latency reported is the one of the measurement
\* whose throughput is reported, it is within the budget, and no measurement
\* within the budget is better.
BudgetIsRespected ==
  AskedFor("MaxThroughputWithLatencyBudget") =>
    IF WithinBudget = {} THEN answer = AnalyzerError ELSE answer \in Busiest(WithinBudget)

\* The runtime chosen for both aims reaches the lowest latency and, maybe at
\* another batch size, the highest throughput.
CombinedReachesBoth ==
  AskedFor("MaxThroughputAndMinLatency") /\ answer # AnalyzerError =>
    /\ answer \in Fastest(Candidates)
    /\ \E c \in Busiest(Candidates) : c.model = answer.model /\ c.runner = answer.runner

\* "If model with given strategy cannot be found, search is repeated with
\* MaxThroughputStrategy."
FallsBackToMaxThroughput ==
  answer = AnalyzerError /\ strategy.kind # "SelectedRuntime" => Candidates = {}

\* "Raises: ModelNavigatorRuntimeAnalyzerError: When no runtime satisfies the
\* strategy requirements."
OnlyAnalyzerErrors == answer # OtherError
=============================================================================
