----------------------- MODULE RuntimeAnalyzerProofs -----------------------
(***************************************************************************)
(* What the analyzer chooses, for every package and every strategy.        *)
(*                                                                         *)
(* Everything rests on the loop that keeps the first best (FirstBest).     *)
(* It is a recursive function of the number of turns, so its facts are     *)
(* facts for all numbers of turns: where one fails there is a least number *)
(* of turns for which it fails (LeastElement), and the turn before it      *)
(* leads to a contradiction.                                               *)
(***************************************************************************)
EXTENDS RuntimeAnalyzer, WellFoundedInduction, TLAPS

\* A set of natural numbers that is not empty has a least element.
LEMMA LeastElement ==
    ASSUME NEW T \in SUBSET Nat, T # {}
    PROVE  \E m \in T : \A k \in T : m <= k
<1>1. PICK m \in T : \A k \in Nat : <<k, m>> \in OpToRel(<, Nat) => k \notin T
  BY NatLessThanWellFounded, WFMin
<1>2. \A k \in Nat : k < m => <<k, m>> \in OpToRel(<, Nat)
  BY DEF OpToRel
<1>3. \A k \in T : ~(k < m)
  BY <1>1, <1>2, Zenon
<1> QED
  BY <1>3

\* What holds before the first turn and is kept by every turn holds after all.
LEMMA EveryTurn ==
    ASSUME NEW N \in Nat, NEW T \in SUBSET (0 .. N), 0 \in T,
           \A n \in 1 .. N : n - 1 \in T => n \in T
    PROVE  T = 0 .. N
<1> SUFFICES ASSUME (0 .. N) \ T # {}
             PROVE  FALSE
  OBVIOUS
<1>1. PICK m \in (0 .. N) \ T : \A k \in (0 .. N) \ T : m <= k
  <2>1. (0 .. N) \ T \in SUBSET Nat
    OBVIOUS
  <2> QED
    BY <2>1, LeastElement
<1>2. m \in 1 .. N /\ m - 1 \in 0 .. N /\ ~(m <= m - 1)
  BY <1>1
<1>3. m - 1 \in T
  BY <1>1, <1>2
<1> QED
  BY <1>1, <1>2, <1>3

\* f holds the values of a loop of m turns.
IsLoop(f, m, start, turn) ==
    f = [n \in 0 .. m |-> IF n = 0 THEN start ELSE turn[<<n, f[n - 1]>>]]

LEMMA LoopExists ==
    ASSUME NEW N \in Nat, NEW S, NEW start \in S, NEW turn \in [(1 .. N) \X S -> S]
    PROVE  \E f \in [0 .. N -> S] : IsLoop(f, N, start, turn)
<1> DEFINE T == {m \in 0 .. N : \E f \in [0 .. m -> S] : IsLoop(f, m, start, turn)}
<1>1. 0 \in T
  <2> DEFINE f == [n \in 0 .. 0 |-> start]
  <2>1. f \in [0 .. 0 -> S]
    OBVIOUS
  <2>2. IsLoop(f, 0, start, turn)
    BY DEF IsLoop
  <2> HIDE DEF f
  <2> QED
    BY <2>1, <2>2
<1>2. ASSUME NEW m \in 1 .. N, m - 1 \in T
      PROVE  m \in T
  <2>1. PICK f \in [0 .. m - 1 -> S] : IsLoop(f, m - 1, start, turn)
    BY <1>2
  <2> DEFINE g == [n \in 0 .. m |-> IF n = m THEN turn[<<m, f[m - 1]>>] ELSE f[n]]
  <2>2. f[m - 1] \in S
    BY <2>1
  <2>3. turn[<<m, f[m - 1]>>] \in S
    BY <2>2
  <2>4. g \in [0 .. m -> S]
    BY <2>1, <2>3
  <2>5. \A n \in 0 .. m - 1 : g[n] = f[n] /\ f[n] = IF n = 0 THEN start ELSE turn[<<n, f[n - 1]>>]
    BY <2>1 DEF IsLoop
  <2>6. g[m] = turn[<<m, g[m - 1]>>]
    <3>1. m - 1 \in 0 .. m - 1
      OBVIOUS
    <3>2. g[m - 1] = f[m - 1]
      BY <2>5, <3>1
    <3>3. g[m] = turn[<<m, f[m - 1]>>]
      OBVIOUS
    <3> HIDE DEF g
    <3> QED
      BY <3>2, <3>3
  <2>7. \A n \in 1 .. m - 1 : g[n - 1] = f[n - 1]
    BY <2>5
  <2>8. g = [n \in 0 .. m |-> g[n]]
    BY <2>4
  <2> HIDE DEF g
  <2>9. \A n \in 0 .. m : g[n] = IF n = 0 THEN start ELSE turn[<<n, g[n - 1]>>]
    <3> SUFFICES ASSUME NEW n \in 0 .. m
                 PROVE  g[n] = IF n = 0 THEN start ELSE turn[<<n, g[n - 1]>>]
      OBVIOUS
    <3>1. CASE n = m
      BY <2>6, <3>1
    <3>2. CASE n = 0
      <4>1. 0 \in 0 .. m - 1
        OBVIOUS
      <4>2. g[0] = start
        BY <2>5, <4>1
      <4> QED
        BY <3>2, <4>2
    <3>3. CASE n \in 1 .. m - 1
      BY <2>5, <2>7, <3>3
    <3> QED
      BY <3>1, <3>2, <3>3
  <2>10. IsLoop(g, m, start, turn)
    BY <2>8, <2>9 DEF IsLoop
  <2> QED
    BY <2>4, <2>10
<1>3. T = 0 .. N
  <2> HIDE DEF T
  <2>1. T \in SUBSET (0 .. N)
    BY DEF T
  <2> QED
    BY <1>1, <1>2, <2>1, EveryTurn
<1> QED
  BY <1>3

----------------------------------------------------------------------------
(* The loop that keeps the first best *)

Aims == {"latency", "throughput"}

\* A candidate, or none.
IsFound(c) == c # None => c.latency \in Int /\ c.throughput \in Int

\* best is the best of the candidates up to the n-th.
BestUpTo(aim, found, n, best) ==
    /\ best # None => \E i \in 1 .. n : found[i] = best
    /\ \A i \in 1 .. n : found[i] # None => best # None /\ ~Better(aim, found[i], best)

LEMMA FirstBestIsBest ==
    ASSUME NEW aim \in Aims, NEW found, NEW N \in Nat, Len(found) = N, DOMAIN found = 1 .. N,
           \A i \in 1 .. N : IsFound(found[i])
    PROVE  BestUpTo(aim, found, N, FirstBest(aim, found))
<1> DEFINE S == {None} \cup {found[i] : i \in 1 .. N}
           keep(n, b) == IF found[n] # None /\ (b = None \/ Better(aim, found[n], b))
                         THEN found[n] ELSE b
           turn == [t \in (1 .. N) \X S |-> keep(t[1], t[2])]
           best[n \in 0 .. N] == IF n = 0 THEN None ELSE keep(n, best[n - 1])
<1>1. FirstBest(aim, found) = best[N]
  BY DEF FirstBest
<1>2. turn \in [(1 .. N) \X S -> S]
  OBVIOUS
<1>3. PICK f \in [0 .. N -> S] : IsLoop(f, N, None, turn)
  <2>1. None \in S
    OBVIOUS
  <2> HIDE DEF S, turn, keep, best
  <2> QED
    BY <1>2, <2>1, LoopExists
<1>4. f = [n \in 0 .. N |-> IF n = 0 THEN None ELSE keep(n, f[n - 1])]
  <2>1. \A n \in 1 .. N : turn[<<n, f[n - 1]>>] = keep(n, f[n - 1])
    <3> SUFFICES ASSUME NEW n \in 1 .. N
                 PROVE  turn[<<n, f[n - 1]>>] = keep(n, f[n - 1])
      OBVIOUS
    <3>1. n - 1 \in 0 .. N
      OBVIOUS
    <3>2. f[n - 1] \in S
      <4> HIDE DEF S
      <4> QED
        BY <1>3, <3>1
    <3> HIDE DEF S
    <3>3. <<n, f[n - 1]>> \in (1 .. N) \X S
      BY <3>2
    <3> HIDE DEF keep
    <3> QED
      BY <3>3
  <2> HIDE DEF turn, keep, S, best
  <2>2. \A n \in 0 .. N : f[n] = IF n = 0 THEN None ELSE turn[<<n, f[n - 1]>>]
    BY <1>3 DEF IsLoop
  <2>3. \A n \in 0 .. N : f[n] = IF n = 0 THEN None ELSE keep(n, f[n - 1])
    <3> SUFFICES ASSUME NEW n \in 0 .. N
                 PROVE  f[n] = IF n = 0 THEN None ELSE keep(n, f[n - 1])
      OBVIOUS
    <3>1. CASE n = 0
      BY <2>2, <3>1
    <3>2. CASE n \in 1 .. N
      <4>1. f[n] = turn[<<n, f[n - 1]>>] /\ turn[<<n, f[n - 1]>>] = keep(n, f[n - 1]) /\ n # 0
        BY <2>1, <2>2, <3>2
      <4> QED
        BY <4>1, Zenon
    <3> QED
      BY <3>1, <3>2
  <2> QED
    BY <1>3, <2>3
<1>5. best = [n \in 0 .. N |-> IF n = 0 THEN None ELSE keep(n, best[n - 1])]
  <2> HIDE DEF keep, S, turn
  <2> QED
    BY <1>4 DEF best
<1> HIDE DEF best
<1> DEFINE T == {n \in 0 .. N : BestUpTo(aim, found, n, best[n])}
<1>6. 0 \in T
  BY <1>5 DEF BestUpTo
<1>7. ASSUME NEW n \in 1 .. N, n - 1 \in T
      PROVE  n \in T
  <2> DEFINE b == best[n - 1]
  <2>1. best[n] = keep(n, b)
    BY <1>5
  <2>2. BestUpTo(aim, found, n - 1, b)
    BY <1>7
  <2>3. \A i \in 1 .. n : i \in 1 .. n - 1 \/ i = n
    OBVIOUS
  <2>4. b # None => IsFound(b)
    BY <2>2 DEF BestUpTo
  <2> HIDE DEF b
  <2>5. BestUpTo(aim, found, n, keep(n, b))
    BY <2>2, <2>3, <2>4 DEF BestUpTo, Better, Faster, Busier, IsFound
  <2> QED
    BY <2>1, <2>5
<1>8. T = 0 .. N
  <2> HIDE DEF T
  <2>1. T \in SUBSET (0 .. N)
    BY DEF T
  <2> QED
    BY <1>6, <1>7, <2>1, EveryTurn
<1> QED
  BY <1>1, <1>8

----------------------------------------------------------------------------
(* The loops over runners and models *)

\* What a search with or without the budget may choose from.
Choices(limited) == {c \in Candidates : limited => c.latency <= strategy.budget}

LEMMA Measured ==
    ASSUME entries \in Packages, NEW i \in DOMAIN entries
    PROVE  /\ Len(entries[i].results) \in Nat
           /\ DOMAIN entries[i].results = 1 .. Len(entries[i].results)
           /\ \A j \in DOMAIN entries[i].results :
                 /\ entries[i].results[j].latency \in Int
                 /\ entries[i].results[j].throughput \in Int
<1> DEFINE results == entries[i].results
<1>1. results \in Seq([latency : Int, throughput : Int])
  BY AnalyzerAssumption DEF AnalyzerAssumption
<1> DEFINE S == [latency : Int, throughput : Int]
<1>2. results \in Seq(S)
  BY <1>1
<1> HIDE DEF results, S
<1>3. /\ Len(results) \in Nat /\ DOMAIN results = 1 .. Len(results)
      /\ \A j \in DOMAIN results : results[j] \in S
  BY <1>2
<1>4. \A j \in DOMAIN results : results[j].latency \in Int /\ results[j].throughput \in Int
  BY <1>3 DEF S
<1> QED
  BY <1>3, <1>4 DEF results

\* The best result of one runner.
LEMMA RunnersBest ==
    ASSUME entries \in Packages, strategy \in Strategies, NEW i \in DOMAIN entries,
           NEW aim \in Aims, NEW limited \in BOOLEAN
    PROVE  LET entry == entries[i]
               allowed == {j \in DOMAIN entry.results :
                              limited => entry.results[j].latency <= strategy.budget}
               best == BestOfRunner(aim, limited, entry, strategy)
           IN /\ IsFound(best)
              /\ best # None => \E j \in allowed : best = Result(entry, entry.results[j])
              /\ \A j \in allowed : /\ best # None
                                    /\ ~Better(aim, Result(entry, entry.results[j]), best)
<1> DEFINE entry == entries[i]
           n == Len(entry.results)
           may(j) == limited => entry.results[j].latency <= strategy.budget
           found == [j \in DOMAIN entry.results |->
                       IF may(j) THEN Result(entry, entry.results[j]) ELSE None]
           best == BestOfRunner(aim, limited, entry, strategy)
<1>1. n \in Nat /\ DOMAIN entry.results = 1 .. n
  BY Measured
<1>2. \A j \in 1 .. n : entry.results[j].latency \in Int /\ entry.results[j].throughput \in Int
  BY <1>1, Measured
<1> HIDE DEF n
<1>3. DOMAIN found = 1 .. n /\ Len(found) = n
  BY <1>1
<1>4. \A j : /\ Result(entry, entry.results[j]) # None
             /\ Result(entry, entry.results[j]).latency = entry.results[j].latency
             /\ Result(entry, entry.results[j]).throughput = entry.results[j].throughput
  BY DEF Result, None
<1>5. \A j \in 1 .. n : /\ found[j] = IF may(j) THEN Result(entry, entry.results[j]) ELSE None
                        /\ may(j) <=> found[j] # None
                        /\ IsFound(found[j])
  BY <1>1, <1>2, <1>4 DEF IsFound
<1>6. best = FirstBest(aim, found)
  BY DEF BestOfRunner
<1> HIDE DEF found, best, may, entry
<1>7. BestUpTo(aim, found, n, best)
  BY <1>1, <1>3, <1>5, <1>6, FirstBestIsBest
<1>8. best # None => \E j \in 1 .. n : may(j) /\ best = Result(entry, entry.results[j])
  BY <1>5, <1>7 DEF BestUpTo
<1>9. \A j \in 1 .. n : may(j) => best # None /\ ~Better(aim, Result(entry, entry.results[j]), best)
  BY <1>5, <1>7 DEF BestUpTo
<1>10. IsFound(best)
  BY <1>2, <1>4, <1>8 DEF IsFound
<1> QED
  BY <1>1, <1>8, <1>9, <1>10 DEF may, best, entry

\* The best runtime is the best of everything the search may choose from.
LEMMA BestOfChoices ==
    ASSUME entries \in Packages, strategy \in Strategies,
           NEW aim \in Aims, NEW limited \in BOOLEAN
    PROVE  LET best == BestRuntime(aim, limited, strategy)
           IN /\ best # None => best \in Choices(limited)
              /\ \A c \in Choices(limited) : best # None /\ ~Better(aim, c, best)
<1> DEFINE N == Len(entries)
           runners(i) == BestOfRunner(aim, limited, entries[i], strategy)
           found == [i \in DOMAIN entries |->
                       IF Considered(entries[i], strategy) THEN runners(i) ELSE None]
           best == BestRuntime(aim, limited, strategy)
           allowed(i) == {j \in DOMAIN entries[i].results :
                             limited => entries[i].results[j].latency <= strategy.budget}
<1>1. N \in Nat /\ DOMAIN entries = 1 .. N
  BY AnalyzerAssumption DEF AnalyzerAssumption
<1> HIDE DEF N
<1>2. \A i \in 1 .. N :
         /\ IsFound(runners(i))
         /\ runners(i) # None =>
               \E j \in allowed(i) : runners(i) = Result(entries[i], entries[i].results[j])
         /\ \A j \in allowed(i) :
               /\ runners(i) # None
               /\ ~Better(aim, Result(entries[i], entries[i].results[j]), runners(i))
  BY <1>1, RunnersBest
<1>3. \A c : c \in Choices(limited) <=>
         \E i \in 1 .. N : /\ Considered(entries[i], strategy)
                           /\ \E j \in allowed(i) : c = Result(entries[i], entries[i].results[j])
  <2>1. \A i \in 1 .. N : Considered(entries[i], strategy) <=>
           /\ entries[i].format \in strategy.formats /\ entries[i].runner \in strategy.runners
           /\ {entries[i].correctness, entries[i].performance} = {"OK"}
    BY DEF Considered
  <2>2. \A i \in 1 .. N : \A j : Result(entries[i], entries[i].results[j]).latency =
                                 entries[i].results[j].latency
    BY DEF Result
  <2> SUFFICES ASSUME NEW c
               PROVE  c \in Choices(limited) <=>
                        \E i \in 1 .. N :
                           /\ Considered(entries[i], strategy)
                           /\ \E j \in allowed(i) : c = Result(entries[i], entries[i].results[j])
    OBVIOUS
  <2>3. c \in Candidates <=>
           \E i \in 1 .. N : /\ Considered(entries[i], strategy)
                             /\ \E j \in DOMAIN entries[i].results :
                                   c = Result(entries[i], entries[i].results[j])
    <3> DEFINE Eligible == {i \in DOMAIN entries : Considered(entries[i], strategy)}
    <3>1. Candidates = UNION {{Result(entries[i], entries[i].results[j]) :
                                 j \in DOMAIN entries[i].results} : i \in Eligible}
      BY <1>1, <2>1 DEF Candidates
    <3>2. \A i : i \in Eligible <=> i \in 1 .. N /\ Considered(entries[i], strategy)
      BY <1>1
    <3> HIDE DEF Eligible
    <3> QED
      BY <3>1, <3>2
  <2> QED
    BY <2>2, <2>3 DEF Choices
<1>4. DOMAIN found = 1 .. N /\ Len(found) = N
  BY <1>1, <1>2
<1>5. best = FirstBest(aim, found)
  BY DEF BestRuntime
<1>6. \A i \in 1 .. N : /\ found[i] = IF Considered(entries[i], strategy) THEN runners(i) ELSE None
                        /\ IsFound(found[i])
  BY <1>1, <1>2 DEF IsFound
<1> HIDE DEF found, best, runners, allowed
<1>7. BestUpTo(aim, found, N, best)
  BY  <1>4, <1>5, <1>6, FirstBestIsBest
<1>8. best # None => best \in Choices(limited)
  BY <1>2, <1>3, <1>6, <1>7 DEF BestUpTo
<1>9. ASSUME NEW c \in Choices(limited)
      PROVE  best # None /\ ~Better(aim, c, best)
  <2>1. PICK i \in 1 .. N : /\ Considered(entries[i], strategy)
                            /\ \E j \in allowed(i) : c = Result(entries[i], entries[i].results[j])
    BY <1>3
  <2>2. runners(i) # None /\ IsFound(runners(i)) /\ ~Better(aim, c, runners(i))
    BY <1>2, <2>1
  <2>3. best # None /\ ~Better(aim, runners(i), best) /\ IsFound(best)
    BY <1>6, <1>7, <2>1, <2>2 DEF BestUpTo
  <2>4. IsFound(c)
    <3>1. PICK j \in DOMAIN entries[i].results : c = Result(entries[i], entries[i].results[j])
      BY <2>1 DEF allowed
    <3> QED
      BY <1>1, <3>1, Measured DEF IsFound, Result
  <2>5. c # None
    BY <2>1 DEF Result, None
  <2> QED
    BY <2>2, <2>3, <2>4, <2>5 DEF Better, Faster, Busier, IsFound
<1> QED
  BY <1>8, <1>9 DEF best

----------------------------------------------------------------------------
(* The strategies *)

AnswerInv ==
    /\ entries \in Packages /\ strategy \in Strategies
    /\ answer = None \/ answer = RuntimeFor(strategy)

THEOREM AnswerInvariance == Spec => []AnswerInv
<1>1. Init => AnswerInv
  BY DEF Init, AnswerInv
<1>2. AnswerInv /\ [Next]_vars => AnswerInv'
  <2> SUFFICES ASSUME AnswerInv, [Next]_vars
               PROVE  AnswerInv'
    OBVIOUS
  <2>1. UNCHANGED <<entries, strategy>> /\ (answer' = answer \/ answer' = RuntimeFor(strategy))
    BY DEF Next, GetRuntime, vars
  <2>2. RuntimeFor(strategy)' = RuntimeFor(strategy)
    BY <2>1 DEF RuntimeFor, GetMinLatencyRuntime, GetMaxThroughputRuntime, BestRuntime,
                GetMaxThroughputRuntimeMinLatencyRuntime, GetMaxThroughputRuntimeWithBudget,
                GetSelectedRuntime
  <2> QED
    BY <2>1, <2>2 DEF AnswerInv
<1> QED
  BY <1>1, <1>2, PTL DEF Spec

LEMMA Kind ==
    ASSUME strategy \in Strategies
    PROVE  /\ strategy.budget \in Int
           /\ strategy.kind = "MinLatency" =>
                 RuntimeFor(strategy) = OrError(GetMinLatencyRuntime(strategy))
           /\ strategy.kind = "MaxThroughput" =>
                 RuntimeFor(strategy) = OrError(GetMaxThroughputRuntime(strategy))
           /\ strategy.kind = "MaxThroughputAndMinLatency" =>
                 RuntimeFor(strategy) = GetMaxThroughputRuntimeMinLatencyRuntime(strategy)
           /\ strategy.kind = "MaxThroughputWithLatencyBudget" =>
                 RuntimeFor(strategy) = OrError(GetMaxThroughputRuntimeWithBudget(strategy))
BY AnalyzerAssumption DEF AnalyzerAssumption, RuntimeFor

LEMMA ChoicesAreFound ==
    ASSUME entries \in Packages, NEW c \in Candidates
    PROVE  c # None /\ c # AnalyzerError /\ c.latency \in Int /\ c.throughput \in Int
<1>1. PICK i \in DOMAIN entries : \E j \in DOMAIN entries[i].results :
         c = Result(entries[i], entries[i].results[j])
  BY DEF Candidates
<1> QED
  BY <1>1, Measured DEF Result, None, AnalyzerError

\* The lowest latency, or the highest throughput, of what is allowed is
\* found if anything is allowed.
LEMMA LowestLatency ==
    ASSUME entries \in Packages, strategy \in Strategies
    PROVE  LET best == GetMinLatencyRuntime(strategy)
           IN IF Candidates = {} THEN best = None ELSE best # None /\ best \in Fastest(Candidates)
<1> DEFINE best == GetMinLatencyRuntime(strategy)
<1>1. best = BestRuntime("latency", FALSE, strategy)
  BY DEF GetMinLatencyRuntime
<1>2. Choices(FALSE) = Candidates
  BY DEF Choices
<1> HIDE DEF best
<1>3. /\ best # None => best \in Candidates
      /\ \A c \in Candidates : best # None /\ ~Better("latency", c, best)
  BY <1>1, <1>2, BestOfChoices DEF Aims
<1>4. \A c \in Candidates : best.latency <= c.latency
  BY <1>3, ChoicesAreFound DEF Better, Faster
<1> QED
  BY <1>3, <1>4 DEF Fastest, best

LEMMA HighestThroughput ==
    ASSUME entries \in Packages, strategy \in Strategies, NEW limited \in BOOLEAN
    PROVE  LET best == BestRuntime("throughput", limited, strategy)
           IN IF Choices(limited) = {} THEN best = None
              ELSE best # None /\ best \in Busiest(Choices(limited))
<1> DEFINE best == BestRuntime("throughput", limited, strategy)
<1>1. /\ best # None => best \in Choices(limited)
      /\ \A c \in Choices(limited) : best # None /\ ~Better("throughput", c, best)
  BY BestOfChoices DEF Aims
<1> HIDE DEF best
<1>2. \A c \in Choices(limited) : c.throughput \in Int
  BY ChoicesAreFound DEF Choices
<1>3. \A c \in Choices(limited) : best.throughput >= c.throughput
  BY <1>1, <1>2 DEF Better, Busier
<1> QED
  BY <1>1, <1>3 DEF Busiest, best

\* For every package the lowest latency of a runtime that passed correctness
\* and performance is chosen (_get_min_latency_runtime).
THEOREM MinLatency == Spec => []MinLatencyIsMinimal
<1>1. AnswerInv => MinLatencyIsMinimal
  <2> SUFFICES ASSUME AnswerInv, strategy.kind = "MinLatency", answer # None
               PROVE  IF Candidates = {} THEN answer = AnalyzerError
                      ELSE answer \in Fastest(Candidates)
    BY DEF MinLatencyIsMinimal, AskedFor
  <2>1. entries \in Packages /\ strategy \in Strategies
        /\ answer = OrError(GetMinLatencyRuntime(strategy))
    BY Kind DEF AnswerInv
  <2> QED
    BY <2>1, LowestLatency DEF OrError
<1> QED
  BY AnswerInvariance, <1>1, PTL

\* The highest throughput (_get_max_throughput_runtime).
THEOREM MaxThroughput == Spec => []MaxThroughputIsMaximal
<1>1. AnswerInv => MaxThroughputIsMaximal
  <2> SUFFICES ASSUME AnswerInv, strategy.kind = "MaxThroughput", answer # None
               PROVE  IF Candidates = {} THEN answer = AnalyzerError
                      ELSE answer \in Busiest(Candidates)
    BY DEF MaxThroughputIsMaximal, AskedFor
  <2>1. entries \in Packages /\ strategy \in Strategies
        /\ answer = OrError(GetMaxThroughputRuntime(strategy))
    BY Kind DEF AnswerInv
  <2>2. Choices(FALSE) = Candidates
    BY DEF Choices
  <2> QED
    BY <2>1, <2>2, HighestThroughput DEF OrError, GetMaxThroughputRuntime
<1> QED
  BY AnswerInvariance, <1>1, PTL

\* The highest throughput within the budget
\* (_get_max_throughput_runtime with latency_budget).
THEOREM Budget == Spec => []BudgetIsRespected
<1>1. AnswerInv => BudgetIsRespected
  <2> SUFFICES ASSUME AnswerInv, strategy.kind = "MaxThroughputWithLatencyBudget", answer # None
               PROVE  IF WithinBudget = {} THEN answer = AnalyzerError
                      ELSE answer \in Busiest(WithinBudget)
    BY DEF BudgetIsRespected, AskedFor
  <2>1. entries \in Packages /\ strategy \in Strategies
        /\ answer = OrError(GetMaxThroughputRuntimeWithBudget(strategy))
    BY Kind DEF AnswerInv
  <2>2. Choices(TRUE) = WithinBudget
    BY DEF Choices, WithinBudget
  <2> QED
    BY <2>1, <2>2, HighestThroughput DEF OrError, GetMaxThroughputRuntimeWithBudget
<1> QED
  BY AnswerInvariance, <1>1, PTL

\* Both at one runtime (_get_max_throughput_runtime_min_latency_runtime).
THEOREM Combined == Spec => []CombinedReachesBoth
<1>1. AnswerInv => CombinedReachesBoth
  <2> DEFINE fast == GetMinLatencyRuntime(strategy)
             busy == GetMaxThroughputRuntime(strategy)
  <2> SUFFICES ASSUME AnswerInv, strategy.kind = "MaxThroughputAndMinLatency",
                      answer # None, answer # AnalyzerError
               PROVE  /\ answer \in Fastest(Candidates)
                      /\ \E c \in Busiest(Candidates) :
                            c.model = answer.model /\ c.runner = answer.runner
    BY DEF CombinedReachesBoth, AskedFor
  <2>1. entries \in Packages /\ strategy \in Strategies
        /\ answer = GetMaxThroughputRuntimeMinLatencyRuntime(strategy)
    BY Kind DEF AnswerInv
  <2>2. /\ fast # None /\ busy # None /\ answer = fast
        /\ fast.model = busy.model /\ fast.runner = busy.runner
    BY <2>1 DEF GetMaxThroughputRuntimeMinLatencyRuntime
  <2>3. Choices(FALSE) = Candidates
    BY DEF Choices
  <2>4. fast \in Fastest(Candidates)
    BY <2>1, <2>2, LowestLatency
  <2>5. busy \in Busiest(Candidates)
    BY <2>1, <2>2, <2>3, HighestThroughput DEF GetMaxThroughputRuntime
  <2> QED
    BY <2>2, <2>4, <2>5
<1> QED
  BY AnswerInvariance, <1>1, PTL
=============================================================================
