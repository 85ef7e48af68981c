----------------------- MODULE ProfilingSessionProofs -----------------------
(***************************************************************************)
(* What a command leaves behind, for every set of profiles, of handlers,   *)
(* number of samples and commands, and however its sessions end.           *)
(*                                                                         *)
(* The results of a command are copies of lines of a session's file, and a *)
(* line is about the sample that lies on disk while it is written.         *)
(* SessionInv follows both: the sample on disk is the one the session is   *)
(* for (OnDisk), and so are the lines (LinesOfSample) and the results that *)
(* were read before (ResultsOfSamples).                                    *)
(*                                                                         *)
(* PlanInv divides the plan of a session into the lines that are written   *)
(* (LinesFollow) and the sizes that are not measured yet (RestFollows),    *)
(* and keeps the results of earlier samples before those of later ones.    *)
(*                                                                         *)
(* ConsoleInv says where the handlers are: each console is in one of two   *)
(* sequences without repetition, the handlers and the removed ones.        *)
(***************************************************************************)
EXTENDS ProfilingSession, FiniteSetTheorems, TLAPS

IsSequence(s) == s \in Seq(ToSet(s))

OfTheirSample(s) == \A i \in DOMAIN s : s[i].measured_on = SampleOf(s[i].sample_id)

SequencesInv == IsSequence(lines) /\ IsSequence(results)

OnDisk == pc \in {"session", "activate", "measure", "read"} => sampleDir = SampleOf(sample)

LinesOfSample == pc \in {"activate", "measure", "read"} => OfTheirSample(lines)

ResultsOfSamples == pc # "idle" => OfTheirSample(results)

SessionInv == SequencesInv /\ OnDisk /\ LinesOfSample /\ ResultsOfSamples

----------------------------------------------------------------------------
(* Sequences *)

LEMMA EmptySequence == IsSequence(<<>>) /\ DOMAIN <<>> = {}
BY DEF IsSequence

\* A sequence over any set is one over its own elements.
LEMMA OwnElements ==
    ASSUME NEW S, NEW s \in Seq(S)
    PROVE  IsSequence(s)
BY DEF IsSequence, ToSet

LEMMA Appended ==
    ASSUME NEW s, IsSequence(s), NEW e
    PROVE  /\ IsSequence(Append(s, e))
           /\ \A i \in DOMAIN Append(s, e) :
                 \/ i \in DOMAIN s /\ Append(s, e)[i] = s[i]
                 \/ Append(s, e)[i] = e
<1> DEFINE S == ToSet(s) \cup {e}
<1>1. s \in Seq(S)
  BY DEF IsSequence
<1> HIDE DEF S
<1>2. e \in S
  BY DEF S
<1>3. Append(s, e) \in Seq(S)
  BY <1>1, <1>2
<1>4. IsSequence(Append(s, e))
  BY <1>3, OwnElements
<1>5. \A i \in DOMAIN Append(s, e) :
         \/ i \in DOMAIN s /\ Append(s, e)[i] = s[i]
         \/ Append(s, e)[i] = e
  BY <1>1, <1>2
<1> QED
  BY <1>4, <1>5

LEMMA Concatenated ==
    ASSUME NEW s, IsSequence(s), NEW t, IsSequence(t)
    PROVE  /\ IsSequence(s \o t)
           /\ \A i \in DOMAIN (s \o t) :
                 \/ i \in DOMAIN s /\ (s \o t)[i] = s[i]
                 \/ \E j \in DOMAIN t : (s \o t)[i] = t[j]
<1> DEFINE S == ToSet(s) \cup ToSet(t)
<1>1. s \in Seq(S) /\ t \in Seq(S)
  BY DEF IsSequence
<1> HIDE DEF S
<1>2. s \o t \in Seq(S)
  BY <1>1
<1>3. IsSequence(s \o t)
  BY <1>2, OwnElements
<1>4. ASSUME NEW i \in DOMAIN (s \o t)
      PROVE  \/ i \in DOMAIN s /\ (s \o t)[i] = s[i]
             \/ \E j \in DOMAIN t : (s \o t)[i] = t[j]
  <2>1. i \in 1 .. Len(s) + Len(t) /\ Len(s) \in Nat /\ Len(t) \in Nat
    BY <1>1
  <2>2. CASE i <= Len(s)
    BY <1>1, <2>1, <2>2
  <2>3. CASE i > Len(s)
    <3>1. i - Len(s) \in DOMAIN t /\ (s \o t)[i] = t[i - Len(s)]
      BY <1>1, <2>1, <2>3
    <3> QED
      BY <3>1
  <2> QED
    BY <2>1, <2>2, <2>3
<1> QED
  BY <1>3, <1>4

Distinct(s) == \A i, j \in DOMAIN s : s[i] = s[j] => i = j

\* Sequences without repetition: one element less, one more, and two in one.
LEMMA ElementRemoved ==
    ASSUME NEW S, NEW s \in Seq(S), Distinct(s), NEW i \in DOMAIN s
    PROVE  /\ RemoveAt(s, i) \in Seq(S)
           /\ \A j \in DOMAIN RemoveAt(s, i) :
                 /\ j \in DOMAIN s /\ j + 1 \in DOMAIN s
                 /\ RemoveAt(s, i)[j] = IF j < i THEN s[j] ELSE s[j + 1]
           /\ Distinct(RemoveAt(s, i))
           /\ ToSet(RemoveAt(s, i)) = ToSet(s) \ {s[i]}
<1> DEFINE n == Len(s)
           t == RemoveAt(s, i)
<1>1. n \in Nat /\ DOMAIN s = 1 .. n /\ i \in 1 .. n
  OBVIOUS
<1>2. /\ SubSeq(s, 1, i - 1) \in Seq(S) /\ Len(SubSeq(s, 1, i - 1)) = i - 1
      /\ \A j \in 1 .. i - 1 : SubSeq(s, 1, i - 1)[j] = s[j]
  BY <1>1
<1>3. /\ SubSeq(s, i + 1, n) \in Seq(S) /\ Len(SubSeq(s, i + 1, n)) = n - i
      /\ \A j \in 1 .. n - i : SubSeq(s, i + 1, n)[j] = s[i + j]
  BY <1>1
<1>4. /\ t \in Seq(S) /\ Len(t) = n - 1
      /\ \A j \in 1 .. n - 1 : t[j] = IF j < i THEN s[j] ELSE s[j + 1]
  <2> DEFINE u == SubSeq(s, 1, i - 1)
             v == SubSeq(s, i + 1, n)
  <2>1. t = u \o v
    BY DEF RemoveAt
  <2> HIDE DEF t, u, v
  <2>2. /\ u \in Seq(S) /\ Len(u) = i - 1 /\ \A j \in 1 .. i - 1 : u[j] = s[j]
        /\ v \in Seq(S) /\ Len(v) = n - i /\ \A j \in 1 .. n - i : v[j] = s[i + j]
    BY <1>2, <1>3 DEF u, v
  <2>3. t \in Seq(S) /\ Len(t) = n - 1
    <3>1. Len(u) + Len(v) = n - 1
      BY <1>1, <2>2
    <3>2. u \in Seq(S) /\ v \in Seq(S)
      BY <2>2
    <3>3. u \o v \in Seq(S) /\ Len(u \o v) = Len(u) + Len(v)
      BY <3>2
    <3> QED
      BY <2>1, <3>1, <3>3
  <2>4. ASSUME NEW j \in 1 .. n - 1
        PROVE  t[j] = IF j < i THEN s[j] ELSE s[j + 1]
    <3>1. CASE j < i
      BY <1>1, <2>1, <2>2, <3>1
    <3>2. CASE ~(j < i)
      <4>1. j - (i - 1) \in 1 .. n - i /\ t[j] = v[j - (i - 1)]
        BY <1>1, <2>1, <2>2, <3>2
      <4>2. t[j] = s[i + (j - (i - 1))] /\ i + (j - (i - 1)) = j + 1
        BY <1>1, <2>2, <4>1
      <4> QED
        BY <3>2, <4>2
    <3> QED
      BY <3>1, <3>2
  <2> QED
    BY <2>3, <2>4
<1> HIDE DEF t
<1>5. DOMAIN t = 1 .. n - 1
  BY <1>1, <1>4
<1>6. Distinct(t)
  <2> SUFFICES ASSUME NEW j \in 1 .. n - 1, NEW k \in 1 .. n - 1, t[j] = t[k]
               PROVE  j = k
    BY <1>5 DEF Distinct
  <2> DEFINE was(x) == IF x < i THEN x ELSE x + 1
  <2>1. was(j) \in 1 .. n /\ was(k) \in 1 .. n /\ t[j] = s[was(j)] /\ t[k] = s[was(k)]
    BY <1>1, <1>4
  <2>2. was(j) = was(k)
    BY <1>1, <2>1 DEF Distinct
  <2> QED
    BY <1>1, <2>2
<1>7. ToSet(t) \subseteq ToSet(s) \ {s[i]}
  <2> SUFFICES ASSUME NEW j \in 1 .. n - 1
               PROVE  t[j] \in ToSet(s) \ {s[i]}
    BY <1>5 DEF ToSet
  <2>1. CASE j < i
    BY <1>1, <1>4, <2>1 DEF Distinct, ToSet
  <2>2. CASE ~(j < i)
    <3>1. t[j] = s[j + 1] /\ j + 1 \in 1 .. n /\ j + 1 # i
      BY <1>1, <1>4, <2>2
    <3> QED
      BY <1>1, <3>1 DEF Distinct, ToSet
  <2> QED
    BY <2>1, <2>2
<1>8. ToSet(s) \ {s[i]} \subseteq ToSet(t)
  <2> SUFFICES ASSUME NEW k \in 1 .. n, k # i
               PROVE  \E j \in 1 .. n - 1 : t[j] = s[k]
    BY <1>1, <1>5 DEF ToSet
  <2>1. CASE k < i
    BY <1>1, <1>4, <2>1
  <2>2. CASE k > i
    <3>1. k - 1 \in 1 .. n - 1 /\ ~(k - 1 < i) /\ t[k - 1] = s[k - 1 + 1] /\ k - 1 + 1 = k
      BY <1>1, <1>4, <2>2
    <3> QED
      BY <3>1
  <2> QED
    BY <1>1, <2>1, <2>2
<1> QED
  BY <1>1, <1>4, <1>5, <1>6, <1>7, <1>8 DEF t

LEMMA ElementAppended ==
    ASSUME NEW S, NEW s \in Seq(S), Distinct(s), NEW e \in S, e \notin ToSet(s)
    PROVE  /\ Append(s, e) \in Seq(S) /\ Distinct(Append(s, e))
           /\ ToSet(Append(s, e)) = ToSet(s) \cup {e}
<1> DEFINE t == Append(s, e)
<1>1. /\ t \in Seq(S) /\ Len(t) = Len(s) + 1 /\ Len(s) \in Nat
      /\ DOMAIN s = 1 .. Len(s) /\ DOMAIN t = 1 .. Len(s) + 1
      /\ t[Len(s) + 1] = e /\ \A i \in 1 .. Len(s) : t[i] = s[i]
  OBVIOUS
<1> HIDE DEF t
<1>2. Distinct(t)
  BY <1>1 DEF Distinct, ToSet
<1>3. ToSet(t) = ToSet(s) \cup {e}
  BY <1>1 DEF ToSet
<1> QED
  BY <1>1, <1>2, <1>3 DEF t

LEMMA SequenceAppended ==
    ASSUME NEW S, NEW s \in Seq(S), Distinct(s), NEW r \in Seq(S), Distinct(r),
           ToSet(s) \cap ToSet(r) = {}
    PROVE  /\ s \o r \in Seq(S) /\ Distinct(s \o r)
           /\ ToSet(s \o r) = ToSet(s) \cup ToSet(r)
<1> DEFINE t == s \o r
<1>1. /\ t \in Seq(S) /\ Len(s) \in Nat /\ Len(r) \in Nat
      /\ DOMAIN s = 1 .. Len(s) /\ DOMAIN r = 1 .. Len(r) /\ DOMAIN t = 1 .. Len(s) + Len(r)
      /\ \A i \in 1 .. Len(s) : t[i] = s[i]
      /\ \A i \in 1 .. Len(r) : t[Len(s) + i] = r[i]
  OBVIOUS
<1>2. \A i \in DOMAIN t : i > Len(s) => i - Len(s) \in DOMAIN r /\ t[i] = r[i - Len(s)]
  BY <1>1
<1> HIDE DEF t
<1>3. ToSet(t) \subseteq ToSet(s) \cup ToSet(r)
  <2> SUFFICES ASSUME NEW i \in DOMAIN t
               PROVE  t[i] \in ToSet(s) \cup ToSet(r)
    BY DEF ToSet
  <2>1. CASE i <= Len(s)
    BY <1>1, <2>1 DEF ToSet
  <2>2. CASE i > Len(s)
    BY <1>2, <2>2 DEF ToSet
  <2> QED
    BY <1>1, <2>1, <2>2
<1>4. ToSet(s) \subseteq ToSet(t) 
  BY <1>1 DEF ToSet
<1>5. ToSet(r) \subseteq ToSet(t)
  <2> SUFFICES ASSUME NEW i \in DOMAIN r
               PROVE  r[i] \in ToSet(t)
    BY DEF ToSet
  <2>1. Len(s) + i \in DOMAIN t /\ t[Len(s) + i] = r[i]
    BY <1>1
  <2> QED
    BY <2>1 DEF ToSet
<1>6. Distinct(t)
  <2> SUFFICES ASSUME NEW i \in DOMAIN t, NEW j \in DOMAIN t, t[i] = t[j], i < j
               PROVE  FALSE
    BY <1>1 DEF Distinct
  <2>1. CASE j <= Len(s)
    BY <1>1, <2>1 DEF Distinct
  <2>2. CASE i > Len(s)
    BY <1>1, <1>2, <2>2 DEF Distinct
  <2>3. CASE i <= Len(s) /\ j > Len(s)
    <3>1. s[i] \in ToSet(s) /\ t[i] = s[i]
      BY <1>1, <2>3 DEF ToSet
    <3>2. r[j - Len(s)] \in ToSet(r) /\ t[j] = r[j - Len(s)]
      BY <1>2, <2>3 DEF ToSet
    <3> QED
      BY <3>1, <3>2
  <2> QED
    BY <1>1, <2>1, <2>2, <2>3
<1> QED
  BY <1>1, <1>3, <1>4, <1>5, <1>6 DEF t

----------------------------------------------------------------------------
(* The samples *)

LEMMA InitSession == Init => SessionInv
BY EmptySequence
DEF Init, SessionInv, SequencesInv, OnDisk, LinesOfSample, ResultsOfSamples, OfTheirSample

\* A command that begins has no results.
LEMMA BeginStep == SessionInv /\ Begin => SessionInv'
BY EmptySequence
DEF Begin, profiler, SessionInv, SequencesInv, OnDisk, LinesOfSample, ResultsOfSamples,
    OfTheirSample

\* Steps that change no sample and no line, and do not enter the profiler.
LEMMA OutsideStep ==
    ASSUME SessionInv, UNCHANGED <<command, lines, results>>, pc # "idle",
           pc' \in {"sample", "hide", "logged", "end", "idle"}
    PROVE  SessionInv'
BY DEF SessionInv, SequencesInv, OnDisk, LinesOfSample, ResultsOfSamples, OfTheirSample, SampleOf,
       FromDataloader

LEMMA CommandStep ==
    SessionInv /\ (SkipCommand \/ ClearSamples \/ SampleFails \/ HideConsole \/ HideHandler \/ Log
                    \/ ShowConsole) => SessionInv'
BY OutsideStep
DEF SkipCommand, ClearSamples, SampleFails, HideConsole, HideHandler, Log, ShowConsole, profiler

\* The command is over; what its results mean is asked no more.
LEMMA EndStep == SessionInv /\ End => SessionInv'
BY DEF End, profiler, SessionInv, SequencesInv, OnDisk, LinesOfSample, ResultsOfSamples

\* The sample of this session replaces the one on disk.
LEMMA WriteSampleStep == SessionInv /\ WriteSample => SessionInv'
BY DEF WriteSample, WrittenSample, profiler, SessionInv, SequencesInv, OnDisk, LinesOfSample,
       ResultsOfSamples, OfTheirSample, SampleOf, FromDataloader

\* A session starts with an empty file.
LEMMA StartSessionStep == SessionInv /\ StartSession => SessionInv'
BY EmptySequence
DEF StartSession, FileOfSession, SessionInv, SequencesInv, OnDisk, LinesOfSample,
    ResultsOfSamples, OfTheirSample, SampleOf, FromDataloader

\* Steps of the profiler between two lines, and its ends.
LEMMA InsideStep ==
    ASSUME SessionInv, UNCHANGED <<command, sample, sampleDir, lines, results>>,
           pc \in {"activate", "measure"}, pc' \in {"measure", "read"}
    PROVE  SessionInv'
BY DEF SessionInv, SequencesInv, OnDisk, LinesOfSample, ResultsOfSamples, OfTheirSample, SampleOf,
       FromDataloader

LEMMA ProfilerStep ==
    SessionInv /\ (ActivateRunner \/ MeasureWindow \/ MeasureStabilized \/ Exit \/ ScriptRaises
                   \/ ScriptKilled) => SessionInv'
BY InsideStep
DEF ActivateRunner, MeasureWindow, MeasureStabilized, Exit, ScriptRaises, ScriptKilled, profiler

\* A line is about the sample on disk.
LEMMA ReportStep == SessionInv /\ Report => SessionInv'
<1> SUFFICES ASSUME SessionInv, Report
             PROVE  SessionInv'
  OBVIOUS
<1> DEFINE line == Line
<1>1. /\ pc = "measure" /\ pc' = "measure" /\ lines' = Append(lines, line)
      /\ UNCHANGED <<command, sample, sampleDir, results>>
  BY DEF Report
<1>2. line.measured_on = SampleOf(line.sample_id)
  BY <1>1 DEF Line, SessionInv, OnDisk
<1> HIDE DEF line
<1>3. /\ IsSequence(lines')
      /\ \A i \in DOMAIN lines' : \/ i \in DOMAIN lines /\ lines'[i] = lines[i]
                                \/ lines'[i] = line
  BY <1>1, Appended DEF SessionInv, SequencesInv
<1>4. \A id : SampleOf(id)' = SampleOf(id)
  BY <1>1 DEF SampleOf, FromDataloader
<1>5. OfTheirSample(lines)'
  BY <1>1, <1>2, <1>3, <1>4 DEF SessionInv, LinesOfSample, OfTheirSample
<1>6. OfTheirSample(results)'
  BY <1>1, <1>4 DEF SessionInv, ResultsOfSamples, OfTheirSample
<1>7. OnDisk'
  BY <1>1, <1>4 DEF SessionInv, OnDisk, SampleOf, FromDataloader
<1> QED
  BY <1>1, <1>3, <1>5, <1>6, <1>7 DEF SessionInv, SequencesInv, LinesOfSample, ResultsOfSamples

\* The results of an interrupted session are not read.
LEMMA InterruptStep == SessionInv /\ InterruptScript => SessionInv'
BY EmptySequence
DEF InterruptScript, NoProfiler, FileOfSession, SessionInv, SequencesInv, OnDisk, LinesOfSample,
    ResultsOfSamples, OfTheirSample, SampleOf, FromDataloader

\* The lines of a session join the results of the sessions before it.
LEMMA ReadResultsStep == SessionInv /\ ReadResults => SessionInv'
<1> SUFFICES ASSUME SessionInv, ReadResults
             PROVE  SessionInv'
  OBVIOUS
<1>1. /\ pc = "read" /\ pc' = "leave" /\ lines' = <<>> /\ UNCHANGED command
      /\ results' = results \/ results' = results \o lines
  BY DEF ReadResults, NoProfiler, FileOfSession
<1>2. /\ IsSequence(lines) /\ IsSequence(results)
      /\ OfTheirSample(lines) /\ OfTheirSample(results)
  BY <1>1 DEF SessionInv, SequencesInv, LinesOfSample, ResultsOfSamples
<1>3. /\ IsSequence(results')
      /\ \A i \in DOMAIN results' : \/ i \in DOMAIN results /\ results'[i] = results[i]
                                    \/ \E j \in DOMAIN lines : results'[i] = lines[j]
  <2>1. CASE results' = results
    BY <1>2, <2>1 DEF IsSequence
  <2>2. CASE results' = results \o lines
    <3>1. /\ IsSequence(results \o lines)
          /\ \A i \in DOMAIN (results \o lines) :
                \/ i \in DOMAIN results /\ (results \o lines)[i] = results[i]
                \/ \E j \in DOMAIN lines : (results \o lines)[i] = lines[j]
      BY <1>2, Concatenated
    <3> QED
      BY <2>2, <3>1 DEF IsSequence
  <2> QED
    BY <1>1, <2>1, <2>2
<1>4. \A id : SampleOf(id)' = SampleOf(id)
  BY <1>1 DEF SampleOf, FromDataloader
<1>5. OfTheirSample(results)'
  BY <1>2, <1>3, <1>4 DEF OfTheirSample
<1> QED
  BY <1>1, <1>3, <1>5, EmptySequence
  DEF SessionInv, SequencesInv, OnDisk, LinesOfSample, ResultsOfSamples

LEMMA SessionStutter == SessionInv /\ UNCHANGED vars => SessionInv'
BY DEF vars, logging, profiler, SessionInv, SequencesInv, OnDisk, LinesOfSample, ResultsOfSamples,
       OfTheirSample, SampleOf, FromDataloader

\* The inductive invariant.
THEOREM SessionInvariance == Spec => []SessionInv
<1>1. SessionInv /\ [Next]_vars => SessionInv'
  BY BeginStep, CommandStep, EndStep, WriteSampleStep, StartSessionStep, ProfilerStep, ReportStep,
     InterruptStep, ReadResultsStep, SessionStutter
  DEF Next
<1> QED
  BY InitSession, <1>1, PTL DEF Spec

\* A result that carries the id of a sample was measured on it
\* (Profile._next_sample, Performance._run).
THEOREM OwnSample == Spec => []ResultsAreOfTheirSample
<1>1. SessionInv => ResultsAreOfTheirSample
  BY DEF SessionInv, ResultsOfSamples, OfTheirSample, ResultsAreOfTheirSample
<1> QED
  BY SessionInvariance, <1>1, PTL

----------------------------------------------------------------------------
(* The plan *)

Plan == BatchSizes(command.profile, command.batching)

\* Lines are the beginning of the plan, only the last of them a reason to stop.
LinesFollow ==
    /\ \A i \in DOMAIN lines : /\ lines[i].sample_id = sample
                               /\ i \in DOMAIN Plan /\ lines[i].batch_size = Plan[i]
    /\ \A i \in 2 .. Len(lines) - 1 : ~CutOff(lines[i].throughput, lines[i - 1].throughput)

\* What is still to be measured is the rest of it, and no line was a reason
\* to stop.
RestFollows ==
    sizes # <<>> =>
       /\ Len(sizes) = Len(Plan) - Len(lines)
       /\ \A j \in DOMAIN sizes : sizes[j] = Plan[Len(lines) + j]
       /\ previous = IF Len(lines) = 0 THEN NoThroughput ELSE lines[Len(lines)].throughput
       /\ \A i \in 2 .. Len(lines) : ~CutOff(lines[i].throughput, lines[i - 1].throughput)

Unread == {"file", "sample", "session", "activate", "measure", "read"}

\* Results of the sessions so far.
SamplesInOrder ==
    /\ sample \in 0 .. LastSample
    /\ \A i \in DOMAIN results :
          results[i].sample_id \in 0 .. (IF pc \in Unread THEN sample - 1 ELSE sample)
    /\ \A i, j \in DOMAIN results : i < j => results[i].sample_id <= results[j].sample_id

ResultsGoOn ==
    \A i, j \in DOMAIN results :
        i < j /\ SameSample(i, j) /\ j + 1 \in DOMAIN results /\ SameSample(i, j + 1) =>
            ~CutOff(results[j].throughput, results[j - 1].throughput)

ResultsFollow ==
    \A i \in DOMAIN results : \A j \in DOMAIN results :
        FirstOfSample(i) /\ i <= j /\ SameSample(i, j) =>
            j - i + 1 \in DOMAIN Plan /\ results[j].batch_size = Plan[j - i + 1]

PlanInv ==
    /\ IsSequence(lines) /\ IsSequence(results) /\ IsSequence(sizes)
    /\ pc # "idle" => command \in Commands /\ SamplesInOrder /\ ResultsGoOn /\ ResultsFollow
    /\ pc \in {"activate", "measure", "read"} => LinesFollow
    /\ pc \in {"activate", "measure"} => RestFollows

LEMMA IndexedIsSequence ==
    ASSUME NEW n \in Nat, NEW s, s = [i \in 1 .. n |-> s[i]]
    PROVE  IsSequence(s)
BY DEF IsSequence, ToSet

\* The plan of a session is a sequence whatever the profile.
LEMMA PlanIsSequence ==
    ASSUME NEW profile \in Profiles, NEW batching \in BOOLEAN
    PROVE  IsSequence(BatchSizes(profile, batching))
<1>1. \A S : IsFiniteSet(S) => IsSequence(Ascending(S))
  <2> SUFFICES ASSUME NEW S, IsFiniteSet(S)
               PROVE  IsSequence(Ascending(S))
    OBVIOUS
  <2>1. Cardinality(S) \in Nat
    BY FS_CardinalityType
  <2> QED
    BY <2>1, IndexedIsSequence DEF Ascending
<1>2. \A n \in Nat : IsFiniteSet(PowersUpTo(n)) /\ IsFiniteSet(PowersUpTo(n) \cup {n})
  <2> SUFFICES ASSUME NEW n \in Nat
               PROVE  IsFiniteSet(PowersUpTo(n)) /\ IsFiniteSet(PowersUpTo(n) \cup {n})
    OBVIOUS
  <2>1. IsFiniteSet(1 .. n)
    BY FS_Interval
  <2>2. PowersUpTo(n) \subseteq 1 .. n
    BY DEF PowersUpTo
  <2>3. IsFiniteSet(PowersUpTo(n))
    BY <2>1, <2>2, FS_Subset
  <2> QED
    BY <2>3, FS_AddElement
<1>3. /\ profile.max_batch_size \in Nat /\ profile.batch_sizes \in Seq(Nat)
      /\ MaxBatchSize \in Nat /\ 2 * MaxBatchSize \in Nat
  BY SessionAssumption DEF SessionAssumption
<1>4. IsSequence(Sorted(profile.batch_sizes))
  <2>1. DOMAIN profile.batch_sizes = 1 .. Len(profile.batch_sizes)
        /\ Len(profile.batch_sizes) \in Nat
    BY <1>3
  <2> QED
    BY <2>1, IndexedIsSequence DEF Sorted
<1>5. IsSequence(<<0>>)
  BY DEF IsSequence, ToSet
<1> QED
  BY <1>1, <1>2, <1>3, <1>4, <1>5 DEF BatchSizes

LEMMA PlanOfCommand == command \in Commands => IsSequence(Plan)
BY PlanIsSequence DEF Commands, Plan

LEMMA LastSampleIsNat == command \in Commands => LastSample \in Nat
BY SessionAssumption DEF LastSample, SessionAssumption

LEMMA InitPlan == Init => PlanInv
BY EmptySequence DEF Init, PlanInv

LEMMA BeginPlan == PlanInv /\ Begin => PlanInv'
<1> SUFFICES ASSUME PlanInv, Begin
             PROVE  PlanInv'
  OBVIOUS
<1>1. /\ command' \in Commands /\ pc' = "file" /\ sample' = 0 /\ results' = <<>>
      /\ UNCHANGED <<lines, sizes>>
  BY DEF Begin, profiler
<1>2. LastSample' \in Nat
  BY <1>1, SessionAssumption DEF LastSample, SessionAssumption
<1>3. (SamplesInOrder /\ ResultsGoOn /\ ResultsFollow)'
  BY <1>1, <1>2, EmptySequence DEF SamplesInOrder, ResultsGoOn, ResultsFollow
<1> QED
  BY <1>1, <1>3, EmptySequence DEF PlanInv

\* Steps that change neither sample nor results.
LEMMA ResultsStay ==
    ASSUME PlanInv, UNCHANGED <<command, results, sample>>, pc # "idle",
           pc' \in Unread => pc \in Unread
    PROVE  (SamplesInOrder /\ ResultsGoOn /\ ResultsFollow)'
<1>1. SamplesInOrder /\ ResultsGoOn /\ ResultsFollow
  BY DEF PlanInv
<1>2. SamplesInOrder'
  BY <1>1 DEF SamplesInOrder, LastSample, FromDataloader
<1>3. ResultsGoOn'
  BY <1>1 DEF ResultsGoOn, SameSample, CutOff
<1>4. ResultsFollow'
  <2>1. Plan' = Plan
    BY DEF Plan, BatchSizes
  <2> QED
    BY <1>1, <2>1 DEF ResultsFollow, SameSample, FirstOfSample
<1> QED
  BY <1>2, <1>3, <1>4

\* Steps of the command outside the profiler.
LEMMA CommandPlan ==
    PlanInv /\ (SkipCommand \/ ClearSamples \/ WriteSample \/ SampleFails \/ HideConsole
                \/ HideHandler \/ Log) => PlanInv'
<1> SUFFICES ASSUME PlanInv,
                    SkipCommand \/ ClearSamples \/ WriteSample \/ SampleFails \/ HideConsole
                    \/ HideHandler \/ Log
             PROVE  PlanInv'
  OBVIOUS
<1>1. /\ UNCHANGED <<command, results, sample, lines, sizes>>
      /\ pc # "idle" /\ pc' \notin {"activate", "measure", "read"}
      /\ pc' \in Unread => pc \in Unread
  BY DEF SkipCommand, ClearSamples, WriteSample, SampleFails, HideConsole, HideHandler, Log,
         profiler, Unread
<1> QED
  BY <1>1, ResultsStay DEF PlanInv

LEMMA EndPlan == PlanInv /\ End => PlanInv'
BY DEF End, profiler, PlanInv

LEMMA ShowConsolePlan == PlanInv /\ ShowConsole => PlanInv'
<1> SUFFICES ASSUME PlanInv, ShowConsole
             PROVE  PlanInv'
  OBVIOUS
<1>1. /\ UNCHANGED <<command, results, lines, sizes>> /\ pc = "logged"
      /\ \/ pc' = "end" /\ sample' = sample
         \/ pc' = "sample" /\ sample' = sample + 1 /\ sample # LastSample
  BY DEF ShowConsole, profiler
<1>2. command \in Commands /\ SamplesInOrder /\ ResultsGoOn /\ ResultsFollow
  BY <1>1 DEF PlanInv
<1>3. SamplesInOrder'
  <2>1. LastSample \in Nat /\ LastSample' = LastSample
    BY <1>1, <1>2, LastSampleIsNat DEF LastSample, FromDataloader
  <2> QED
    BY <1>1, <1>2, <2>1 DEF SamplesInOrder, Unread
<1>4. ResultsGoOn'
  BY <1>1, <1>2 DEF ResultsGoOn, SameSample, CutOff
<1>5. ResultsFollow'
  <2>1. Plan' = Plan
    BY <1>1 DEF Plan, BatchSizes
  <2> QED
    BY <1>1, <1>2, <2>1 DEF ResultsFollow, SameSample, FirstOfSample
<1> QED
  BY <1>1, <1>2, <1>3, <1>4, <1>5 DEF PlanInv

\* A session has the whole plan before it.
LEMMA StartSessionPlan == PlanInv /\ StartSession => PlanInv'
<1> SUFFICES ASSUME PlanInv, StartSession
             PROVE  PlanInv'
  OBVIOUS
<1>1. /\ UNCHANGED <<command, results, sample>> /\ pc = "session" /\ pc' = "activate"
      /\ lines' = <<>> /\ sizes' = Plan /\ previous' = NoThroughput
  BY DEF StartSession, FileOfSession, Plan
<1>2. (SamplesInOrder /\ ResultsGoOn /\ ResultsFollow)'
  BY <1>1, ResultsStay DEF Unread
<1>3. Plan' = Plan
  BY <1>1 DEF Plan, BatchSizes
<1>4. IsSequence(Plan)
  BY <1>1, PlanOfCommand DEF PlanInv
<1>5. Len(lines') = 0 /\ DOMAIN lines' = {}
  BY <1>1
<1>6. LinesFollow'
  BY <1>5 DEF LinesFollow
<1>7. RestFollows'
  <2>1. Len(Plan) \in Nat /\ DOMAIN Plan = 1 .. Len(Plan)
    BY <1>4 DEF IsSequence
  <2> QED
    BY <1>1, <1>3, <1>5, <2>1 DEF RestFollows
<1>8. IsSequence(lines') /\ IsSequence(results') /\ IsSequence(sizes')
  BY <1>1, <1>4, EmptySequence DEF PlanInv
<1> QED
  BY <1>1, <1>2, <1>6, <1>7, <1>8 DEF PlanInv, IsSequence

\* Steps of the profiler between two lines, and its ends.
LEMMA ProfilerPlan ==
    PlanInv /\ (ActivateRunner \/ MeasureWindow \/ MeasureStabilized \/ Exit \/ ScriptRaises
                \/ ScriptKilled) => PlanInv'
<1> SUFFICES ASSUME PlanInv,
                    ActivateRunner \/ MeasureWindow \/ MeasureStabilized \/ Exit \/ ScriptRaises
                    \/ ScriptKilled
             PROVE  PlanInv'
  OBVIOUS
<1>1. /\ UNCHANGED <<command, results, sample, lines, sizes, previous>>
      /\ pc \in {"activate", "measure"} /\ pc' \in {"measure", "read"}
  BY DEF ActivateRunner, MeasureWindow, MeasureStabilized, Exit, ScriptRaises, ScriptKilled,
         profiler
<1>2. (SamplesInOrder /\ ResultsGoOn /\ ResultsFollow)'
  BY <1>1, ResultsStay DEF Unread
<1>3. LinesFollow' /\ RestFollows'
  BY <1>1 DEF PlanInv, LinesFollow, RestFollows, Plan, BatchSizes, CutOff
<1> QED
  BY <1>1, <1>2, <1>3 DEF PlanInv

\* The line reports the size the plan has next, and a size after it is
\* measured only if it was no reason to stop.
LEMMA ReportPlan == PlanInv /\ Report => PlanInv'
<1> SUFFICES ASSUME PlanInv, Report
             PROVE  PlanInv'
  OBVIOUS
<1> DEFINE line == Line
           n == Len(lines)
<1>1. /\ UNCHANGED <<command, results, sample>> /\ pc = "measure" /\ pc' = "measure"
      /\ lines' = Append(lines, line) /\ sizes # <<>> /\ previous' = line.throughput
      /\ sizes' = IF CutOff(line.throughput, previous) THEN <<>> ELSE Tail(sizes)
  BY DEF Report
<1>2. line.sample_id = sample /\ line.batch_size = Head(sizes)
  BY DEF Line
<1> HIDE DEF line
<1>3. /\ IsSequence(lines) /\ IsSequence(sizes) /\ LinesFollow /\ RestFollows
      /\ command \in Commands
  BY <1>1 DEF PlanInv
<1>4. (SamplesInOrder /\ ResultsGoOn /\ ResultsFollow)'
  BY <1>1, ResultsStay DEF Unread
<1>5. Plan' = Plan
  BY <1>1 DEF Plan, BatchSizes
<1>6. /\ n \in Nat /\ Len(lines') = n + 1 /\ lines'[n + 1] = line
      /\ DOMAIN lines = 1 .. n /\ DOMAIN lines' = 1 .. n + 1
      /\ \A i \in 1 .. n : lines'[i] = lines[i]
  BY <1>1, <1>3 DEF IsSequence
<1>7. IsSequence(lines')
  BY <1>1, <1>3, Appended
<1>8. /\ Len(sizes) \in Nat \ {0} /\ DOMAIN sizes = 1 .. Len(sizes) /\ Head(sizes) = sizes[1]
      /\ Len(Tail(sizes)) = Len(sizes) - 1
      /\ \A j \in 1 .. Len(sizes) - 1 : Tail(sizes)[j] = sizes[j + 1]
      /\ IsSequence(Tail(sizes))
  <2> DEFINE S == ToSet(sizes)
  <2>1. sizes \in Seq(S) /\ sizes # <<>>
    BY <1>1, <1>3 DEF IsSequence
  <2> HIDE DEF S
  <2>2. /\ Len(sizes) \in Nat \ {0} /\ DOMAIN sizes = 1 .. Len(sizes) /\ Head(sizes) = sizes[1]
        /\ Tail(sizes) \in Seq(S) /\ Len(Tail(sizes)) = Len(sizes) - 1
    BY <2>1
  <2>3. \A j \in 1 .. Len(sizes) - 1 : Tail(sizes)[j] = sizes[j + 1]
    BY <2>1, <2>2
  <2>4. IsSequence(Tail(sizes))
    BY <2>2, OwnElements
  <2> QED
    BY <2>2, <2>3, <2>4
<1>9. Len(Plan) \in Nat /\ DOMAIN Plan = 1 .. Len(Plan)
  BY <1>3, PlanOfCommand DEF IsSequence
<1>10. n + 1 \in DOMAIN Plan /\ line.batch_size = Plan[n + 1]
  BY <1>1, <1>2, <1>3, <1>6, <1>8, <1>9 DEF RestFollows
<1>11. \A i \in 2 .. n : ~CutOff(lines[i].throughput, lines[i - 1].throughput)
  BY <1>1, <1>3 DEF RestFollows
<1>12. LinesFollow'
  <2>1. \A i \in DOMAIN lines' : /\ lines'[i].sample_id = sample
                                 /\ i \in DOMAIN Plan /\ lines'[i].batch_size = Plan[i]
    BY <1>2, <1>3, <1>6, <1>10 DEF LinesFollow
  <2>2. \A i \in 2 .. n : ~CutOff(lines'[i].throughput, lines'[i - 1].throughput)
    BY <1>6, <1>11
  <2> QED
    BY <1>1, <1>5, <1>6, <2>1, <2>2 DEF LinesFollow, CutOff
<1>13. RestFollows'
  <2> SUFFICES ASSUME sizes' # <<>>
               PROVE  RestFollows'
    BY DEF RestFollows
  <2>1. ~CutOff(line.throughput, previous) /\ sizes' = Tail(sizes)
    BY <1>1
  <2>2. Len(sizes') = Len(Plan) - (n + 1)
    BY <1>1, <1>3, <1>6, <1>8, <1>9, <2>1 DEF RestFollows
  <2>3. \A j \in DOMAIN sizes' : sizes'[j] = Plan[n + 1 + j]
    <3> SUFFICES ASSUME NEW j \in 1 .. Len(sizes) - 1
                 PROVE  sizes'[j] = Plan[n + 1 + j]
      BY <1>8, <2>1 DEF IsSequence
    <3>1. sizes'[j] = sizes[j + 1] /\ j + 1 \in DOMAIN sizes
      BY <1>8, <2>1
    <3>2. sizes[j + 1] = Plan[n + (j + 1)]
      BY <1>1, <1>3, <3>1 DEF RestFollows
    <3> QED
      BY <1>6, <3>1, <3>2
  <2>4. \A i \in 2 .. n + 1 : ~CutOff(lines'[i].throughput, lines'[i - 1].throughput)
    <3> SUFFICES ASSUME NEW i \in 2 .. n + 1
                 PROVE  ~CutOff(lines'[i].throughput, lines'[i - 1].throughput)
      OBVIOUS
    <3>1. CASE i \in 2 .. n
      BY <1>6, <1>11, <3>1
    <3>2. CASE i = n + 1
      <4>1. lines'[i] = line /\ lines'[i - 1] = lines[n] /\ n # 0
        BY <1>6, <3>2
      <4>2. previous = lines[n].throughput
        BY <1>1, <1>3, <4>1 DEF RestFollows
      <4> QED
        BY <2>1, <4>1, <4>2
    <3> QED
      BY <1>6, <3>1, <3>2
  <2> QED
    BY <1>1, <1>5, <1>6, <2>2, <2>3, <2>4 DEF RestFollows, CutOff
<1>14. IsSequence(sizes')
  BY <1>1, <1>8, EmptySequence
<1> QED
  BY <1>1, <1>3, <1>4, <1>7, <1>12, <1>13, <1>14 DEF PlanInv, IsSequence

LEMMA InterruptPlan == PlanInv /\ InterruptScript => PlanInv'
<1> SUFFICES ASSUME PlanInv, InterruptScript
             PROVE  PlanInv'
  OBVIOUS
<1>1. /\ UNCHANGED <<command, results, sample>> /\ pc \in Unread /\ pc # "idle" /\ pc' = "leave"
      /\ lines' = <<>> /\ sizes' = <<>>
  BY DEF InterruptScript, NoProfiler, FileOfSession, Unread
<1> QED
  BY <1>1, ResultsStay, EmptySequence DEF PlanInv

\* The lines of the session come after the results of earlier samples.
LEMMA ReadResultsPlan == PlanInv /\ ReadResults => PlanInv'
<1> SUFFICES ASSUME PlanInv, ReadResults
             PROVE  PlanInv'
  OBVIOUS
<1>1. /\ UNCHANGED <<command, sample>> /\ pc = "read" /\ pc' = "leave"
      /\ lines' = <<>> /\ sizes' = <<>>
      /\ results' = results \/ results' = results \o lines
  BY DEF ReadResults, NoProfiler, FileOfSession
<1>2. CASE results' = results
  BY <1>1, <1>2, ResultsStay, EmptySequence DEF PlanInv, Unread
<1>3. CASE results' = results \o lines
  <2> DEFINE n == Len(results)
             m == Len(lines)
  <2>1. /\ IsSequence(results) /\ IsSequence(lines) /\ command \in Commands
        /\ SamplesInOrder /\ ResultsGoOn /\ ResultsFollow /\ LinesFollow
    BY <1>1 DEF PlanInv
  <2>2. IsSequence(results')
    BY <1>3, <2>1, Concatenated
  <2>3. /\ n \in Nat /\ m \in Nat /\ DOMAIN results = 1 .. n /\ DOMAIN lines = 1 .. m
        /\ DOMAIN results' = 1 .. n + m
        /\ \A i \in 1 .. n : results'[i] = results[i]
        /\ \A i \in 1 .. m : results'[n + i] = lines[i]
    BY <1>3, <2>1 DEF IsSequence
  <2>4. \A i \in DOMAIN results' : i > n => i - n \in DOMAIN lines /\ results'[i] = lines[i - n]
    BY <2>3
  <2>5. sample \in Nat /\ sample \in 0 .. LastSample
    BY <2>1, LastSampleIsNat DEF SamplesInOrder
  <2>6. \A i \in 1 .. n : /\ results'[i].sample_id \in 0 .. sample - 1
                          /\ results'[i].sample_id # sample
    BY <1>1, <2>1, <2>3, <2>5 DEF SamplesInOrder, Unread
  <2>7. \A i \in DOMAIN results' : i > n => results'[i].sample_id = sample
    BY <2>1, <2>4 DEF LinesFollow
  <2>8. SamplesInOrder'
    <3>1. \A i \in DOMAIN results' : results'[i].sample_id \in 0 .. sample
      BY <2>3, <2>5, <2>6, <2>7
    <3>2. ASSUME NEW i \in DOMAIN results', NEW j \in DOMAIN results', i < j
          PROVE  results'[i].sample_id <= results'[j].sample_id
      <4>1. CASE j <= n
        BY <2>1, <2>3, <3>2, <4>1 DEF SamplesInOrder
      <4>2. CASE j > n
        BY <2>5, <2>7, <3>1, <4>2
      <4> QED
        BY <2>3, <4>1, <4>2
    <3>3. LastSample' = LastSample
      BY <1>1 DEF LastSample, FromDataloader
    <3> QED
      BY <1>1, <2>5, <3>1, <3>2, <3>3 DEF SamplesInOrder, Unread
  <2>9. ResultsGoOn'
    <3> SUFFICES ASSUME NEW i \in DOMAIN results', NEW j \in DOMAIN results', i < j,
                        SameSample(i, j)', j + 1 \in DOMAIN results', SameSample(i, j + 1)'
                 PROVE  ~CutOff(results'[j].throughput, results'[j - 1].throughput)
      BY <1>1 DEF ResultsGoOn, CutOff
    <3>1. CASE i <= n
      <4>1. j <= n /\ j + 1 <= n
        BY <2>3, <2>6, <2>7, <3>1 DEF SameSample
      <4>2. /\ i \in DOMAIN results /\ j \in DOMAIN results /\ j + 1 \in DOMAIN results
            /\ j - 1 \in DOMAIN results
        BY <2>3, <4>1
      <4>3. SameSample(i, j) /\ SameSample(i, j + 1)
        BY <2>3, <4>2 DEF SameSample
      <4>4. results'[j] = results[j] /\ results'[j - 1] = results[j - 1]
        BY <2>3, <4>2
      <4> QED
        BY <2>1, <4>2, <4>3, <4>4 DEF ResultsGoOn
    <3>2. CASE i > n
      <4>1. /\ j - n \in 2 .. m - 1
            /\ results'[j] = lines[j - n] /\ results'[j - 1] = lines[(j - n) - 1]
        <5>1. j > n /\ j - 1 > n /\ j - 1 \in DOMAIN results' /\ (j - 1) - n = (j - n) - 1
          BY <2>3, <3>2
        <5> QED
          BY <2>3, <2>4, <5>1
      <4> QED
        BY <2>1, <4>1 DEF LinesFollow
    <3> QED
      BY <2>3, <3>1, <3>2
  <2>10. ResultsFollow'
    <3> SUFFICES ASSUME NEW i \in DOMAIN results', NEW j \in DOMAIN results',
                        FirstOfSample(i)', i <= j, SameSample(i, j)'
                 PROVE  j - i + 1 \in DOMAIN Plan /\ results'[j].batch_size = Plan[j - i + 1]
      BY <1>1 DEF ResultsFollow, Plan, BatchSizes
    <3>1. CASE i <= n
      <4>1. j <= n
        BY <2>3, <2>6, <2>7, <3>1 DEF SameSample
      <4>2. i \in DOMAIN results /\ j \in DOMAIN results
        BY <2>3, <3>1, <4>1
      <4>3. results'[i] = results[i] /\ results'[j] = results[j]
            /\ (i # 1 => results'[i - 1] = results[i - 1])
        BY <2>3, <4>2
      <4>4. FirstOfSample(i) /\ SameSample(i, j)
        BY <4>3 DEF FirstOfSample, SameSample
      <4> QED
        BY <2>1, <4>2, <4>3, <4>4 DEF ResultsFollow
    <3>2. CASE i > n
      <4>1. i = n + 1
        <5> SUFFICES ASSUME i # n + 1
                     PROVE  FALSE
          OBVIOUS
        <5>1. i - 1 > n /\ i - 1 \in DOMAIN results' /\ i # 1
          BY <2>3, <3>2
        <5> QED
          BY <2>7, <3>2, <5>1 DEF FirstOfSample
      <4>2. j - n \in DOMAIN lines /\ results'[j] = lines[j - n] /\ j - i + 1 = j - n
        <5>1. j > n /\ j - i + 1 = j - n
          BY <2>3, <4>1
        <5> QED
          BY <2>4, <5>1
      <4> QED
        BY <2>1, <4>2 DEF LinesFollow
    <3> QED
      BY <2>3, <3>1, <3>2
  <2> QED
    BY <1>1, <2>1, <2>2, <2>8, <2>9, <2>10, EmptySequence DEF PlanInv, IsSequence
<1> QED
  BY <1>1, <1>2, <1>3

LEMMA PlanStutter == PlanInv /\ UNCHANGED vars => PlanInv'
<1> SUFFICES ASSUME PlanInv, UNCHANGED vars
             PROVE  PlanInv'
  OBVIOUS
<1>1. UNCHANGED <<command, results, sample, lines, sizes, previous, pc>>
  BY DEF vars, profiler
<1>2. pc # "idle" => (SamplesInOrder /\ ResultsGoOn /\ ResultsFollow)'
  BY <1>1, ResultsStay
<1>3. pc \in {"activate", "measure", "read"} => LinesFollow'
  BY <1>1 DEF PlanInv, LinesFollow, Plan, BatchSizes, CutOff
<1>4. pc \in {"activate", "measure"} => RestFollows'
  BY <1>1 DEF PlanInv, RestFollows, Plan, BatchSizes, CutOff
<1> QED
  BY <1>1, <1>2, <1>3, <1>4 DEF PlanInv

\* The plan, what of it was measured and what is read of that.
THEOREM PlanInvariance == Spec => []PlanInv
<1>1. PlanInv /\ [Next]_vars => PlanInv'
  BY BeginPlan, CommandPlan, EndPlan, ShowConsolePlan, StartSessionPlan, ProfilerPlan, ReportPlan,
     InterruptPlan, ReadResultsPlan, PlanStutter
  DEF Next
<1> QED
  BY InitPlan, <1>1, PTL DEF Spec

\* However its sessions end, the results of a command are a beginning of the
\* plan for each sample (Profiler.run, Performance._run, Profile._run).
THEOREM PlanFollowed == Spec => []ResultsFollowThePlan
<1>1. PlanInv => ResultsFollowThePlan
  <2> SUFFICES ASSUME PlanInv, pc = "end"
               PROVE  ResultsFollowThePlan
    BY DEF ResultsFollowThePlan
  <2>1. command \in Commands /\ SamplesInOrder /\ ResultsGoOn /\ ResultsFollow
    BY DEF PlanInv
  <2>2. \A i \in DOMAIN results : results[i].sample_id \in 0 .. LastSample
    BY <2>1, LastSampleIsNat DEF SamplesInOrder, Unread
  <2> QED
    BY <2>1, <2>2 DEF SamplesInOrder, ResultsGoOn, ResultsFollow, ResultsFollowThePlan, Plan
<1> QED
  BY PlanInvariance, <1>1, PTL

----------------------------------------------------------------------------
(* The handlers *)

Handlers == Consoles \cup {"navigator.log", "format.log"}

\* Every console of the process is a handler or was taken away, once, and
\* some was taken away before the loop passes one that stays.
HandlersInv ==
    /\ attached \subseteq Consoles
    /\ handlers \in Seq(Handlers) /\ Distinct(handlers)
    /\ disabled \in Seq(Consoles) /\ Distinct(disabled)
    /\ ToSet(handlers) \cap ToSet(disabled) = {}
    /\ attached = (ToSet(handlers) \cup ToSet(disabled)) \cap Consoles

FormatLogInv == pc # "idle" <=> "format.log" \in ToSet(handlers)

LoopInv ==
    /\ position \in Nat \ {0}
    /\ pc \notin {"hide", "logged"} => disabled = <<>>
    /\ pc = "hide" => ~command.source
    /\ pc \in {"hide", "logged"} /\ ~command.source =>
          \A i \in DOMAIN handlers :
             handlers[i] \in Consoles /\ (pc = "hide" => i < position) => disabled # <<>>

ConsoleInv == HandlersInv /\ FormatLogInv /\ LoopInv

LEMMA NoDisabled == <<>> \in Seq(Consoles) /\ Distinct(<<>>) /\ ToSet(<<>>) = {}
BY DEF Distinct, ToSet

\* The sequences of all the elements of a finite set have them all.
LEMMA OrderedSet ==
    ASSUME NEW S, IsFiniteSet(S), NEW s \in SetToSeqs(S)
    PROVE  s \in Seq(S) /\ Distinct(s) /\ ToSet(s) = S
<1> DEFINE D == 1 .. Cardinality(S)
<1>1. Cardinality(S) \in Nat
  BY FS_CardinalityType
<1>2. IsFiniteSet(D) /\ Cardinality(D) = Cardinality(S)
  BY <1>1, FS_Interval
<1>3. s \in [D -> S] /\ \A i, j \in D : i # j => s[i] # s[j]
  BY DEF SetToSeqs
<1>4. s \in Injection(D, S)
  BY <1>3 DEF Injection, IsInjective
<1>5. s \in Surjection(D, S)
  BY <1>2, <1>4, FS_Injection
<1>6. s \in Seq(S) /\ Distinct(s)
  BY <1>1, <1>3 DEF Distinct
<1>7. ToSet(s) = S
  BY <1>3, <1>5 DEF Surjection, ToSet
<1> QED
  BY <1>6, <1>7

LEMMA InitConsole == Init => ConsoleInv
<1> SUFFICES ASSUME Init
             PROVE  ConsoleInv
  OBVIOUS
<1>1. PICK s \in SetToSeqs(attached), f \in {<<>>, <<"navigator.log">>} : handlers = s \o f
  BY DEF Init
<1>2. attached \subseteq Consoles /\ IsFiniteSet(attached)
  BY SessionAssumption, FS_Subset DEF Init, SessionAssumption
<1>3. s \in Seq(attached) /\ Distinct(s) /\ ToSet(s) = attached
  BY <1>2, OrderedSet
<1>4. s \in Seq(Handlers)
  BY <1>2, <1>3 DEF Handlers
<1>5. f \in Seq(Handlers) /\ Distinct(f) /\ ToSet(f) \subseteq {"navigator.log"}
  <2>1. CASE f = <<>>
    BY <2>1 DEF Distinct, ToSet
  <2>2. CASE f = <<"navigator.log">>
    BY <2>2 DEF Handlers, Distinct, ToSet
  <2> QED
    BY <2>1, <2>2
<1>6. "navigator.log" \notin Consoles /\ "format.log" \notin Consoles
  BY SessionAssumption DEF SessionAssumption
<1>7. handlers \in Seq(Handlers) /\ Distinct(handlers) /\ ToSet(handlers) = attached \cup ToSet(f)
  BY <1>1, <1>2, <1>3, <1>4, <1>5, <1>6, SequenceAppended
<1>8. disabled = <<>> /\ pc = "idle" /\ position = 1
  BY DEF Init
<1> QED
  BY <1>2, <1>5, <1>6, <1>7, <1>8, NoDisabled DEF ConsoleInv, HandlersInv, FormatLogInv, LoopInv

\* Steps that leave the handlers alone.
LEMMA ElsewhereStep ==
    ASSUME ConsoleInv, UNCHANGED <<logging, command>>,
           pc \notin {"idle", "hide", "logged"}, pc' \notin {"idle", "hide", "logged"}
    PROVE  ConsoleInv'
BY DEF ConsoleInv, HandlersInv, FormatLogInv, LoopInv, logging

LEMMA OtherSteps ==
    ConsoleInv /\ (SkipCommand \/ ClearSamples \/ WriteSample \/ SampleFails \/ StartSession
                   \/ ActivateRunner \/ MeasureWindow \/ MeasureStabilized \/ Report \/ Exit
                   \/ ScriptRaises \/ ScriptKilled \/ InterruptScript \/ ReadResults)
       => ConsoleInv'
BY ElsewhereStep
DEF SkipCommand, ClearSamples, WriteSample, SampleFails, StartSession, ActivateRunner,
    MeasureWindow, MeasureStabilized, Report, Exit, ScriptRaises, ScriptKilled, InterruptScript,
    ReadResults, logging

LEMMA BeginConsole == ConsoleInv /\ Begin => ConsoleInv'
<1> SUFFICES ASSUME ConsoleInv, Begin
             PROVE  ConsoleInv'
  OBVIOUS
<1>1. /\ pc = "idle" /\ pc' = "file" /\ handlers' = Append(handlers, "format.log")
      /\ UNCHANGED <<attached, disabled, position>>
  BY DEF Begin
<1>2. "format.log" \in Handlers /\ "format.log" \notin Consoles
  BY SessionAssumption DEF SessionAssumption, Handlers
<1>3. /\ handlers' \in Seq(Handlers) /\ Distinct(handlers')
      /\ ToSet(handlers') = ToSet(handlers) \cup {"format.log"}
  BY <1>1, <1>2, ElementAppended DEF ConsoleInv, HandlersInv, FormatLogInv
<1>4. disabled = <<>> /\ disabled' = <<>>
  BY <1>1 DEF ConsoleInv, LoopInv
<1>5. HandlersInv'
  BY <1>1, <1>2, <1>3, <1>4, NoDisabled DEF ConsoleInv, HandlersInv
<1> QED
  BY <1>1, <1>3, <1>4, <1>5 DEF ConsoleInv, FormatLogInv, LoopInv

LEMMA EndConsole == ConsoleInv /\ End => ConsoleInv'
<1> SUFFICES ASSUME ConsoleInv, End
             PROVE  ConsoleInv'
  OBVIOUS
<1>1. PICK i \in DOMAIN handlers :
         handlers[i] = "format.log" /\ handlers' = RemoveAt(handlers, i)
  BY DEF End
<1>2. /\ pc = "end" /\ pc' = "idle" /\ UNCHANGED <<attached, disabled, position>>
  BY DEF End
<1>3. /\ handlers' \in Seq(Handlers) /\ Distinct(handlers')
      /\ ToSet(handlers') = ToSet(handlers) \ {"format.log"}
  BY <1>1, ElementRemoved DEF ConsoleInv, HandlersInv
<1>4. disabled = <<>> /\ disabled' = <<>>
  BY <1>2 DEF ConsoleInv, LoopInv
<1>5. "format.log" \notin Consoles
  BY SessionAssumption DEF SessionAssumption
<1>6. HandlersInv'
  BY <1>2, <1>3, <1>4, <1>5, NoDisabled DEF ConsoleInv, HandlersInv
<1> QED
  BY <1>2, <1>3, <1>4, <1>6 DEF ConsoleInv, FormatLogInv, LoopInv

LEMMA HideConsoleStep == ConsoleInv /\ HideConsole => ConsoleInv'
BY DEF HideConsole, ConsoleInv, HandlersInv, FormatLogInv, LoopInv

LEMMA HideHandlerStep == ConsoleInv /\ HideHandler => ConsoleInv'
<1> SUFFICES ASSUME ConsoleInv, HideHandler
             PROVE  ConsoleInv'
  OBVIOUS
<1> DEFINE h == handlers[position]
<1>1. /\ pc = "hide" /\ pc' = "hide" /\ UNCHANGED <<attached, command>>
      /\ position' = position + 1 /\ position \in Nat \ {0}
      /\ position \in DOMAIN handlers
  BY DEF HideHandler, ConsoleInv, HandlersInv, LoopInv
<1>2. CASE h \notin Consoles
  <2>1. UNCHANGED <<handlers, disabled>>
    BY <1>2 DEF HideHandler, IsFile
  <2>2. \A i \in DOMAIN handlers : i < position' => i < position \/ i = position
    BY <1>1 DEF ConsoleInv, HandlersInv
  <2> QED
    BY <1>1, <1>2, <2>1, <2>2 DEF ConsoleInv, HandlersInv, FormatLogInv, LoopInv
<1>3. CASE h \in Consoles
  <2>1. disabled' = Append(disabled, h) /\ handlers' = RemoveAt(handlers, position)
    BY <1>3 DEF HideHandler, IsFile
  <2>2. h \in ToSet(handlers)
    BY <1>1 DEF ToSet
  <2>3. /\ handlers' \in Seq(Handlers) /\ Distinct(handlers')
        /\ ToSet(handlers') = ToSet(handlers) \ {h}
    BY <1>1, <2>1, ElementRemoved DEF ConsoleInv, HandlersInv
  <2>4. /\ disabled' \in Seq(Consoles) /\ Distinct(disabled')
        /\ ToSet(disabled') = ToSet(disabled) \cup {h}
    BY <1>3, <2>1, <2>2, ElementAppended DEF ConsoleInv, HandlersInv
  <2>5. disabled' # <<>>
    BY <2>4, NoDisabled
  <2>6. HandlersInv'
    BY <1>1, <1>3, <2>2, <2>3, <2>4 DEF ConsoleInv, HandlersInv
  <2>7. h # "format.log"
    BY <1>3, SessionAssumption DEF SessionAssumption
  <2> QED
    BY <1>1, <2>3, <2>5, <2>6, <2>7 DEF ConsoleInv, FormatLogInv, LoopInv
<1> QED
  BY <1>2, <1>3

LEMMA LogStep == ConsoleInv /\ Log => ConsoleInv'
BY DEF Log, logging, ConsoleInv, HandlersInv, FormatLogInv, LoopInv

LEMMA ShowConsoleStep == ConsoleInv /\ ShowConsole => ConsoleInv'
<1> SUFFICES ASSUME ConsoleInv, ShowConsole
             PROVE  ConsoleInv'
  OBVIOUS
<1>1. /\ pc = "logged" /\ pc' \in {"end", "sample"} /\ UNCHANGED <<attached, position, command>>
      /\ handlers' = handlers \o disabled /\ disabled' = <<>>
  BY DEF ShowConsole, RemovedHandlers
<1>2. disabled \in Seq(Handlers)
  BY DEF ConsoleInv, HandlersInv, Handlers
<1>3. /\ handlers' \in Seq(Handlers) /\ Distinct(handlers')
      /\ ToSet(handlers') = ToSet(handlers) \cup ToSet(disabled)
  BY <1>1, <1>2, SequenceAppended DEF ConsoleInv, HandlersInv
<1>4. HandlersInv'
  BY <1>1, <1>3, NoDisabled DEF ConsoleInv, HandlersInv
<1> QED
  BY <1>1, <1>3, <1>4 DEF ConsoleInv, FormatLogInv, LoopInv

LEMMA ConsoleStutter == ConsoleInv /\ UNCHANGED vars => ConsoleInv'
BY DEF vars, logging, ConsoleInv, HandlersInv, FormatLogInv, LoopInv

\* The handlers, the removed ones and the loop that removes them.
THEOREM ConsoleInvariance == Spec => []ConsoleInv
<1>1. ConsoleInv /\ [Next]_vars => ConsoleInv'
  BY OtherSteps, BeginConsole, EndConsole, HideConsoleStep, HideHandlerStep, LogStep,
     ShowConsoleStep, ConsoleStutter
  DEF Next
<1> QED
  BY InitConsole, <1>1, PTL DEF Spec

\* After every command, and while none is logged, each console is there once
\* (FileHandlersLogging, LoggingContext).
THEOREM ConsolesStay == Spec => []ConsoleComesBack
<1>1. ConsoleInv => ConsoleComesBack
  <2> SUFFICES ASSUME ConsoleInv
               PROVE  ConsoleComesBack
    OBVIOUS
  <2> DEFINE shown == {i \in DOMAIN handlers : ~IsFile(handlers[i])}
  <2>1. {handlers[i] : i \in shown} = ToSet(handlers) \cap Consoles
    BY DEF ToSet, IsFile
  <2>2. pc \notin {"hide", "logged"} => attached = {handlers[i] : i \in shown}
    BY <2>1, NoDisabled DEF ConsoleInv, HandlersInv, LoopInv
  <2>3. \A i, j \in shown : handlers[i] = handlers[j] => i = j
    BY DEF ConsoleInv, HandlersInv, Distinct
  <2>4. pc = "idle" => "format.log" \notin ToSet(handlers)
    BY DEF ConsoleInv, FormatLogInv
  <2>5. ASSUME pc = "logged", ~command.source, NEW h \in Consoles, attached = {h}
        PROVE  shown = {}
    <3> SUFFICES ASSUME NEW i \in shown
                 PROVE  FALSE
      OBVIOUS
    <3>1. handlers[i] \in Consoles /\ handlers[i] \in ToSet(handlers)
      BY DEF IsFile, ToSet
    <3>2. disabled # <<>>
      BY <2>5, <3>1 DEF ConsoleInv, LoopInv
    <3>3. disabled[1] \in ToSet(disabled) /\ disabled[1] \in Consoles
      BY <3>2 DEF ConsoleInv, HandlersInv, ToSet
    <3> QED
      BY <2>5, <3>1, <3>3 DEF ConsoleInv, HandlersInv
  <2> QED
    BY <2>2, <2>3, <2>4, <2>5 DEF ConsoleComesBack
<1> QED
  BY ConsoleInvariance, <1>1, PTL
=============================================================================
