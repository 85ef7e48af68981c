------------------------- MODULE MCRuntimeAnalyzer -------------------------
(***************************************************************************)
(* RuntimeAnalyzer on every package of two models with up to two profiling *)
(* results each, and of three models with at most one.                     *)
(***************************************************************************)
EXTENDS RuntimeAnalyzer

Values == 1..2

Measurements == [latency : Values, throughput : Values]

\* Results exist for a successful performance only.
Outcomes(length) ==
  {[correctness |-> "OK", performance |-> "OK", results |-> r] :
     r \in UNION {[1..n -> Measurements] : n \in 1..length}}
  \cup {[correctness |-> "FAIL", performance |-> "OK",
         results |-> << [latency |-> 1, throughput |-> 2] >>],
        [correctness |-> "OK", performance |-> "SKIPPED", results |-> <<>>]}

Entry(model, format, runner, o) ==
  [model |-> model, format |-> format, runner |-> runner,
   correctness |-> o.correctness, performance |-> o.performance, results |-> o.results]

MCPackages ==
  { <<>> }
  \cup {<< Entry("torch", "torch", "TorchCUDA", a), Entry("onnx", "onnx", "OnnxCUDA", b) >> :
        a, b \in Outcomes(2)}
  \cup {<< Entry("torch", "torch", "TorchCUDA", a), Entry("onnx", "onnx", "OnnxCUDA", b),
           Entry("onnx", "onnx", "OnnxTensorRT", c) >> : a, b, c \in Outcomes(1)}

AllFormats == {"torch", "onnx"}
AllRunners == {"TorchCUDA", "OnnxCUDA", "OnnxTensorRT"}

Ask(kind, budget, formats, runners, runner) ==
  [kind |-> kind, budget |-> budget, formats |-> formats, runners |-> runners,
   model |-> "onnx", runner |-> runner]

Searches == Kinds \ {"SelectedRuntime"}

MCStrategies ==
  {Ask(k, 1, f, r, "OnnxCUDA") :
     k \in Searches, f \in {AllFormats, {"onnx"}}, r \in {AllRunners, {"OnnxCUDA"}}}
  \cup {Ask("SelectedRuntime", 1, AllFormats, AllRunners, r) : r \in {"OnnxCUDA", "OnnxTensorRT"}}
=============================================================================
