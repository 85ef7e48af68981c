------------------------- MODULE MCProfilingSession -------------------------
(***************************************************************************)
(* Optimization profiles for ProfilingSession: a limit that is no power of *)
(* two, a list in any order, and the search without limit, with windows    *)
(* that never, seldom and often agree.                                     *)
(***************************************************************************)
EXTENDS ProfilingSession

MCProfiles ==
    {[max_batch_size |-> 3, batch_sizes |-> <<>>, max_trials |-> 2, stability |-> 10, cutoff |-> 5],
     [max_batch_size |-> 0, batch_sizes |-> <<2, 1>>, max_trials |-> 4, stability |-> 60, cutoff |-> 5],
     [max_batch_size |-> 0, batch_sizes |-> <<>>, max_trials |-> 1, stability |-> 10, cutoff |-> -200]}
=============================================================================
