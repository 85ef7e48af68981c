-------------------------- MODULE MCTensorRTRunner --------------------------
(* A small device for TensorRTRunner.  Blocks and inputs are interchangeable. *)
EXTENDS TensorRTRunner, TLC

DeviceSymmetry == Permutations(Addresses) \cup Permutations(Inputs)
=============================================================================
