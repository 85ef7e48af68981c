--------------------------- MODULE MCPackageStore ---------------------------
(* Instance of PackageStore for TLC. *)
EXTENDS PackageStore, TLC

(* Slots and directories are interchangeable: nothing chooses among them. *)
Symmetry == Permutations(Slots) \cup Permutations(Directories)
=============================================================================
