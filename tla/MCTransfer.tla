------------------------------ MODULE MCTransfer ------------------------------
(* Small instances of Transfer for TLC. *)
EXTENDS Transfer, TLC

Symmetry == Permutations(Commands) \cup Permutations(Outputs) \cup Permutations(Jobs)
=============================================================================
