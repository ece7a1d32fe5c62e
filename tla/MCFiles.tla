------------------------------- MODULE MCFiles -------------------------------
(* Instances of Files for TLC. *)
EXTENDS Files, TLC

Symmetry == Permutations(Client) \cup Permutations(File) \cup Permutations(Name)
=============================================================================
