---------------------------- MODULE MCComplement ----------------------------
(* Instances of Complement for TLC. *)
EXTENDS Complement, TLC

Symmetry ==
    Permutations(Areas) \cup Permutations(Objects) \cup Permutations(CallIds)
=============================================================================
