------------------------------ MODULE MCPhotos ------------------------------
(* Instances of Photos for TLC. *)
EXTENDS Photos, TLC

Symmetry ==
    Permutations(Users) \cup Permutations(Keys) \cup Permutations(CallIds)
=============================================================================
