------------------------------ MODULE MCFolium ------------------------------
(* Instances of Folium for TLC. *)
EXTENDS Folium, TLC

Symmetry == Permutations(Users) \cup Permutations(CallIds)
=============================================================================
