--------------------------- MODULE MCContactDamage ---------------------------
(* Two motors: the shipped proportions of kick and cooldown, at their limit. *)
EXTENDS ContactDamage, TLC
Symmetry == Permutations(Motors)
=============================================================================
