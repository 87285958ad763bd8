--------------------------- MODULE MCLocalHandoff ---------------------------
(***************************************************************************)
(* Two worker lanes and a person on one handoff: four changes are enough   *)
(* for a failed attempt, its retry by the other lane, and a result.        *)
(***************************************************************************)
EXTENDS LocalHandoff, TLC

Symmetry == Permutations(Lanes) \cup Permutations(Facts)
=============================================================================
