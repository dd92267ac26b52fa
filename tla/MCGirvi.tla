------------------------------ MODULE MCGirvi ------------------------------
(* Two collections: a part of the principal and a settlement of the rest. *)
EXTENDS GirviLoans, TLC

MCSymmetry == Permutations(Collections) \cup Permutations(Collaterals) \cup Permutations(Clerks)
=============================================================================
