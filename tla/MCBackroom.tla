----------------------------- MODULE MCBackroom -----------------------------
(* One piece, two branches, and two of everything the office may overlap. *)
EXTENDS Backroom, TLC

MCSymmetry == Permutations(Transfers) \cup Permutations(Slots) \cup Permutations(Branches)
=============================================================================
