----------------------------- MODULE MCShowroom -----------------------------
(* An instance of the two counters for TLC. *)
EXTENDS ShowroomRaces, TLC

CONSTANTS i1, i2

OneBasket == {{i1, i2}}
SlipLists == {{i1}, {i1, i2}}
NoEdits == {}
MCSymmetry == Permutations(Invoices) \cup Permutations(Slips) \cup Permutations(Calls)
=============================================================================
