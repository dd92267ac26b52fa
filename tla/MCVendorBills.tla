--------------------------- MODULE MCVendorBills ---------------------------
(* Two pieces ordered, so that a receipt, a bill and a payment can be partial. *)
EXTENDS VendorBills, TLC

MCSymmetry == Permutations(Bills) \cup Permutations(Payments) \cup Permutations(Clerks)
=============================================================================
