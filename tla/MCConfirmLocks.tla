--------------------------- MODULE MCConfirmLocks ---------------------------
(* Two invoices over the same two pieces: every pair of transactions meets *)
(* on some row, and confirms may lock the pieces in opposite orders.       *)
EXTENDS ConfirmLocks

CONSTANTS i1, i2, v1, v2

MCLines == [v \in Invoices |-> {i1, i2}]
=============================================================================
