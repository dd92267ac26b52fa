----------------------------- MODULE MCPayments -----------------------------
(* Payments and deposits of 1 or 2 and old gold worth 1 or 3, against an invoice *)
(* of the counter and one of a slip, each of 2; the slip asks for a deposit of 3. *)
EXTENDS SalesPayments, TLC

CONSTANTS v1, v2 \* the invoices of the counter and of the slip

MCTotal == [v \in Invoices |-> 2]
MCRequired == [v \in Converted |-> 3]
MCSymmetry == Permutations(Payments) \cup Permutations(Exchanges) \cup Permutations(Calls)
=============================================================================
