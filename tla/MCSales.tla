------------------------------- MODULE MCSales -------------------------------
(* Instances of the POS side for TLC. *)
EXTENDS SalesInvoices, TLC

CONSTANTS i1, i2, v1, v2, b1, b2, c1, c2

MCBaskets == {{i1}, {i1, i2}}
MCEdits == {[branch |-> b2, items |-> {}], [branch |-> None, items |-> {i2}]}
MCSymmetry == Permutations(Invoices) \cup Permutations(Calls)
=============================================================================
