----------------------------- MODULE MCReturns -----------------------------
(* Two invoices for one piece, and two requests at the return desk.        *)
EXTENDS SalesReturns, TLC

CONSTANTS i1

OneBasket == {{i1}}
Retotal == {[branch |-> None, items |-> {i1}]}
MCSymmetry == Permutations(Returns) \cup Permutations(Refunds) \cup Permutations(Clerks)
              \cup Permutations(Invoices)
=============================================================================
