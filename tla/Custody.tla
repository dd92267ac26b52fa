------------------------------ MODULE Custody ------------------------------
(***************************************************************************)
(* What the sales and approval counters promise about the pieces, said     *)
(* without requests, statuses or journals: where each piece is, and that   *)
(* whole documents move pieces, all of their lines or none.                *)
(***************************************************************************)
CONSTANTS
    Items,
    Slips,     \* documents that lend pieces
    Invoices,  \* documents that sell pieces
    Shop       \* the holder of a piece that is on the shelf

VARIABLE holder  \* item -> Shop, the slip it is out on, the invoice it went on

CustodyTypeOK == holder \in [Items -> {Shop} \cup Slips \cup Invoices]

CustodyInit == holder = [i \in Items |-> Shop]

Held(d) == {i \in Items : holder[i] = d}

Move(S, d) == holder' = [i \in Items |-> IF i \in S THEN d ELSE holder[i]]

Lend(S, a) == S # {} /\ S \subseteq Held(Shop) /\ Move(S, a)

TakeBack(S) == S # {} /\ (\A i \in S : holder[i] \in Slips) /\ Move(S, Shop)

\* An invoice sells once, from the shelf or from slips, and for good: no
\* action takes a piece from an invoice.
Sell(S, v) ==
    /\ S # {}
    /\ Held(v) = {}
    /\ \A i \in S : holder[i] \in {Shop} \cup Slips
    /\ Move(S, v)

CustodyNext ==
    \E S \in SUBSET Items :
        \/ \E a \in Slips : Lend(S, a)
        \/ TakeBack(S)
        \/ \E v \in Invoices : Sell(S, v)

CustodySpec == CustodyInit /\ [][CustodyNext]_holder

-----------------------------------------------------------------------------
(* The stricter promise the slips make on paper: a slip lends once, and    *)
(* ends as a whole, by one return or one sale.                             *)

WholeSlipNext ==
    \/ \E S \in SUBSET Items, a \in Slips : Held(a) = {} /\ Lend(S, a)
    \/ \E a \in Slips : TakeBack(Held(a))
    \/ \E a \in Slips, v \in Invoices : Sell(Held(a), v)
    \/ \E S \in SUBSET Items, v \in Invoices :
          S \subseteq Held(Shop) /\ Sell(S, v)
=============================================================================
