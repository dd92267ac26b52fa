---------------------------- MODULE VendorBills ----------------------------
(***************************************************************************)
(* Buying: one purchase order with one line, its receipts, the bills the   *)
(* vendor writes for it, their payments, and the debit notes of goods that *)
(* went back (purchase.service.ts, purchaseBill.service.ts,                *)
(* vendorPayment.service.ts, purchaseReturn.service.ts).  Every handler    *)
(* sums or reads without a lock, then writes without a condition.          *)
(*                                                                         *)
(* Money: a piece costs one unit, so the total of a bill is its quantity.  *)
(* The pieces a return takes are in Backroom; what comes before an approved *)
(* order or an approved purchase return is not modelled.                   *)
(***************************************************************************)
EXTENDS Integers, FiniteSets, Functions

CONSTANTS
    Ordered,  \* orderedQuantity of the line
    Bills,    \* identities of purchase_bills rows, used or not
    Payments, \* identities of vendor_payments rows, used or not
    Returns,  \* APPROVED purchase_returns, each of goods on one bill
    Quantities, \* what a receipt, a bill or a payment may ask for
    Amounts,  \* what a purchase return may be worth
    Clerks,   \* request slots
    Order,    \* the purchase_orders row
    None

Documents == {Order} \cup Bills \cup Payments \cup Returns

ASSUME VendorAssumption ==
    /\ Ordered \in Nat /\ Quantities \subseteq Nat \ {0} /\ Amounts \subseteq Nat
    /\ IsFiniteSet(Bills) /\ IsFiniteSet(Payments) /\ IsFiniteSet(Returns)
    /\ Order \notin Bills /\ None \notin Documents /\ Bills \cap (Payments \cup Returns) = {}

VARIABLES
    order,   \* purchase_orders.status and receivedQuantity of its line
    bill,    \* row -> purchase_bills columns
    payment, \* row -> vendor_payments columns
    vreturn, \* row -> purchase_returns columns; approved ones never change
    notes,   \* returns with a vendor_debit_notes row (purchaseReturnId is unique)
    slot,    \* slot -> what the handler in it has read so far
    met      \* history: the order and the bills on which two requests have met

rows == <<order, bill, payment, vreturn, notes>>
vars == <<rows, slot, met>>

Bill == [status : {"NONE", "DRAFT", "SUBMITTED", "APPROVED", "PARTIALLY_PAID", "PAID",
                   "CANCELLED"},
         qty : Nat, paid : Nat, owed : Nat]

VendorPayment == [status : {"NONE", "COMPLETED", "REVERSED"}, bill : Bills \cup {None},
                  amount : Nat]

Reading == [op : {"idle", "receive", "bill", "edit", "pay", "reverse", "summed", "debit",
                  "noted", "SUBMITTED", "APPROVED", "CANCELLED"},
            doc : Documents \cup {None}, on : Documents \cup {None}, n : Nat, read : Nat]

Idle == [op |-> "idle", doc |-> None, on |-> None, n |-> 0, read |-> 0]

VendorTypeOK ==
    /\ order \in [status : {"APPROVED", "RECEIVING", "COMPLETED", "CANCELLED"}, received : Nat]
    /\ bill \in [Bills -> Bill]
    /\ payment \in [Payments -> VendorPayment]
    /\ vreturn \in [Returns -> [bill : Bills, amount : Amounts]]
    /\ notes \subseteq Returns
    /\ slot \in [Clerks -> Reading]
    /\ met \subseteq {Order} \cup Bills

Init ==
    /\ order = [status |-> "APPROVED", received |-> 0]
    /\ bill = [b \in Bills |-> [status |-> "NONE", qty |-> 0, paid |-> 0, owed |-> 0]]
    /\ payment = [p \in Payments |-> [status |-> "NONE", bill |-> None, amount |-> 0]]
    /\ vreturn \in [Returns -> [bill : Bills, amount : Amounts]]
    /\ notes = {}
    /\ slot = [c \in Clerks |-> Idle]
    /\ met = {}

Begin(c, r) == slot[c] = Idle /\ slot' = [slot EXCEPT ![c] = r] /\ UNCHANGED rows
Finish(c) == slot' = [slot EXCEPT ![c] = Idle]

\* Mutant: the difference is stored as it is.
Unclamped(n) == n

AtLeast0(n) == IF n < 0 THEN 0 ELSE n

-----------------------------------------------------------------------------
(* submit, approve and cancel of a bill, and cancel of the order: the      *)
(* status is read, and then overwritten.                                   *)

From(d, to) ==
    IF d = Order THEN IF to = "CANCELLED" THEN {"APPROVED"} ELSE {}
    ELSE CASE to = "SUBMITTED" -> {"DRAFT"}
           [] to = "APPROVED" -> {"SUBMITTED"}
           [] to = "CANCELLED" -> {"DRAFT", "SUBMITTED"}

ReadForMove(c, d, to) ==
    /\ (IF d = Order THEN order.status ELSE bill[d].status) \in From(d, to)
    /\ Begin(c, [Idle EXCEPT !.op = to, !.doc = d])

Move(c) ==
    LET d == slot[c].doc
        to == slot[c].op IN
    /\ to \in {"SUBMITTED", "APPROVED", "CANCELLED"}
    /\ order' = IF d = Order THEN [order EXCEPT !.status = to] ELSE order
    /\ bill' = IF d = Order THEN bill ELSE [bill EXCEPT ![d].status = to]
    /\ Finish(c)
    /\ UNCHANGED <<payment, vreturn, notes>>

-----------------------------------------------------------------------------
(* receivePurchaseOrder: n and m are the quantities of two rows of the     *)
(* request for the same line (m = 0: only one), each compared on its own   *)
(* with what remains.                                                      *)

ReadForReceive(c, n, m) ==
    /\ order.status \in {"APPROVED", "RECEIVING"}
    /\ n <= Ordered - order.received /\ m <= Ordered - order.received
    /\ Begin(c, [Idle EXCEPT !.op = "receive", !.doc = Order, !.n = n + m,
                          !.read = IF m > 0 THEN 1 ELSE 0])

\* The increment locks the line until commit, so the status is of all receipts.
Receive(c) ==
    /\ slot[c].op = "receive"
    /\ LET received == order.received + slot[c].n IN
       order' = [received |-> received,
                 status |-> IF received >= Ordered THEN "COMPLETED" ELSE "RECEIVING"]
    /\ Finish(c)
    /\ UNCHANGED <<bill, payment, vreturn, notes>>

-----------------------------------------------------------------------------
(* Bills.                                                                  *)

QuantityOf == [b \in Bills |-> bill[b].qty]

\* Mutant: a bill counts once it is approved.
ApprovedOf(B) == {b \in B : bill[b].status \in {"APPROVED", "PARTIALLY_PAID", "PAID"}}

StandingOf(B) == {b \in B : bill[b].status \notin {"NONE", "CANCELLED"}}

Billed(B) == SumFunctionOnSet(QuantityOf, StandingOf(B))

\* validateBillableItems
Billable(n, others) == n <= AtLeast0(order.received - Billed(others))

ReadForBill(c, n) ==
    /\ order.status # "CANCELLED"
    /\ Billable(n, Bills)
    /\ Begin(c, [Idle EXCEPT !.op = "bill", !.doc = Order, !.n = n])

CreateBill(c, b) ==
    /\ slot[c].op = "bill"
    /\ bill[b].status = "NONE"
    /\ bill' = [bill EXCEPT ![b] = [status |-> "DRAFT", qty |-> slot[c].n, paid |-> 0,
                                    owed |-> slot[c].n]]
    /\ Finish(c)
    /\ UNCHANGED <<order, payment, vreturn, notes>>

ReadForEdit(c, b, n) ==
    /\ bill[b].status = "DRAFT"
    /\ Billable(n, Bills \ {b})
    /\ Begin(c, [Idle EXCEPT !.op = "edit", !.doc = b, !.on = Order, !.n = n])

EditBill(c) ==
    /\ slot[c].op = "edit"
    /\ bill' = [bill EXCEPT ![slot[c].doc].qty = slot[c].n, ![slot[c].doc].owed = slot[c].n]
    /\ Finish(c)
    /\ UNCHANGED <<order, payment, vreturn, notes>>

-----------------------------------------------------------------------------
(* Payments.                                                               *)

AmountOf == [p \in Payments |-> payment[p].amount]

CompletedOf(b) ==
    {p \in Payments : payment[p].status = "COMPLETED" /\ payment[p].bill = b}

\* getCompletedPaymentTotal, as it would be without the payments P.
Completed(b, P) == SumFunctionOnSet(AmountOf, CompletedOf(b) \ P)

StatusFor(paid, total) ==
    IF paid >= total THEN "PAID" ELSE IF paid = 0 THEN "APPROVED" ELSE "PARTIALLY_PAID"

\* The columns follow the payments alone: a debit note is not looked at.
Settle(b, paid) ==
    bill' = [bill EXCEPT ![b].paid = paid, ![b].owed = AtLeast0(bill[b].qty - paid),
                         ![b].status = StatusFor(paid, bill[b].qty)]

ReadForPayment(c, b, n) ==
    /\ bill[b].status \in {"APPROVED", "PARTIALLY_PAID"}
    /\ n <= bill[b].qty - Completed(b, {})
    /\ Begin(c, [Idle EXCEPT !.op = "pay", !.doc = b, !.n = n, !.read = Completed(b, {})])

RecordPayment(c, p) ==
    /\ slot[c].op = "pay"
    /\ payment[p].status = "NONE"
    /\ payment' = [payment EXCEPT ![p] = [status |-> "COMPLETED", bill |-> slot[c].doc,
                                          amount |-> slot[c].n]]
    /\ Settle(slot[c].doc, slot[c].read + slot[c].n)
    /\ Finish(c)
    /\ UNCHANGED <<order, vreturn, notes>>

ReadForReversal(c, p) ==
    /\ payment[p].status = "COMPLETED"
    /\ Begin(c, [Idle EXCEPT !.op = "reverse", !.doc = p, !.on = payment[p].bill])

\* Mutant: the sum is taken before the payment is marked.
SumBefore(p) == Completed(payment[p].bill, {})

\* The transaction sees its own REVERSED row, which nobody else sees yet.
SumAfter(p) == Completed(payment[p].bill, {p})

SumForReversal(c) ==
    /\ slot[c].op = "reverse"
    /\ slot' = [slot EXCEPT ![c].op = "summed", ![c].read = SumAfter(slot[c].doc)]
    /\ UNCHANGED rows

RecordReversal(c) ==
    /\ slot[c].op = "summed"
    /\ payment' = [payment EXCEPT ![slot[c].doc].status = "REVERSED"]
    /\ Settle(slot[c].on, slot[c].read)
    /\ Finish(c)
    /\ UNCHANGED <<order, vreturn, notes>>

-----------------------------------------------------------------------------
(* processPurchaseReturn.  A return may name any bill of the vendor,       *)
(* whatever its status, and any amount.                                    *)

ReadForDebit(c, r) ==
    /\ r \notin notes /\ bill[vreturn[r].bill].status # "NONE"
    /\ Begin(c, [Idle EXCEPT !.op = "debit", !.doc = r, !.on = vreturn[r].bill])

\* The index on the debit notes: a second insert waits for the first
\* transaction, and is refused if that commits.
NoteIsNew(r) ==
    /\ r \notin notes
    /\ \A c \in Clerks : ~(slot[c].op = "noted" /\ slot[c].doc = r)

IssueNote(c) ==
    /\ slot[c].op = "debit"
    /\ NoteIsNew(slot[c].doc)
    /\ slot' = [slot EXCEPT ![c].op = "noted", ![c].read = bill[slot[c].on].owed]
    /\ UNCHANGED rows

ProcessReturn(c) ==
    LET r == slot[c].doc IN
    /\ slot[c].op = "noted"
    /\ bill' = [bill EXCEPT ![slot[c].on].owed = AtLeast0(slot[c].read - vreturn[r].amount)]
    /\ notes' = notes \cup {r}
    /\ Finish(c)
    /\ UNCHANGED <<order, payment, vreturn>>

-----------------------------------------------------------------------------

\* A check throws, a unique number is taken, or the transaction rolls back.
Fail(c) == slot[c] # Idle /\ Finish(c) /\ UNCHANGED rows

Request == \E c \in Clerks :
    \/ \E d \in {Order} \cup Bills, to \in {"SUBMITTED", "APPROVED", "CANCELLED"} :
          ReadForMove(c, d, to)
    \/ \E n \in Quantities : \/ ReadForBill(c, n)
                             \/ \E b \in Bills : ReadForEdit(c, b, n) \/ ReadForPayment(c, b, n)
    \/ \E b \in Bills : CreateBill(c, b)
    \/ \E p \in Payments : RecordPayment(c, p) \/ ReadForReversal(c, p)
    \/ \E r \in Returns : ReadForDebit(c, r)
    \/ \E n \in Quantities, m \in {0} \cup Quantities : ReadForReceive(c, n, m)
    \/ Move(c) \/ Receive(c) \/ EditBill(c) \/ SumForReversal(c) \/ RecordReversal(c)
    \/ IssueNote(c) \/ ProcessReturn(c) \/ Fail(c)

\* A receipt that names the line twice meets itself.
SelfMet == {d \in {Order} : \E c \in Clerks : slot[c].op = "receive" /\ slot[c].read = 1}

Meetings ==
    SelfMet \cup {d \in {Order} \cup Bills : \E c, e \in Clerks :
                      c # e /\ d \in {slot[c].doc, slot[c].on} \cap {slot[e].doc, slot[e].on}}

Step == Request /\ met' = met \cup Meetings'

\* What may happen in the shop.
Shop == Init /\ [][Step]_vars

\* A bound: requests may meet on one document; where they meet on a second,
\* the run ends.
MaxMet == 1

\* The part of it that TLC explores.
Next == Cardinality(met) <= MaxMet /\ Step

Spec == Init /\ [][Next]_vars

-----------------------------------------------------------------------------
(* Properties.                                                             *)

\* The vendor is never billed for, nor the shop given, more than was received
\* and ordered, over all bills that are not cancelled, as long as no two
\* requests have met on the order or a bill, nor a receipt with itself.
BilledIsReceived ==
    met = {} =>
        Billed(Bills) <= order.received /\ order.received <= Ordered

WorthOf == [r \in Returns |-> vreturn[r].amount]

\* What the debit notes of a bill add up to.
Debited(b) == SumFunctionOnSet(WorthOf, {r \in notes : vreturn[r].bill = b})

\* The columns of a bill are what its payments add up to, it is never overpaid,
\* and what it owes is short of that by no more than its debit notes, each
\* counted once at most; whatever requests meet on other bills.
BillFollowsPayments ==
    \A b \in Bills \ met :
        LET unpaid == bill[b].qty - Completed(b, {}) IN
        /\ bill[b].paid = Completed(b, {}) /\ unpaid >= 0
        /\ unpaid - Debited(b) <= bill[b].owed /\ bill[b].owed <= unpaid
        /\ bill[b].status \in {"PARTIALLY_PAID", "PAID"} =>
               bill[b].status = StatusFor(bill[b].paid, bill[b].qty)
=============================================================================
