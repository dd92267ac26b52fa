--------------------------- MODULE SalesInvoices ---------------------------
(***************************************************************************)
(* sales_invoices and sales_invoice_items: the POS side of the shop.       *)
(* create and update (salesInvoice.service.ts), lock the metal rate        *)
(* (metalRate.service.ts), price (pricing.service.ts), confirm, cancel.    *)
(*                                                                         *)
(* Money is abstracted to where the header totals came from: which lines   *)
(* were added up, and by whom.                                             *)
(***************************************************************************)
EXTENDS Requests

CONSTANTS
    Invoices,      \* identities of sales_invoices rows, used or not
    Baskets,       \* line lists a create request may carry
    InvoiceEdits   \* update payloads: [branch, items], None and {} if absent

ASSUME InvoicesAssumption ==
    /\ Invoices \subseteq Documents
    /\ Baskets \subseteq (SUBSET Items) \ {{}}
    /\ InvoiceEdits \subseteq [branch : Branches \cup {None},
                               items  : SUBSET Items]

VARIABLES invoice

salesVars == <<stock, itemBranch, ledger, call, invoice>>

InvoiceStatus == {"NONE", "DRAFT", "CONFIRMED", "CANCELLED"}

\* Header totals: the lines they add up and who added them.  PAYLOAD is
\* calculateTotals over the request's prices, ENGINE is the pricing engine
\* at the locked rate, SLIP is the conversion of an approval.
Totals == [of : SUBSET Items, by : {"PAYLOAD", "ENGINE", "SLIP"}]

Invoice == [status : InvoiceStatus, branch : Branches \cup {None},
            lines : SUBSET Items, totals : Totals,
            rateLocked : BOOLEAN, priced : BOOLEAN]

NoInvoice == [status |-> "NONE", branch |-> None, lines |-> {},
              totals |-> [of |-> {}, by |-> "PAYLOAD"],
              rateLocked |-> FALSE, priced |-> FALSE]

SalesTypeOK == StockTypeOK /\ RequestTypeOK /\ invoice \in [Invoices -> Invoice]

SalesInit == StockInit /\ RequestInit /\ invoice = [v \in Invoices |-> NoInvoice]

\* Mutant: the handlers ask only whether the invoice is cancelled.
NotCancelled(v) == invoice[v].status \in {"DRAFT", "CONFIRMED"}

\* The test on the row read before any transaction.
IsDraft(v) == invoice[v].status = "DRAFT"

-----------------------------------------------------------------------------
(* createSalesInvoice.  Nobody knows the new row's id before the insert,   *)
(* so checks and insert are one step.                                      *)

CreateInvoice(v, b, S) ==
    /\ invoice[v].status = "NONE"
    /\ Sellable(S, b)
    /\ invoice' = [invoice EXCEPT ![v] =
                     [NoInvoice EXCEPT !.status = "DRAFT", !.branch = b,
                                       !.lines = S, !.totals.of = S]]
    /\ UNCHANGED <<stock, itemBranch, ledger, call>>

-----------------------------------------------------------------------------
(* updateSalesInvoice: read and test for DRAFT, check the payload's pieces *)
(* in the effective branch, then write whatever the row has become.  The   *)
(* repository drops the items of the payload: lines never change, only the *)
(* totals computed from it are stored.                                     *)

ReadForUpdate(c, v, e) ==
    /\ IsDraft(v)
    /\ Begin(c, [Idle EXCEPT !.op = "update", !.doc = v,
                   !.branch = IF e.branch = None THEN invoice[v].branch ELSE e.branch,
                   !.setBranch = e.branch, !.items = e.items])
    /\ UNCHANGED <<stock, itemBranch, ledger, invoice>>

CheckUpdate(c) ==
    /\ call[c].op = "update"
    /\ Sellable(call[c].items, call[c].branch)
    /\ call' = [call EXCEPT ![c].op = "updateChecked"]
    /\ UNCHANGED <<stock, itemBranch, ledger, invoice>>

\* Mutant: the repository stores the lines of the payload as well.
UpdateWithLines(c) ==
    /\ call[c].op = "updateChecked"
    /\ LET r == call[c] IN
       invoice' = [invoice EXCEPT ![r.doc].lines = IF r.items = {} THEN @ ELSE r.items]
    /\ Finish(c)
    /\ UNCHANGED <<stock, itemBranch, ledger>>

UpdateInvoice(c) ==
    /\ call[c].op = "updateChecked"
    /\ LET r == call[c] IN
       invoice' = [invoice EXCEPT
         ![r.doc].branch = IF r.setBranch = None THEN @ ELSE r.setBranch,
         ![r.doc].totals = IF r.items = {} THEN @
                           ELSE [of |-> r.items, by |-> "PAYLOAD"]]
    /\ Finish(c)
    /\ UNCHANGED <<stock, itemBranch, ledger>>

-----------------------------------------------------------------------------
(* lockSalesInvoiceMetalRate.  The snapshot row is unique per invoice, so  *)
(* the transaction of a second lock fails; the status is not re-read.      *)

ReadForLock(c, v) ==
    /\ IsDraft(v)
    /\ ~invoice[v].rateLocked
    /\ Begin(c, [Idle EXCEPT !.op = "lockRate", !.doc = v])
    /\ UNCHANGED <<stock, itemBranch, ledger, invoice>>

LockRate(c) ==
    /\ call[c].op = "lockRate"
    /\ ~invoice[call[c].doc].rateLocked
    /\ invoice' = [invoice EXCEPT ![call[c].doc].rateLocked = TRUE]
    /\ Finish(c)
    /\ UNCHANGED <<stock, itemBranch, ledger>>

-----------------------------------------------------------------------------
(* calculateInvoicePricing: the breakdown is computed from what was read,  *)
(* then lines and header are written without looking at the status again.  *)

ReadForPricing(c, v) ==
    /\ IsDraft(v)
    /\ invoice[v].rateLocked
    /\ Begin(c, [Idle EXCEPT !.op = "price", !.doc = v,
                             !.items = invoice[v].lines])
    /\ UNCHANGED <<stock, itemBranch, ledger, invoice>>

PriceInvoice(c) ==
    /\ call[c].op = "price"
    /\ invoice' = [invoice EXCEPT
         ![call[c].doc].totals = [of |-> call[c].items, by |-> "ENGINE"],
         ![call[c].doc].priced = TRUE]
    /\ Finish(c)
    /\ UNCHANGED <<stock, itemBranch, ledger>>

-----------------------------------------------------------------------------
(* confirmSalesInvoice.  The checks made on the invoice before the         *)
(* transaction are the read; the checks on the pieces are repeated by the  *)
(* conditional claims.  The transaction locks the invoice row FOR UPDATE   *)
(* and tests DRAFT again, but claims in the branch read before it.         *)

ReadForConfirm(c, v) ==
    /\ IsDraft(v)
    /\ invoice[v].rateLocked
    /\ invoice[v].priced
    /\ Begin(c, [Idle EXCEPT !.op = "confirm", !.doc = v,
                             !.branch = invoice[v].branch])
    /\ UNCHANGED <<stock, itemBranch, ledger, invoice>>

\* Mutant: the status is not tested again.
NotRechecked(v) == TRUE

\* The test on the row locked by SELECT ... FOR UPDATE.
StillDraft(v) == invoice[v].status = "DRAFT"

ConfirmInvoice(c) ==
    LET v == call[c].doc
        S == invoice[v].lines IN
    /\ call[c].op = "confirm"
    /\ StillDraft(v)
    /\ Claim(S, call[c].branch, "AVAILABLE", "SOLD")
    /\ Book(S, "SALE", v)
    /\ invoice' = [invoice EXCEPT ![v].status = "CONFIRMED"]
    /\ Finish(c)

-----------------------------------------------------------------------------
(* cancelSalesInvoice: DRAFT or CONFIRMED, one unconditional status write; *)
(* pieces and payments stay as they are.                                   *)

ReadForCancel(c, v) ==
    /\ invoice[v].status \in {"DRAFT", "CONFIRMED"}
    /\ Begin(c, [Idle EXCEPT !.op = "cancel", !.doc = v])
    /\ UNCHANGED <<stock, itemBranch, ledger, invoice>>

CancelInvoice(c) ==
    /\ call[c].op = "cancel"
    /\ invoice' = [invoice EXCEPT ![call[c].doc].status = "CANCELLED"]
    /\ Finish(c)
    /\ UNCHANGED <<stock, itemBranch, ledger>>

-----------------------------------------------------------------------------

SalesNext ==
    \/ \E v \in Invoices, b \in Branches, S \in Baskets : CreateInvoice(v, b, S)
    \/ \E c \in Calls, v \in Invoices, e \in InvoiceEdits : ReadForUpdate(c, v, e)
    \/ \E c \in Calls, v \in Invoices :
          \/ ReadForLock(c, v)
          \/ ReadForPricing(c, v)
          \/ ReadForConfirm(c, v)
          \/ ReadForCancel(c, v)
    \/ \E c \in Calls :
          \/ CheckUpdate(c)
          \/ UpdateInvoice(c)
          \/ LockRate(c)
          \/ PriceInvoice(c)
          \/ ConfirmInvoice(c)
          \/ CancelInvoice(c)
          \/ Fail(c) /\ UNCHANGED invoice

SalesSpec == SalesInit /\ [][SalesNext]_salesVars

-----------------------------------------------------------------------------
(* Properties.                                                             *)

\* Every piece on a CONFIRMED invoice is SOLD, and sold by that invoice: its
\* last movement is that invoice's SALE.  So no two confirmed invoices can
\* hold the same piece (the conditional claim in confirmSalesInvoice).
ConfirmedInvoicesHoldTheirItems ==
    \A v \in Invoices : invoice[v].status = "CONFIRMED" =>
        \A i \in invoice[v].lines :
            stock[i] = "SOLD" /\ LastMovement(i) = [kind |-> "SALE", doc |-> v]

\* No piece is on two CONFIRMED invoices, whatever the interleaving.
NoDoubleSale ==
    \A v, w \in Invoices :
        v # w /\ invoice[v].status = "CONFIRMED" /\ invoice[w].status = "CONFIRMED"
            => invoice[v].lines \cap invoice[w].lines = {}

\* Every SALE in the journal is accounted for by an invoice that lists the
\* piece and was confirmed (it may have been cancelled since).
SalesAreInvoiced ==
    \A i \in Items : \A n \in 1..Len(ledger[i]) :
        ledger[i][n].kind = "SALE" =>
            LET v == ledger[i][n].doc IN
            /\ v \in Invoices
            /\ invoice[v].status \in {"CONFIRMED", "CANCELLED"}
            /\ i \in invoice[v].lines

\* An invoice that was cancelled never comes back, and one that was confirmed
\* can only be cancelled: the DRAFT test under FOR UPDATE in
\* confirmSalesInvoice stops a confirm that read the invoice before.
StatusOnlyAdvances ==
    [][\A v \in Invoices :
         /\ invoice[v].status = "CANCELLED" => invoice'[v].status = "CANCELLED"
         /\ invoice[v].status = "CONFIRMED" =>
                invoice'[v].status \in {"CONFIRMED", "CANCELLED"}]_invoice

\* The totals of an invoice are fixed once it is confirmed.
ConfirmedTotalsAreFrozen ==
    [][\A v \in Invoices :
         invoice[v].status = "CONFIRMED" => invoice'[v].totals = invoice[v].totals]_invoice
=============================================================================
