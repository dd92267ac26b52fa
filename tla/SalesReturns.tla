---------------------------- MODULE SalesReturns ----------------------------
(***************************************************************************)
(* sales_returns and sales_refunds next to the POS counter                 *)
(* (salesReturn.service.ts, salesRefund.service.ts): sold pieces come back *)
(* to the shelf by a return that is requested, approved and processed, and *)
(* the money goes back in refunds of a processed return.  Every handler    *)
(* tests a status it has read and writes without a condition; only the     *)
(* pieces are claimed.                                                     *)
(*                                                                         *)
(* Money: every line of an invoice is worth one unit.                      *)
(***************************************************************************)
EXTENDS SalesInvoices, FiniteSets, Functions

CONSTANTS
    Returns,    \* identities of sales_returns rows, used or not
    Refunds,    \* identities of sales_refunds rows, used or not
    Clerks,     \* request slots of the return desk
    Deductions, \* what a return may deduct from the worth of its lines
    Amounts     \* amounts a refund request may carry

ASSUME ReturnsAssumption ==
    /\ IsFiniteSet(Items) /\ IsFiniteSet(Returns) /\ IsFiniteSet(Refunds)
    /\ Returns \subseteq Documents /\ Returns \cap Invoices = {}
    /\ Deductions \subseteq Nat
    /\ Amounts \subseteq Nat \ {0}

VARIABLES
    sreturn, \* row -> sales_returns columns and its items
    refund,  \* row -> sales_refunds columns
    desk,    \* slot -> what the handler in it has read so far
    crossed  \* history: have two requests of the desk met on one piece?

returnVars == <<salesVars, sreturn, refund, desk, crossed>>

SalesReturn == [status : {"NONE", "REQUESTED", "APPROVED", "PROCESSED", "CANCELLED"},
                inv : Invoices \cup {None}, branch : Branches \cup {None},
                lines : SUBSET Items, amount : Nat]

SalesRefund == [status : {"NONE", "COMPLETED", "REVERSED"},
                ret : Returns \cup {None}, amount : Nat]

DeskRequest == [op : {"free", "request", "requestChecked", "approve", "process",
                      "cancel", "refund", "reverse"},
                inv : Invoices \cup {None}, branch : Branches \cup {None},
                lines : SUBSET Items, ret : Returns \cup {None}, amount : Nat,
                refund : Refunds \cup {None}]

Free == [op |-> "free", inv |-> None, branch |-> None, lines |-> {}, ret |-> None,
         amount |-> 0, refund |-> None]

ReturnsTypeOK ==
    /\ SalesTypeOK
    /\ sreturn \in [Returns -> SalesReturn]
    /\ refund \in [Refunds -> SalesRefund]
    /\ desk \in [Clerks -> DeskRequest]
    /\ crossed \in BOOLEAN

ReturnsInit ==
    /\ SalesInit
    /\ sreturn = [r \in Returns |-> [status |-> "NONE", inv |-> None, branch |-> None,
                                     lines |-> {}, amount |-> 0]]
    /\ refund = [f \in Refunds |-> [status |-> "NONE", ret |-> None, amount |-> 0]]
    /\ desk = [d \in Clerks |-> Free]
    /\ crossed = FALSE

Take(d, r) == desk[d] = Free /\ desk' = [desk EXCEPT ![d] = r]
Done(d) == desk' = [desk EXCEPT ![d] = Free]

StockKept == UNCHANGED stockVars
PosKept == UNCHANGED <<call, invoice>>

-----------------------------------------------------------------------------
(* createReturn: the invoice, then its pieces one by one, then the insert. *)
(* (An invoice with a gold exchange on it is refused; here none has one.)  *)

ReadForReturn(d, v, S) ==
    /\ invoice[v].status = "CONFIRMED"
    /\ S # {} /\ S \subseteq invoice[v].lines
    /\ Take(d, [Free EXCEPT !.op = "request", !.inv = v, !.lines = S,
                            !.branch = invoice[v].branch])
    /\ StockKept /\ PosKept /\ UNCHANGED <<sreturn, refund>>

\* Mutant: a piece that came back once may come back again.
InOpenReturn(i) ==
    \E r \in Returns : /\ sreturn[r].status \in {"REQUESTED", "APPROVED"}
                       /\ i \in sreturn[r].lines

\* findActiveReturnForItem: for any invoice, and for ever once processed.
InActiveReturn(i) ==
    \E r \in Returns : /\ sreturn[r].status \in {"REQUESTED", "APPROVED", "PROCESSED"}
                       /\ i \in sreturn[r].lines

Returnable(i, b) == stock[i] = "SOLD" /\ itemBranch[i] = b /\ ~InActiveReturn(i)

CheckReturn(d) ==
    /\ desk[d].op = "request"
    /\ \A i \in desk[d].lines : Returnable(i, desk[d].branch)
    /\ desk' = [desk EXCEPT ![d].op = "requestChecked"]
    /\ StockKept /\ PosKept /\ UNCHANGED <<sreturn, refund>>

InsertReturn(d, r, deduction) ==
    /\ desk[d].op = "requestChecked"
    /\ sreturn[r].status = "NONE"
    /\ deduction <= Cardinality(desk[d].lines)
    /\ sreturn' = [sreturn EXCEPT ![r] =
         [status |-> "REQUESTED", inv |-> desk[d].inv, branch |-> desk[d].branch,
          lines |-> desk[d].lines, amount |-> Cardinality(desk[d].lines) - deduction]]
    /\ Done(d)
    /\ StockKept /\ PosKept /\ UNCHANGED refund

-----------------------------------------------------------------------------
(* approveReturn, processReturn, cancelReturn.                             *)

ReadReturn(d, r, op) ==
    /\ Take(d, [Free EXCEPT !.op = op, !.ret = r, !.lines = sreturn[r].lines])
    /\ StockKept /\ PosKept /\ UNCHANGED <<sreturn, refund>>

SetReturn(d, status) == sreturn' = [sreturn EXCEPT ![desk[d].ret].status = status]

ReadForApprove(d, r) == sreturn[r].status = "REQUESTED" /\ ReadReturn(d, r, "approve")

ApproveReturn(d) ==
    /\ desk[d].op = "approve"
    /\ SetReturn(d, "APPROVED") /\ Done(d)
    /\ StockKept /\ PosKept /\ UNCHANGED refund

ReadForProcess(d, r) == sreturn[r].status = "APPROVED" /\ ReadReturn(d, r, "process")

\* The pieces are claimed from SOLD in the return's branch; APPROVED was read
\* in the same transaction, but without a lock.
ProcessReturn(d) ==
    LET r == desk[d].ret IN
    /\ desk[d].op = "process"
    /\ Claim(desk[d].lines, sreturn[r].branch, "SOLD", "AVAILABLE")
    /\ Book(desk[d].lines, "SALE_RETURN", r)
    /\ SetReturn(d, "PROCESSED") /\ Done(d)
    /\ PosKept /\ UNCHANGED refund

MayCancel(r) == sreturn[r].status \in {"REQUESTED", "APPROVED"}

ReadForCancelReturn(d, r) == MayCancel(r) /\ ReadReturn(d, r, "cancel")

CancelReturn(d) ==
    /\ desk[d].op = "cancel"
    /\ SetReturn(d, "CANCELLED") /\ Done(d)
    /\ StockKept /\ PosKept /\ UNCHANGED refund

-----------------------------------------------------------------------------
(* createRefund and reverseRefund.                                         *)

CompletedOf(r) == {f \in Refunds : refund[f].status = "COMPLETED" /\ refund[f].ret = r}

RefundAmounts == [f \in Refunds |-> refund[f].amount]

Refunded == [r \in Returns |-> SumFunctionOnSet(RefundAmounts, CompletedOf(r))]

\* Mutants: an approved return is enough, or the refunds made are not counted.
RefundableEarly(r, amount) ==
    /\ sreturn[r].status \in {"APPROVED", "PROCESSED"}
    /\ amount <= sreturn[r].amount - Refunded[r]

RefundableAgain(r, amount) ==
    /\ sreturn[r].status = "PROCESSED"
    /\ amount <= sreturn[r].amount

Refundable(r, amount) ==
    /\ sreturn[r].status = "PROCESSED"
    /\ amount + Refunded[r] <= sreturn[r].amount

\* The return and its refunds are read before the transaction.
SumForRefund(d, r, amount) ==
    /\ Refundable(r, amount)
    /\ Take(d, [Free EXCEPT !.op = "refund", !.ret = r, !.lines = sreturn[r].lines,
                            !.amount = amount])
    /\ StockKept /\ PosKept /\ UNCHANGED <<sreturn, refund>>

InsertRefund(d, f) ==
    /\ desk[d].op = "refund"
    /\ refund[f].status = "NONE"
    /\ refund' = [refund EXCEPT ![f] = [status |-> "COMPLETED", ret |-> desk[d].ret,
                                        amount |-> desk[d].amount]]
    /\ Done(d)
    /\ StockKept /\ PosKept /\ UNCHANGED sreturn

ReadForReverse(d, f) ==
    /\ refund[f].status = "COMPLETED"
    /\ Take(d, [Free EXCEPT !.op = "reverse", !.refund = f,
                            !.lines = sreturn[refund[f].ret].lines])
    /\ StockKept /\ PosKept /\ UNCHANGED <<sreturn, refund>>

ReverseRefund(d) ==
    /\ desk[d].op = "reverse"
    /\ refund' = [refund EXCEPT ![desk[d].refund].status = "REVERSED"]
    /\ Done(d)
    /\ StockKept /\ PosKept /\ UNCHANGED sreturn

\* The handler throws: a check, or a counted number that is taken.
DeskFail(d) ==
    /\ desk[d] # Free
    /\ Done(d)
    /\ StockKept /\ PosKept /\ UNCHANGED <<sreturn, refund>>

-----------------------------------------------------------------------------

DeskNext == \E d \in Clerks :
    \/ \E v \in Invoices, S \in SUBSET Items : ReadForReturn(d, v, S)
    \/ \E r \in Returns : \/ \E x \in Deductions : InsertReturn(d, r, x)
                          \/ ReadForApprove(d, r)
                          \/ ReadForProcess(d, r)
                          \/ ReadForCancelReturn(d, r)
                          \/ \E a \in Amounts : SumForRefund(d, r, a)
    \/ \E f \in Refunds : InsertRefund(d, f) \/ ReadForReverse(d, f)
    \/ CheckReturn(d) \/ ApproveReturn(d) \/ ProcessReturn(d) \/ CancelReturn(d)
    \/ ReverseRefund(d) \/ DeskFail(d)

MeetOnAPiece == \E d, e \in Clerks : d # e /\ desk[d].lines \cap desk[e].lines # {}

ReturnsNext ==
    /\ \/ DeskNext
       \/ SalesNext /\ UNCHANGED <<sreturn, refund, desk>>
    /\ crossed' = (crossed \/ MeetOnAPiece')

ReturnsSpec == ReturnsInit /\ [][ReturnsNext]_returnVars

-----------------------------------------------------------------------------
(* Properties.                                                             *)

\* Money is refunded only for pieces that did come back: every refund is of a
\* return that has put each of its pieces on the shelf, whatever the requests
\* at the desk have done to its status since.
RefundsFollowPieces ==
    \A f \in Refunds : refund[f].status # "NONE" =>
        \A i \in sreturn[refund[f].ret].lines : \E n \in 1..Len(ledger[i]) :
            ledger[i][n] = [kind |-> "SALE_RETURN", doc |-> refund[f].ret]

\* A return takes back what its own invoice sold: the movement before a
\* SALE_RETURN is the SALE of the invoice the return is for, and not of one
\* that has sold the piece since.  (processReturn only claims from SOLD.)
ReturnsUndoTheirSale ==
    ~crossed => \A i \in Items : \A n \in 2..Len(ledger[i]) :
        ledger[i][n].kind = "SALE_RETURN" =>
            ledger[i][n - 1] = [kind |-> "SALE", doc |-> sreturn[ledger[i][n].doc].inv]

\* No more is refunded on an invoice, over all of its returns, than its lines
\* are worth: pieces come back once, and refunds stay within their return.
NeverRefundedTwice ==
    ~crossed => \A v \in Invoices :
        SumFunctionOnSet(Refunded, {r \in Returns : sreturn[r].inv = v})
            <= Cardinality(invoice[v].lines)
=============================================================================
