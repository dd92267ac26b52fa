--------------------------- MODULE SalesPayments ---------------------------
(***************************************************************************)
(* sales_payments, customer_gold_exchanges, approval_deposits and the      *)
(* settlement columns of sales_invoices (salesPayment.service.ts,          *)
(* goldExchange.service.ts, the deposits of approval.service.ts).          *)
(* Every handler runs in one transaction, but at READ COMMITTED every      *)
(* statement sees what has been committed before it, and none locks what   *)
(* it reads: the sum of the payments, the count that makes the payment     *)
(* number, the status of an exchange, and the writes are separate moments. *)
(***************************************************************************)
EXTENDS Integers, FiniteSets, Functions

CONSTANTS
    Invoices,  \* sales_invoices rows
    Converted, \* those of them that approval purchases will create, each for its slip
    Required,  \* slip -> the deposit that is asked for, 0 if none is
    Total,     \* invoice -> grand total, in currency units
    Values,    \* what the old gold of an exchange may be worth
    Exchanges, \* identities of customer_gold_exchanges rows, used or not
    Amounts,   \* amounts a payment request may carry
    Payments,  \* identities of sales_payments rows, used or not
    Deposits,  \* identities of approval_deposits rows, used or not
    Calls,     \* request slots
    None

ASSUME PaymentsAssumption ==
    /\ Converted \subseteq Invoices
    /\ Total \in [Invoices -> Nat]
    /\ Required \in [Converted -> Nat]
    /\ Amounts \subseteq Nat \ {0}
    /\ Values \subseteq Nat
    /\ IsFiniteSet(Calls)
    /\ None \notin Invoices

VARIABLES
    invoice,  \* invoice -> status and settlement columns
    payment,  \* row -> sales_payments columns
    exchange, \* row -> customer_gold_exchanges columns
    deposit,  \* row -> approval_deposits columns; LATE is a REVERSED one of which
              \* history knows that its slip had been bought by then
    call,     \* slot -> what its transaction has read so far
    raced     \* history: invoices that two requests have had in hand at once, other
              \* than to ask for an exchange

rows == <<invoice, payment, exchange, deposit>>
vars == <<rows, call, raced>>

\* `net` is what the invoice is for less its exchange credit, as read.
Idle == [op |-> "idle", inv |-> None, row |-> None, amount |-> 0, sum |-> 0, net |-> 0,
         number |-> 0]

PaymentStatus == {"UNPAID", "PARTIALLY_PAID", "PARTIAL", "PAID"}
ExchangeStatus == {"NONE", "REQUESTED", "VALUED", "APPLIED", "CANCELLED"}

Reading == [op : {"idle", "pay", "payNumbered", "reverse", "reversing",
                  "request", "value", "apply", "drop",
                  "deposit", "depositing", "undo", "purchase"},
            inv : Invoices \cup {None},
            row : Payments \cup Exchanges \cup Deposits \cup {None},
            amount : Nat, sum : Nat, net : Int, number : Nat]

TypeOK ==
    /\ invoice \in [Invoices -> [status : {"NONE", "DRAFT", "CONFIRMED", "CANCELLED"},
                                 credit : Values \cup {0}, totalPaid : Nat, outstanding : Nat,
                                 paymentStatus : PaymentStatus]]
    /\ payment \in [Payments -> [status : {"NONE", "COMPLETED", "REVERSED"},
                                 inv : Invoices \cup {None}, amount : Nat, number : Nat]]
    /\ exchange \in [Exchanges -> [status : ExchangeStatus, inv : Invoices \cup {None},
                                   value : Values \cup {0}]]
    /\ deposit \in [Deposits -> [status : {"NONE", "COMPLETED", "REVERSED", "LATE"},
                                 inv : Converted \cup {None}, amount : Nat]]
    /\ call \in [Calls -> Reading]
    /\ raced \subseteq Invoices

\* A POS invoice is priced and still a draft: the columns of the settlement have their
\* defaults, among them an outstanding of 0, until something computes them.
Init ==
    /\ invoice = [v \in Invoices |->
                    [status |-> IF v \in Converted THEN "NONE" ELSE "DRAFT", credit |-> 0,
                     totalPaid |-> 0, outstanding |-> 0, paymentStatus |-> "UNPAID"]]
    /\ payment = [p \in Payments |->
                    [status |-> "NONE", inv |-> None, amount |-> 0, number |-> 0]]
    /\ exchange = [e \in Exchanges |-> [status |-> "NONE", inv |-> None, value |-> 0]]
    /\ deposit = [d \in Deposits |-> [status |-> "NONE", inv |-> None, amount |-> 0]]
    /\ call = [c \in Calls |-> Idle]
    /\ raced = {}

Begin(c, r) == call[c] = Idle /\ call' = [call EXCEPT ![c] = r] /\ UNCHANGED rows
Finish(c) == call' = [call EXCEPT ![c] = Idle]

-----------------------------------------------------------------------------

Recorded == {p \in Payments : payment[p].status # "NONE"}

CompletedOf(v) == {p \in Payments : payment[p].status = "COMPLETED" /\ payment[p].inv = v}

PaymentAmounts == [p \in Payments |-> payment[p].amount]

SumAmounts(S) == SumFunctionOnSet(PaymentAmounts, S)

\* getCompletedPaymentTotal
CompletedTotal(v) == SumAmounts(CompletedOf(v))

\* netPayable: negative when the old gold is worth more than the invoice.
Payable(v) == Total[v] - invoice[v].credit

\* Mutant: the operands are swapped.
OverpaidBy(net, paid) == IF paid >= net THEN 0 ELSE paid - net

Outstanding(net, paid) == IF paid >= net THEN 0 ELSE net - paid

\* The settlement columns both payment handlers write: they overwrite whatever
\* another transaction has stored since the sum was taken.
Settle(v, net, paid) ==
    invoice' = [invoice EXCEPT ![v] = [@ EXCEPT
        !.totalPaid = paid,
        !.outstanding = Outstanding(net, paid),
        !.paymentStatus = IF paid >= net THEN "PAID"
                          ELSE IF paid > 0 THEN "PARTIALLY_PAID" ELSE "UNPAID"]]

-----------------------------------------------------------------------------
(* createPayment                                                           *)

\* Mutant: only the new payment is compared with the total.
FitsAlone(v, amount) == amount <= Payable(v)

Fits(v, amount) == CompletedTotal(v) + amount <= Payable(v)

\* The invoice is CONFIRMED, and the amount fits what the sum leaves open.
SumForPayment(c, v, amount) ==
    /\ invoice[v].status = "CONFIRMED"
    /\ Fits(v, amount)
    /\ Begin(c, [Idle EXCEPT !.op = "pay", !.inv = v, !.amount = amount,
                             !.sum = CompletedTotal(v), !.net = Payable(v)])

\* Mutant: reversed payments no longer count.
NextOfCompleted == Cardinality({p \in Payments : payment[p].status = "COMPLETED"}) + 1

\* tx.salesPayment.count() + 1: all payments of the shop count, the reversed
\* ones and the ones with a number of the PAY-DEP kind included.
NextNumber == Cardinality(Recorded) + 1

CountForNumber(c) ==
    /\ call[c].op = "pay"
    /\ call' = [call EXCEPT ![c].op = "payNumbered", ![c].number = NextNumber]
    /\ UNCHANGED rows

\* The insert, the settlement columns, COMMIT.  payment_number is unique: a
\* number that is taken makes the transaction fail instead.
RecordPayment(c, p) ==
    LET r == call[c] IN
    /\ r.op = "payNumbered"
    /\ payment[p].status = "NONE"
    /\ \A q \in Recorded : payment[q].number # r.number
    /\ payment' = [payment EXCEPT ![p] = [status |-> "COMPLETED", inv |-> r.inv,
                                          amount |-> r.amount, number |-> r.number]]
    /\ Settle(r.inv, r.net, r.sum + r.amount)
    /\ Finish(c)
    /\ UNCHANGED <<exchange, deposit>>

-----------------------------------------------------------------------------
(* reversePayment                                                          *)

ReadForReverse(c, p) ==
    /\ payment[p].status = "COMPLETED"
    /\ Begin(c, [Idle EXCEPT !.op = "reverse", !.row = p, !.inv = payment[p].inv,
                             !.net = Payable(payment[p].inv)])

\* Mutant: the sum is taken before the payment is marked.
SumBeforeReversal(r) == CompletedTotal(r.inv)

SumAfterReversal(r) == SumAmounts(CompletedOf(r.inv) \ {r.row})

\* The update of the payment row, which another reversal of it holds until it
\* commits, then the sum: it sees the transaction's own update.
MarkReversed(c) ==
    LET r == call[c] IN
    /\ r.op = "reverse"
    /\ \A d \in Calls : ~(call[d].op = "reversing" /\ call[d].row = r.row)
    /\ call' = [call EXCEPT ![c].op = "reversing",
                            ![c].sum = SumAfterReversal(r)]
    /\ UNCHANGED rows

RecordReversal(c) ==
    LET r == call[c] IN
    /\ r.op = "reversing"
    /\ payment' = [payment EXCEPT ![r.row].status = "REVERSED"]
    /\ Settle(r.inv, r.net, r.sum)
    /\ Finish(c)
    /\ UNCHANGED <<exchange, deposit>>

-----------------------------------------------------------------------------
(* Deposits on a slip that is out, and the purchase that turns the slip    *)
(* into an invoice: until then the slip is ISSUED.                         *)

SlipIsOut(v) == v \in Converted /\ invoice[v].status = "NONE"

\* Mutant: reversed deposits count as well.
DepositsEver(v) == {d \in Deposits : deposit[d].status # "NONE" /\ deposit[d].inv = v}

DepositsOf(v) == {d \in Deposits : deposit[d].status = "COMPLETED" /\ deposit[d].inv = v}

DepositAmounts == [d \in Deposits |-> deposit[d].amount]

SumDeposits(S) == SumFunctionOnSet(DepositAmounts, S)

DepositTotal(v) == SumDeposits(DepositsOf(v))

DepositFits(v, amount) == Required[v] > 0 => DepositTotal(v) + amount <= Required[v]

\* The slip is read before the transaction, the deposits are summed in it.
ReadForDeposit(c, v, amount) ==
    /\ SlipIsOut(v)
    /\ Begin(c, [Idle EXCEPT !.op = "deposit", !.inv = v, !.amount = amount])

SumForDeposit(c) ==
    /\ call[c].op = "deposit"
    /\ DepositFits(call[c].inv, call[c].amount)
    /\ call' = [call EXCEPT ![c].op = "depositing"]
    /\ UNCHANGED rows

RecordDeposit(c, d) ==
    /\ call[c].op = "depositing"
    /\ deposit[d].status = "NONE"
    /\ deposit' = [deposit EXCEPT ![d] = [status |-> "COMPLETED", inv |-> call[c].inv,
                                         amount |-> call[c].amount]]
    /\ Finish(c)
    /\ UNCHANGED <<invoice, payment, exchange>>

\* reverseDeposit asks nothing about the slip.
ReadForUndo(c, d) ==
    /\ deposit[d].status = "COMPLETED"
    /\ Begin(c, [Idle EXCEPT !.op = "undo", !.row = d, !.inv = deposit[d].inv])

ReverseDeposit(c) ==
    /\ call[c].op = "undo"
    /\ deposit' = [deposit EXCEPT ![call[c].row].status =
          IF SlipIsOut(call[c].inv) THEN "REVERSED" ELSE "LATE"]
    /\ Finish(c)
    /\ UNCHANGED <<invoice, payment, exchange>>

\* A purchase sums after it has claimed the pieces, ...
SumForPurchase(c, v) ==
    /\ SlipIsOut(v)
    /\ Begin(c, [Idle EXCEPT !.op = "purchase", !.inv = v, !.sum = DepositTotal(v)])

\* ... which fails for all but one, then books the deposits as the first payment
\* of the invoice, up to what it is for.  That payment's number (a timestamp,
\* 0 here) is not of the counted kind.
PurchaseWithDeposit(c, p) ==
    LET v == call[c].inv
        applied == IF call[c].sum < Total[v] THEN call[c].sum ELSE Total[v] IN
    /\ call[c].op = "purchase"
    /\ SlipIsOut(v)
    /\ payment[p].status = "NONE"
    /\ invoice' = [invoice EXCEPT ![v] =
          [status |-> "CONFIRMED", credit |-> 0, totalPaid |-> applied,
           outstanding |-> Total[v] - applied,
           paymentStatus |-> IF applied >= Total[v] THEN "PAID"
                             ELSE IF applied > 0 THEN "PARTIAL" ELSE "UNPAID"]]
    /\ payment' = IF applied = 0 THEN payment
                  ELSE [payment EXCEPT ![p] = [status |-> "COMPLETED", inv |-> v,
                                               amount |-> applied, number |-> 0]]
    /\ Finish(c)
    /\ UNCHANGED <<exchange, deposit>>

-----------------------------------------------------------------------------
(* Gold exchanges: old gold taken in payment of a draft.  What each handler *)
(* asks is asked of the rows as its transaction read them; the writes that  *)
(* follow have no condition.                                                *)

ReadForExchange(c, v) ==
    /\ invoice[v].status = "DRAFT"
    /\ Begin(c, [Idle EXCEPT !.op = "request", !.inv = v])

CreateExchange(c, e) ==
    /\ call[c].op = "request"
    /\ exchange[e].status = "NONE"
    /\ exchange' = [exchange EXCEPT ![e] = [status |-> "REQUESTED", inv |-> call[c].inv,
                                           value |-> 0]]
    /\ Finish(c)
    /\ UNCHANGED <<invoice, payment, deposit>>

\* The value is that of the metal rate of the moment.
ReadForValue(c, e, value) ==
    /\ exchange[e].status = "REQUESTED"
    /\ invoice[exchange[e].inv].status = "DRAFT"
    /\ Begin(c, [Idle EXCEPT !.op = "value", !.row = e, !.inv = exchange[e].inv,
                             !.amount = value])

ValueExchange(c) ==
    /\ call[c].op = "value"
    /\ exchange' = [exchange EXCEPT ![call[c].row] =
          [@ EXCEPT !.status = "VALUED", !.value = call[c].amount]]
    /\ Finish(c)
    /\ UNCHANGED <<invoice, payment, deposit>>

AppliedTo(v) == {e \in Exchanges : exchange[e].status = "APPLIED" /\ exchange[e].inv = v}

\* Mutant: an exchange that was already applied is not looked for.
AppliedToo(e) == TRUE

OnlyApplied(e) == AppliedTo(exchange[e].inv) \ {e} = {}

ReadForApply(c, e) ==
    LET v == exchange[e].inv IN
    /\ exchange[e].status = "VALUED"
    /\ invoice[v].status = "DRAFT"
    /\ OnlyApplied(e)
    /\ Begin(c, [Idle EXCEPT !.op = "apply", !.row = e, !.inv = v, !.amount = exchange[e].value,
                             !.sum = invoice[v].totalPaid])

ApplyExchange(c) ==
    LET r == call[c] IN
    /\ r.op = "apply"
    /\ invoice' = [invoice EXCEPT ![r.inv] =
          [@ EXCEPT !.credit = r.amount,
                    !.outstanding = Outstanding(Total[r.inv] - r.amount, r.sum)]]
    /\ exchange' = [exchange EXCEPT ![r.row].status = "APPLIED"]
    /\ Finish(c)
    /\ UNCHANGED <<payment, deposit>>

ReadForDrop(c, e) ==
    /\ exchange[e].status \in {"REQUESTED", "VALUED"}
    /\ Begin(c, [Idle EXCEPT !.op = "drop", !.row = e, !.inv = exchange[e].inv])

CancelExchange(c) ==
    /\ call[c].op = "drop"
    /\ exchange' = [exchange EXCEPT ![call[c].row].status = "CANCELLED"]
    /\ Finish(c)
    /\ UNCHANGED <<invoice, payment, deposit>>

-----------------------------------------------------------------------------

\* confirmSalesInvoice and cancelSalesInvoice ask nothing about payments and
\* exchanges, and change neither them nor the settlement columns.
ChangeStatus(v, from, to) ==
    /\ invoice[v].status \in from
    /\ invoice' = [invoice EXCEPT ![v].status = to]
    /\ UNCHANGED <<payment, exchange, deposit, call>>

ConfirmInvoice(v) == ChangeStatus(v, {"DRAFT"}, "CONFIRMED")
CancelInvoice(v) == ChangeStatus(v, {"DRAFT", "CONFIRMED"}, "CANCELLED")

\* The request throws and its transaction rolls back.
Fail(c) == call[c] # Idle /\ Finish(c) /\ UNCHANGED rows

Payment ==
    \/ \E c \in Calls, v \in Invoices, amount \in Amounts : SumForPayment(c, v, amount)
    \/ \E c \in Calls, p \in Payments : RecordPayment(c, p) \/ ReadForReverse(c, p)
    \/ \E c \in Calls : CountForNumber(c) \/ MarkReversed(c) \/ RecordReversal(c)

Deposit ==
    \/ \E c \in Calls, v \in Converted, amount \in Amounts : ReadForDeposit(c, v, amount)
    \/ \E c \in Calls, d \in Deposits : RecordDeposit(c, d) \/ ReadForUndo(c, d)
    \/ \E c \in Calls, v \in Converted : SumForPurchase(c, v)
    \/ \E c \in Calls, p \in Payments : PurchaseWithDeposit(c, p)
    \/ \E c \in Calls : SumForDeposit(c) \/ ReverseDeposit(c)

Exchange ==
    \/ \E c \in Calls, v \in Invoices : ReadForExchange(c, v)
    \/ \E c \in Calls, e \in Exchanges, value \in Values : ReadForValue(c, e, value)
    \/ \E c \in Calls, e \in Exchanges :
          CreateExchange(c, e) \/ ReadForApply(c, e) \/ ReadForDrop(c, e)
    \/ \E c \in Calls : ValueExchange(c) \/ ApplyExchange(c) \/ CancelExchange(c)

InHand(v) == {c \in Calls : call[c].inv = v /\ call[c].op # "request"}

\* What may happen in the shop.
Step ==
    /\ \/ Payment
       \/ Deposit
       \/ Exchange
       \/ \E c \in Calls : Fail(c)
       \/ \E v \in Invoices : ConfirmInvoice(v) \/ CancelInvoice(v)
    /\ raced' = raced \cup {v \in Invoices : Cardinality(InHand(v)') > 1}

Shop == Init /\ [][Step]_vars

\* Bound: once requests have overlapped on an invoice, gold exchanges stop where they
\* are.  (The properties say nothing of a raced invoice's exchanges, and the invoice of
\* an approval purchase has none.)
ExchangesGoOn == raced = {}

\* Bound: in a behaviour with a purchase there are no gold exchanges, and in one with
\* a deposit the invoices of the counter are left alone.  (They share no row.)
OneConcern ==
    /\ \/ \A v \in Converted : invoice[v].status = "NONE"
       \/ \A e \in Exchanges : exchange[e].status = "NONE"
    /\ \/ \A d \in Deposits : deposit[d].status = "NONE"
       \/ \A v \in Invoices \ Converted : invoice[v].status = "DRAFT"

\* The part of it that TLC explores.
Next == Step /\ (ExchangesGoOn \/ ~Exchange) /\ OneConcern'

Spec == Init /\ [][Next]_vars

-----------------------------------------------------------------------------
(* Properties.                                                             *)

PaidAtMost(v) == CompletedOf(v) # {} => CompletedTotal(v) <= Payable(v)

\* The completed payments of an invoice never add up to more than it is for.
NeverOverpaid == \A v \in Invoices : PaidAtMost(v)

\* Nor do they as long as no two requests have overlapped on the invoice, or the
\* deposits of its slip to more than is asked for.
OverpaidOnlyInARace ==
    \A v \in Invoices \ raced :
        /\ PaidAtMost(v)
        /\ v \in Converted /\ Required[v] > 0 => DepositTotal(v) <= Required[v]

\* Once an invoice has payments, its settlement columns are what the payment
\* rows add up to, against what the old gold leaves to pay.
SettlementMatchesPayments ==
    \A v \in Invoices \ raced :
        (\E p \in Recorded : payment[p].inv = v) =>
            /\ invoice[v].totalPaid = CompletedTotal(v)
            /\ invoice[v].outstanding = Outstanding(Payable(v), CompletedTotal(v))
            /\ invoice[v].paymentStatus = "PAID" <=> CompletedTotal(v) = Payable(v)

\* The deposits on a slip but those that were reversed before it was bought.
KeptDeposits(v) ==
    {d \in Deposits : deposit[d].inv = v /\ deposit[d].status \in {"COMPLETED", "LATE"}}

DepositPayments(v) == {p \in Recorded : payment[p].inv = v /\ payment[p].number = 0}

\* The first payment of the invoice of a slip is what the customer had deposited when
\* the slip was bought, as far as the invoice goes: no deposit is forgotten, booked
\* after it was reversed, or recorded too late.  (One that is reversed after the
\* purchase stays booked: the code asks nothing.)
DepositsAreBooked ==
    \A v \in Converted \ raced : invoice[v].status # "NONE" =>
        LET kept == SumDeposits(KeptDeposits(v))
        IN  SumAmounts(DepositPayments(v)) = IF kept < Total[v] THEN kept ELSE Total[v]

\* The credit of an invoice is the value of one applied exchange, whose old gold
\* counts nowhere else: through create, value, apply and cancel of any number of
\* exchanges of the invoice, none of them at the same time.
CreditIsOneExchange ==
    \A v \in Invoices \ raced :
        IF AppliedTo(v) = {} THEN invoice[v].credit = 0
        ELSE \E e \in AppliedTo(v) : AppliedTo(v) = {e} /\ invoice[v].credit = exchange[e].value

\* The number the next payment will get is not taken: otherwise every later
\* payment of the shop would be refused by the unique index, since the count
\* never moves again.
NextNumberIsFree == \A p \in Recorded : payment[p].number # NextNumber
=============================================================================
