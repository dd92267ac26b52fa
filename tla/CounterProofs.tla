---------------------------- MODULE CounterProofs ----------------------------
(***************************************************************************)
(* Proofs about the counters, for any number of pieces, branches, rows and *)
(* overlapping requests.                                                   *)
(*                                                                         *)
(* First the POS counter on its own (SalesInvoices): its steps keep the    *)
(* types of its tables, which both other parts use.                        *)
(*                                                                         *)
(* Then the two counters together (Showroom, ShowroomRaces): no piece is   *)
(* sold twice, the journal is a chain of custody, the counters implement   *)
(* Custody, and, as long as no two requests meet on one slip, a slip holds *)
(* its pieces and ends as a whole.                                         *)
(*                                                                         *)
(* Last the return desk next to the POS counter (SalesReturns): a refund   *)
(* follows the pieces, a return undoes the sale it is for, and refunds     *)
(* stay within the sale.                                                   *)
(***************************************************************************)
EXTENDS ShowroomRaces, SalesReturns, SumTheorems

(***************************************************************************)
(* Part 1.  The POS counter.                                               *)
(***************************************************************************)

InvoiceOps == {"update", "updateChecked", "lockRate", "price", "confirm", "cancel"}

\* A request in flight of the POS counter names an invoice.
CallsNameInvoices ==
    \A c \in Calls : call[c].op \in InvoiceOps => call[c].doc \in Invoices

SalesTypeInv == SalesTypeOK /\ CallsNameInvoices

USE DEF InvoiceOps

-----------------------------------------------------------------------------
(* The tables of the shop.                                                 *)

\* The request slot of an idle caller.
LEMMA IdleIsRequest == Idle \in Request
BY DEF Idle, Request, Ops

\* Beginning a request that names its invoice keeps the requests in order.
LEMMA BeginType ==
    ASSUME SalesTypeInv, NEW c \in Calls, NEW r \in Request, Begin(c, r),
           r.op \in InvoiceOps => r.doc \in Invoices
    PROVE  RequestTypeOK' /\ CallsNameInvoices'
BY DEF SalesTypeInv, SalesTypeOK, RequestTypeOK, CallsNameInvoices, Begin

\* So does ending one.
LEMMA FinishType ==
    ASSUME SalesTypeInv, NEW c \in Calls, Finish(c)
    PROVE  RequestTypeOK' /\ CallsNameInvoices'
BY IdleIsRequest
   DEF SalesTypeInv, SalesTypeOK, RequestTypeOK, CallsNameInvoices,
       Finish, Idle

\* The updates the handlers make to an invoice row leave an invoice row.
LEMMA TotalsUpdate ==
    ASSUME NEW w \in Invoice, NEW b \in Branches \cup {None}, NEW t \in Totals
    PROVE  /\ [w EXCEPT !.branch = b, !.totals = t] \in Invoice
           /\ [w EXCEPT !.totals = t, !.priced = TRUE] \in Invoice
BY DEF Invoice

\* Locking a rate leaves an invoice row.
LEMMA RateUpdate ==
    ASSUME NEW w \in Invoice PROVE [w EXCEPT !.rateLocked = TRUE] \in Invoice
BY DEF Invoice

\* A status write leaves an invoice row.
LEMMA StatusUpdate ==
    ASSUME NEW w \in Invoice, NEW s \in InvoiceStatus
    PROVE  [w EXCEPT !.status = s] \in Invoice
BY DEF Invoice

\* A conditional claim of the pieces S that went through, and its booking.
Moves(S, from, to, kind, doc) ==
    /\ S \in SUBSET Items
    /\ \A i \in S : /\ stock[i] = from
                    /\ stock'[i] = to
                    /\ ledger'[i] = Append(ledger[i], [kind |-> kind, doc |-> doc])
                    /\ LastMovement(i)' = [kind |-> kind, doc |-> doc]
    /\ \A i \in Items \ S : stock'[i] = stock[i] /\ ledger'[i] = ledger[i]

\* What claiming a set of pieces and booking it does to each piece.
LEMMA ClaimAndBook ==
    ASSUME StockTypeOK, NEW S \in SUBSET Items, NEW b, NEW from, NEW to \in StockStatus,
           NEW kind \in MovementType, NEW doc \in Documents \cup {None},
           Claim(S, b, from, to), Book(S, kind, doc)
    PROVE  StockTypeOK' /\ Moves(S, from, to, kind, doc)
<1>1. [kind |-> kind, doc |-> doc] \in Movement
  BY DEF Movement
<1>2. \A i \in S : ledger'[i] = Append(ledger[i], [kind |-> kind, doc |-> doc])
  BY DEF Book
<1>3. \A i \in Items : ledger[i] \in Seq(Movement)
  BY DEF StockTypeOK
<1>4. ledger' \in [Items -> Seq(Movement)]
  BY <1>1, <1>3 DEF Book
<1>5. \A i \in S : LastMovement(i)' = [kind |-> kind, doc |-> doc]
  BY <1>1, <1>2, <1>3 DEF LastMovement
<1> QED
  BY <1>2, <1>4, <1>5 DEF StockTypeOK, Claim, Book, Moves

-----------------------------------------------------------------------------
(* Type correctness.                                                       *)

\* The steps of the POS counter keep the types.
LEMMA SalesStepKeepsTypes ==
    ASSUME SalesTypeInv, SalesNext
    PROVE  SalesTypeInv'
<1> USE InvoicesAssumption DEF SalesTypeInv, SalesTypeOK
<1>0. /\ stock \in [Items -> StockStatus] /\ itemBranch \in [Items -> Branches]
      /\ invoice \in [Invoices -> Invoice] /\ call \in [Calls -> Request]
      /\ \A v \in Invoices : /\ invoice[v].branch \in Branches \cup {None}
                             /\ invoice[v].lines \in SUBSET Items
  BY DEF StockTypeOK, RequestTypeOK, Invoice
<1>1. ASSUME NEW v \in Invoices, NEW b \in Branches, NEW S \in Baskets,
             CreateInvoice(v, b, S)
      PROVE  SalesTypeInv'
  <2>1. [NoInvoice EXCEPT !.status = "DRAFT", !.branch = b, !.lines = S, !.totals.of = S]
           \in Invoice
    BY DEF NoInvoice, Invoice, Totals, InvoiceStatus
  <2>2. invoice' \in [Invoices -> Invoice]
    BY <1>0, <1>1, <2>1 DEF CreateInvoice
  <2> QED
    BY <1>1, <2>2 DEF CreateInvoice, StockTypeOK, RequestTypeOK, CallsNameInvoices
<1>2. ASSUME NEW c \in Calls, NEW v \in Invoices, NEW e \in InvoiceEdits,
             ReadForUpdate(c, v, e)
      PROVE  SalesTypeInv'
  <2> DEFINE r == [Idle EXCEPT !.op = "update", !.doc = v,
                   !.branch = IF e.branch = None THEN invoice[v].branch ELSE e.branch,
                   !.setBranch = e.branch, !.items = e.items]
  <2>1. r \in Request
    BY <1>0 DEF Idle, Request, Ops
  <2>2. r.op = "update" /\ r.doc = v
    BY DEF Idle
  <2>3. Begin(c, r)
    BY <1>2 DEF ReadForUpdate
  <2> HIDE DEF r
  <2>4. RequestTypeOK' /\ CallsNameInvoices'
    BY <2>1, <2>2, <2>3, BeginType
  <2> QED
    BY <1>2, <2>4 DEF ReadForUpdate, StockTypeOK
<1>3. ASSUME NEW c \in Calls, NEW v \in Invoices, ReadForLock(c, v)
      PROVE  SalesTypeInv'
  <2> DEFINE r == [Idle EXCEPT !.op = "lockRate", !.doc = v]
  <2>1. r \in Request /\ r.op = "lockRate" /\ r.doc = v
    BY DEF Idle, Request, Ops
  <2>2. Begin(c, r)
    BY <1>3 DEF ReadForLock
  <2> HIDE DEF r
  <2> QED
    BY <1>3, <2>1, <2>2, BeginType DEF ReadForLock, StockTypeOK
<1>4. ASSUME NEW c \in Calls, NEW v \in Invoices, ReadForPricing(c, v)
      PROVE  SalesTypeInv'
  <2> DEFINE r == [Idle EXCEPT !.op = "price", !.doc = v, !.items = invoice[v].lines]
  <2>1. r \in Request /\ r.op = "price" /\ r.doc = v
    BY <1>0 DEF Idle, Request, Ops
  <2>2. Begin(c, r)
    BY <1>4 DEF ReadForPricing
  <2> HIDE DEF r
  <2> QED
    BY <1>4, <2>1, <2>2, BeginType DEF ReadForPricing, StockTypeOK
<1>5. ASSUME NEW c \in Calls, NEW v \in Invoices, ReadForConfirm(c, v)
      PROVE  SalesTypeInv'
  <2> DEFINE r == [Idle EXCEPT !.op = "confirm", !.doc = v, !.branch = invoice[v].branch]
  <2>1. r \in Request /\ r.op = "confirm" /\ r.doc = v
    BY <1>0 DEF Idle, Request, Ops
  <2>2. Begin(c, r)
    BY <1>5 DEF ReadForConfirm
  <2> HIDE DEF r
  <2> QED
    BY <1>5, <2>1, <2>2, BeginType DEF ReadForConfirm, StockTypeOK
<1>6. ASSUME NEW c \in Calls, NEW v \in Invoices, ReadForCancel(c, v)
      PROVE  SalesTypeInv'
  <2> DEFINE r == [Idle EXCEPT !.op = "cancel", !.doc = v]
  <2>1. r \in Request /\ r.op = "cancel" /\ r.doc = v
    BY DEF Idle, Request, Ops
  <2>2. Begin(c, r)
    BY <1>6 DEF ReadForCancel
  <2> HIDE DEF r
  <2> QED
    BY <1>6, <2>1, <2>2, BeginType DEF ReadForCancel, StockTypeOK
<1>7. ASSUME NEW c \in Calls, CheckUpdate(c)
      PROVE  SalesTypeInv'
  <2> DEFINE r == [call[c] EXCEPT !.op = "updateChecked"]
  <2>1. call[c] \in Request /\ call[c].doc \in Invoices
    BY <1>0, <1>7 DEF CheckUpdate, CallsNameInvoices
  <2>2. r \in Request /\ r.op = "updateChecked" /\ r.doc \in Invoices
    BY <2>1 DEF Request, Ops
  <2>3. call' = [call EXCEPT ![c] = r]
    BY <1>7 DEF CheckUpdate
  <2> HIDE DEF r
  <2>4. RequestTypeOK' /\ CallsNameInvoices'
    BY <1>0, <2>2, <2>3 DEF RequestTypeOK, CallsNameInvoices
  <2> QED
    BY <1>7, <2>4 DEF CheckUpdate, StockTypeOK
<1>8. ASSUME NEW c \in Calls, UpdateInvoice(c)
      PROVE  SalesTypeInv'
  <2>1. call[c] \in Request /\ call[c].doc \in Invoices
    BY <1>0, <1>8 DEF UpdateInvoice, CallsNameInvoices
  <2> DEFINE v == call[c].doc
             w == [invoice[v] EXCEPT
                     !.branch = IF call[c].setBranch = None THEN @ ELSE call[c].setBranch,
                     !.totals = IF call[c].items = {} THEN @
                                ELSE [of |-> call[c].items, by |-> "PAYLOAD"]]
  <2>a. w \in Invoice
    <3>1. invoice[v] \in Invoice
      BY <1>0, <2>1
    <3>2. (IF call[c].setBranch = None THEN invoice[v].branch ELSE call[c].setBranch)
             \in Branches \cup {None}
      BY <2>1, <3>1 DEF Request, Invoice
    <3>3. (IF call[c].items = {} THEN invoice[v].totals
           ELSE [of |-> call[c].items, by |-> "PAYLOAD"]) \in Totals
      BY <2>1, <3>1 DEF Request, Invoice, Totals
    <3> HIDE DEF v
    <3> QED
      BY <3>1, <3>2, <3>3, TotalsUpdate
  <2>b. invoice' = [invoice EXCEPT ![v] = w]
    BY <1>0, <1>8, <2>1 DEF UpdateInvoice
  <2>2. invoice' \in [Invoices -> Invoice]
    BY <1>0, <2>1, <2>a, <2>b
  <2> QED
    BY <1>8, <2>2, FinishType DEF UpdateInvoice, StockTypeOK
<1>9. ASSUME NEW c \in Calls, LockRate(c)
      PROVE  SalesTypeInv'
  <2>0. call[c].doc \in Invoices
    BY <1>9 DEF LockRate, CallsNameInvoices
  <2>a. [invoice[call[c].doc] EXCEPT !.rateLocked = TRUE] \in Invoice
    BY <1>0, <2>0, RateUpdate
  <2>1. invoice' \in [Invoices -> Invoice]
    BY <1>0, <1>9, <2>a DEF LockRate
  <2> QED
    BY <1>9, <2>1, FinishType DEF LockRate, StockTypeOK
<1>10. ASSUME NEW c \in Calls, PriceInvoice(c)
       PROVE  SalesTypeInv'
  <2>1. call[c] \in Request /\ call[c].doc \in Invoices
    BY <1>0, <1>10 DEF PriceInvoice, CallsNameInvoices
  <2> DEFINE v == call[c].doc
             w == [invoice[v] EXCEPT !.totals = [of |-> call[c].items, by |-> "ENGINE"],
                                     !.priced = TRUE]
  <2>a. w \in Invoice
    <3>1. invoice[v] \in Invoice
      BY <1>0, <2>1
    <3>2. [of |-> call[c].items, by |-> "ENGINE"] \in Totals
      BY <2>1 DEF Request, Totals
    <3> QED
      BY <3>1, <3>2, TotalsUpdate
  <2>b. invoice' = [invoice EXCEPT ![v] = w]
    BY <1>0, <1>10, <2>1 DEF PriceInvoice
  <2>2. invoice' \in [Invoices -> Invoice]
    BY <1>0, <2>1, <2>a, <2>b
  <2> QED
    BY <1>10, <2>2, FinishType DEF PriceInvoice, StockTypeOK
<1>11. ASSUME NEW c \in Calls, ConfirmInvoice(c)
       PROVE  SalesTypeInv'
  <2>1. call[c].doc \in Invoices
    BY <1>11 DEF ConfirmInvoice, CallsNameInvoices
  <2>2. invoice[call[c].doc].lines \in SUBSET Items
    BY <1>0, <2>1
  <2>3. StockTypeOK'
    BY <1>11, <2>1, <2>2, ClaimAndBook DEF ConfirmInvoice, StockStatus, MovementType
  <2>a. [invoice[call[c].doc] EXCEPT !.status = "CONFIRMED"] \in Invoice
    BY <1>0, <2>1, StatusUpdate DEF InvoiceStatus
  <2>4. invoice' \in [Invoices -> Invoice]
    BY <1>0, <1>11, <2>a DEF ConfirmInvoice
  <2> QED
    BY <1>11, <2>3, <2>4, FinishType DEF ConfirmInvoice
<1>12. ASSUME NEW c \in Calls, CancelInvoice(c)
       PROVE  SalesTypeInv'
  <2>0. call[c].doc \in Invoices
    BY <1>12 DEF CancelInvoice, CallsNameInvoices
  <2>a. [invoice[call[c].doc] EXCEPT !.status = "CANCELLED"] \in Invoice
    BY <1>0, <2>0, StatusUpdate DEF InvoiceStatus
  <2>1. invoice' \in [Invoices -> Invoice]
    BY <1>0, <1>12, <2>a DEF CancelInvoice
  <2> QED
    BY <1>12, <2>1, FinishType DEF CancelInvoice, StockTypeOK
<1>13. ASSUME NEW c \in Calls, Fail(c), UNCHANGED invoice
       PROVE  SalesTypeInv'
  BY <1>13, FinishType DEF Fail, stockVars, StockTypeOK
<1> QED
  BY <1>1, <1>2, <1>3, <1>4, <1>5, <1>6, <1>7, <1>8, <1>9, <1>10, <1>11, <1>12, <1>13
     DEF SalesNext

\* A step of the POS counter leaves a request of another counter alone.
LEMMA SalesStepKeepsRequests ==
    ASSUME RequestTypeOK, SalesNext, NEW c \in Calls
    PROVE  call'[c] = call[c] \/ call'[c].op \in InvoiceOps \cup {"idle"}
<1> USE DEF RequestTypeOK
<1>0. Idle.op = "idle"
  BY DEF Idle
<1>1. ASSUME NEW v \in Invoices, NEW b \in Branches, NEW S \in Baskets, CreateInvoice(v, b, S)
      PROVE  call'[c] = call[c]
  BY <1>1 DEF CreateInvoice
<1>2. ASSUME NEW d \in Calls, NEW v \in Invoices, NEW e \in InvoiceEdits,
             ReadForUpdate(d, v, e)
      PROVE  call'[c] = call[c] \/ call'[c].op = "update"
  BY <1>2 DEF ReadForUpdate, Begin, Idle
<1>3. ASSUME NEW d \in Calls, NEW v \in Invoices,
             \/ ReadForLock(d, v) \/ ReadForPricing(d, v)
             \/ ReadForConfirm(d, v) \/ ReadForCancel(d, v)
      PROVE  call'[c] = call[c] \/ call'[c].op \in InvoiceOps
  <2>1. CASE ReadForLock(d, v)
    BY <2>1 DEF ReadForLock, Begin, Idle
  <2>2. CASE ReadForPricing(d, v)
    BY <2>2 DEF ReadForPricing, Begin, Idle
  <2>3. CASE ReadForConfirm(d, v)
    BY <2>3 DEF ReadForConfirm, Begin, Idle
  <2>4. CASE ReadForCancel(d, v)
    BY <2>4 DEF ReadForCancel, Begin, Idle
  <2> QED
    BY <1>3, <2>1, <2>2, <2>3, <2>4
<1>4. ASSUME NEW d \in Calls, Finish(d)
      PROVE  call'[c] = call[c] \/ call'[c].op = "idle"
  BY <1>0, <1>4 DEF Finish
<1>5. ASSUME NEW d \in Calls, CheckUpdate(d)
      PROVE  call'[c] = call[c] \/ call'[c].op \in InvoiceOps
  BY <1>5 DEF CheckUpdate, Request
<1>6. ASSUME NEW d \in Calls,
             \/ UpdateInvoice(d) \/ LockRate(d) \/ PriceInvoice(d)
             \/ ConfirmInvoice(d) \/ CancelInvoice(d) \/ Fail(d)
      PROVE  Finish(d)
  BY <1>6 DEF UpdateInvoice, LockRate, PriceInvoice, ConfirmInvoice, CancelInvoice, Fail
<1> QED
  BY <1>1, <1>2, <1>3, <1>4, <1>5, <1>6 DEF SalesNext

\* And so does standing still.
LEMMA SalesStutterKeepsTypes ==
    ASSUME SalesTypeInv, UNCHANGED salesVars
    PROVE  SalesTypeInv'
BY DEF salesVars, SalesTypeInv, SalesTypeOK, StockTypeOK, RequestTypeOK, CallsNameInvoices

\* The shop opens with rows of their types.
LEMMA SalesInitTypes == ASSUME SalesInit PROVE SalesTypeInv
<1> USE DEF SalesInit, SalesTypeInv, SalesTypeOK
<1>1. [kind |-> "STOCK_IN", doc |-> None] \in Movement
  BY DEF Movement, MovementType
<1>2. StockTypeOK
  BY <1>1 DEF StockInit, StockTypeOK, StockStatus
<1>3. RequestTypeOK /\ CallsNameInvoices
  BY IdleIsRequest DEF RequestInit, RequestTypeOK, CallsNameInvoices, Idle
<1>4. NoInvoice \in Invoice
  BY DEF NoInvoice, Invoice, InvoiceStatus, Totals
<1> QED
  BY <1>2, <1>3, <1>4

-----------------------------------------------------------------------------
(* The journal.                                                            *)

\* Nothing is ever taken out of the journal.
JournalGrows ==
    \A i \in Items : \/ ledger'[i] = ledger[i]
                     \/ \E m \in Movement : ledger'[i] = Append(ledger[i], m)

\* Booking the movements of a document adds to it.
LEMMA BookGrows ==
    ASSUME StockTypeOK, NEW S \in SUBSET Items, NEW kind \in MovementType,
           NEW doc \in Documents \cup {None}, Book(S, kind, doc)
    PROVE  JournalGrows
<1>1. [kind |-> kind, doc |-> doc] \in Movement
  BY DEF Movement
<1> QED
  BY <1>1 DEF Book, JournalGrows, StockTypeOK

\* Of the requests of the POS counter only a confirm writes to it.
LEMMA SalesStepGrows ==
    ASSUME SalesTypeInv, SalesNext
    PROVE  JournalGrows
<1>1. ASSUME NEW c \in Calls, ConfirmInvoice(c)
      PROVE  JournalGrows
  <2>1. call[c].doc \in Invoices
    BY <1>1 DEF SalesTypeInv, CallsNameInvoices, ConfirmInvoice
  <2>2. invoice[call[c].doc].lines \in SUBSET Items
    BY <2>1 DEF SalesTypeInv, SalesTypeOK, Invoice
  <2> QED
    BY <1>1, <2>1, <2>2, BookGrows, InvoicesAssumption
       DEF ConfirmInvoice, MovementType, SalesTypeInv, SalesTypeOK
<1>2. CASE UNCHANGED ledger
  BY <1>2 DEF JournalGrows
<1> QED
  BY <1>1, <1>2 DEF SalesNext, CreateInvoice, ReadForUpdate, ReadForLock, ReadForPricing,
       ReadForConfirm, ReadForCancel, CheckUpdate, UpdateInvoice, LockRate, PriceInvoice,
       CancelInvoice, Fail, stockVars
\* Appending a movement to a journal.
LEMMA AppendMovement ==
    ASSUME NEW s \in Seq(Movement), NEW m \in Movement
    PROVE  /\ Append(s, m) \in Seq(Movement)
           /\ Len(Append(s, m)) = Len(s) + 1 /\ Len(s) \in Nat
           /\ \A n \in 1..Len(s) : Append(s, m)[n] = s[n]
           /\ Append(s, m)[Len(s) + 1] = m
OBVIOUS

\* What is journalled stays where it is.
LEMMA MovementStays ==
    ASSUME StockTypeOK, JournalGrows, NEW i \in Items, NEW n \in 1..Len(ledger[i])
    PROVE  n \in 1..Len(ledger'[i]) /\ ledger'[i][n] = ledger[i][n]
<1>1. ledger[i] \in Seq(Movement)
  BY DEF StockTypeOK
<1>2. ASSUME NEW m \in Movement, ledger'[i] = Append(ledger[i], m)
      PROVE  n \in 1..Len(ledger'[i]) /\ ledger'[i][n] = ledger[i][n]
  BY <1>1, <1>2, AppendMovement
<1> QED
  BY <1>2 DEF JournalGrows

\* What a step does to the journal of one piece: nothing, or one movement
\* that takes the piece from the custody it had to the custody it has now.
Linked(i) ==
    \/ stock'[i] = stock[i] /\ ledger'[i] = ledger[i]
    \/ \E kind \in MovementType, doc \in Documents :
          /\ ledger'[i] = Append(ledger[i], [kind |-> kind, doc |-> doc])
          /\ stock[i] \in CustodyBefore[kind]
          /\ stock'[i] = CustodyAfter[kind]

\* Such movements keep the chain of custody: a new one begins where the last
\* one ended.
LEMMA ChainStays ==
    ASSUME StockTypeOK, LedgerIsCustodyHistory, \A i \in Items : Linked(i)
    PROVE  LedgerIsCustodyHistory'
<1> DEFINE Link(i, n) ==
        CustodyAfter[ledger[i][n].kind] \in CustodyBefore[ledger[i][n + 1].kind]
<1>0. \A i \in Items : ledger[i] \in Seq(Movement)
  BY DEF StockTypeOK
<1>1. ASSUME NEW i \in Items
      PROVE  /\ \A n \in 1..Len(ledger'[i]) - 1 : Link(i, n)'
             /\ stock'[i] = CustodyAfter[LastMovement(i)'.kind]
  <2>1. /\ \A n \in 1..Len(ledger[i]) - 1 : Link(i, n)
        /\ stock[i] = CustodyAfter[ledger[i][Len(ledger[i])].kind]
    BY DEF LedgerIsCustodyHistory, LastMovement
  <2>2. CASE stock'[i] = stock[i] /\ ledger'[i] = ledger[i]
    BY <2>1, <2>2 DEF LastMovement
  <2>3. ASSUME NEW kind \in MovementType, NEW doc \in Documents,
               ledger'[i] = Append(ledger[i], [kind |-> kind, doc |-> doc]),
               stock[i] \in CustodyBefore[kind], stock'[i] = CustodyAfter[kind]
        PROVE  /\ \A n \in 1..Len(ledger'[i]) - 1 : Link(i, n)'
               /\ stock'[i] = CustodyAfter[LastMovement(i)'.kind]
    <3> DEFINE m == [kind |-> kind, doc |-> doc]
    <3>1. m \in Movement /\ m.kind = kind
      BY DEF Movement
    <3>2. /\ Len(ledger'[i]) = Len(ledger[i]) + 1 /\ Len(ledger[i]) \in Nat
          /\ \A n \in 1..Len(ledger[i]) : ledger'[i][n] = ledger[i][n]
          /\ ledger'[i][Len(ledger[i]) + 1] = m
      BY <1>0, <2>3, <3>1, AppendMovement
    <3>3. ASSUME NEW n \in 1..Len(ledger[i]) - 1 PROVE Link(i, n)'
      <4>1. ledger'[i][n] = ledger[i][n] /\ ledger'[i][n + 1] = ledger[i][n + 1]
        BY <3>2
      <4> QED
        BY <2>1, <4>1
    <3>4. ASSUME NEW n \in 1..Len(ledger[i]), n = Len(ledger[i]) PROVE Link(i, n)'
      <4>1. ledger'[i][n] = ledger[i][n] /\ ledger'[i][n + 1] = m
        BY <3>2, <3>4
      <4> QED
        BY <2>1, <2>3, <3>1, <3>4, <4>1
    <3>5. \A n \in 1..Len(ledger'[i]) - 1 :
             \/ n \in 1..Len(ledger[i]) - 1
             \/ n \in 1..Len(ledger[i]) /\ n = Len(ledger[i])
      BY <3>2
    <3>6. LastMovement(i)'.kind = kind
      BY <3>1, <3>2 DEF LastMovement
    <3> HIDE DEF Link
    <3> QED
      BY <2>3, <3>3, <3>4, <3>5, <3>6
  <2> QED
    BY <2>2, <2>3 DEF Linked
<1> QED
  BY <1>1 DEF LedgerIsCustodyHistory

\* A journal of one movement.
LEMMA OneMovement == ASSUME NEW m PROVE Len(<<m>>) = 1 /\ <<m>>[1] = m
OBVIOUS

\* The journal opens with the movements that brought the pieces in.
LEMMA ChainBegins ==
    ASSUME StockInit
    PROVE  /\ LedgerIsCustodyHistory
           /\ \A i \in Items : Len(ledger[i]) = 1 /\ LastMovement(i).kind = "STOCK_IN"
<1>1. \A i \in Items : /\ stock[i] = "AVAILABLE"
                       /\ ledger[i] = <<[kind |-> "STOCK_IN", doc |-> None]>>
  BY DEF StockInit
<1>2. \A i \in Items : /\ Len(ledger[i]) = 1
                       /\ ledger[i][1] = [kind |-> "STOCK_IN", doc |-> None]
  BY <1>1, OneMovement
<1>3. 1..1 - 1 = {}
  OBVIOUS
<1>4. ASSUME NEW i \in Items PROVE LastMovement(i).kind = "STOCK_IN"
  BY <1>2 DEF LastMovement
<1>5. ASSUME NEW i \in Items PROVE stock[i] = CustodyAfter[LastMovement(i).kind]
  <2>1. CustodyAfter["STOCK_IN"] = "AVAILABLE"
    BY DEF CustodyAfter
  <2> QED
    BY <1>1, <1>4, <2>1
<1>6. \A i \in Items : 1..Len(ledger[i]) - 1 = {}
  BY <1>2, <1>3, Zenon
<1> QED
  BY <1>2, <1>4, <1>5, <1>6 DEF LedgerIsCustodyHistory

-----------------------------------------------------------------------------
(* What the POS counter does to pieces and invoices.                       *)

\* A confirm that goes through.
Sells(c) ==
    /\ ConfirmInvoice(c)
    /\ call[c].doc \in Invoices
    /\ Moves(invoice[call[c].doc].lines, "AVAILABLE", "SOLD", "SALE", call[c].doc)

\* confirmSalesInvoice moves its pieces.
LEMMA ConfirmSells == ASSUME SalesTypeInv, NEW c \in Calls, ConfirmInvoice(c) PROVE Sells(c)
<1> DEFINE v == call[c].doc
<1>1. /\ call[c].op = "confirm"
      /\ Claim(invoice[v].lines, call[c].branch, "AVAILABLE", "SOLD")
      /\ Book(invoice[v].lines, "SALE", v)
  BY DEF ConfirmInvoice
<1>2. v \in Invoices
  BY <1>1 DEF SalesTypeInv, CallsNameInvoices
<1>3. invoice[v].lines \in SUBSET Items /\ StockTypeOK
  BY <1>2 DEF SalesTypeInv, SalesTypeOK, Invoice
<1>4. Moves(invoice[v].lines, "AVAILABLE", "SOLD", "SALE", v)
  BY <1>1, <1>2, <1>3, ClaimAndBook, InvoicesAssumption DEF StockStatus, MovementType
<1> QED
  BY <1>2, <1>4 DEF Sells

\* Nothing else at the POS counter touches the pieces or the journal.
LEMMA SalesStockStep ==
    ASSUME SalesTypeInv, SalesNext
    PROVE  UNCHANGED <<stock, ledger>> \/ \E c \in Calls : Sells(c)
BY ConfirmSells
   DEF SalesNext, CreateInvoice, ReadForUpdate, ReadForLock, ReadForPricing,
       ReadForConfirm, ReadForCancel, CheckUpdate, UpdateInvoice, LockRate,
       PriceInvoice, CancelInvoice, Fail, stockVars

\* An invoice that was created is not lost and keeps its lines, and it is
\* confirmed by confirmSalesInvoice only.
InvoiceKept(v) ==
    /\ invoice[v].status # "NONE" =>
          invoice'[v].status # "NONE" /\ invoice'[v].lines = invoice[v].lines
    /\ invoice'[v].status = "CONFIRMED" =>
          \/ invoice[v].status = "CONFIRMED"
          \/ invoice[v].status # "NONE" /\ \E c \in Calls : Sells(c) /\ call[c].doc = v

\* What a step of the POS counter does to an invoice row.
LEMMA SalesKeepsInvoices ==
    ASSUME SalesTypeInv, SalesNext, NEW v \in Invoices
    PROVE  InvoiceKept(v)
<1>0. invoice \in [Invoices -> Invoice]
  BY DEF SalesTypeInv, SalesTypeOK
<1>a. CASE invoice'[v] = invoice[v]
  BY <1>a DEF InvoiceKept
<1>1. ASSUME NEW w \in Invoices, NEW b, NEW S, CreateInvoice(w, b, S), invoice'[v] # invoice[v]
      PROVE  InvoiceKept(v)
  <2>1. w = v /\ invoice[v].status = "NONE" /\ invoice'[v].status = "DRAFT"
    BY <1>0, <1>1 DEF CreateInvoice, NoInvoice
  <2> QED
    BY <2>1 DEF InvoiceKept
<1>2. ASSUME NEW c \in Calls, UpdateInvoice(c) \/ LockRate(c) \/ PriceInvoice(c)
      PROVE  InvoiceKept(v)
  <2>1. invoice'[v].status = invoice[v].status /\ invoice'[v].lines = invoice[v].lines
    <3>1. CASE UpdateInvoice(c)
      BY <1>0, <3>1 DEF UpdateInvoice, Invoice
    <3>2. CASE LockRate(c)
      BY <1>0, <3>2 DEF LockRate, Invoice
    <3>3. CASE PriceInvoice(c)
      BY <1>0, <3>3 DEF PriceInvoice, Invoice
    <3> QED
      BY <1>2, <3>1, <3>2, <3>3
  <2> QED
    BY <2>1 DEF InvoiceKept
<1>3. ASSUME NEW c \in Calls, CancelInvoice(c), invoice'[v] # invoice[v]
      PROVE  InvoiceKept(v)
  <2>1. invoice'[v].status = "CANCELLED" /\ invoice'[v].lines = invoice[v].lines
    BY <1>0, <1>3 DEF CancelInvoice, Invoice
  <2> QED
    BY <2>1 DEF InvoiceKept
<1>4. ASSUME NEW c \in Calls, ConfirmInvoice(c), invoice'[v] # invoice[v]
      PROVE  InvoiceKept(v)
  <2>1. call[c].doc = v
    BY <1>0, <1>4 DEF ConfirmInvoice
  <2>2. /\ invoice[v].status = "DRAFT" /\ invoice'[v].status = "CONFIRMED"
        /\ invoice'[v].lines = invoice[v].lines
    BY <1>0, <1>4, <2>1 DEF ConfirmInvoice, StillDraft, Invoice
  <2> QED
    BY <1>4, <2>1, <2>2, ConfirmSells DEF InvoiceKept
<1> QED
  BY <1>a, <1>1, <1>2, <1>3, <1>4
     DEF SalesNext, ReadForUpdate, ReadForLock, ReadForPricing,
         ReadForConfirm, ReadForCancel, CheckUpdate, Fail

(***************************************************************************)
(* Part 2.  The POS counter and the approval desk.                         *)
(***************************************************************************)

SlipOps == {"updateSlip", "issue", "issueChecked", "cancelSlip", "return", "purchase"}

\* A request in flight names a row of the table it works on.
CallsNameTheirDocuments ==
    \A c \in Calls :
        /\ call[c].op \in InvoiceOps => call[c].doc \in Invoices
        /\ call[c].op \in SlipOps => call[c].doc \in Slips

TypeInv == ApprovalTypeOK /\ CallsNameTheirDocuments

USE DEF SlipOps

-----------------------------------------------------------------------------
(* The tables of the shop.                                                 *)

\* Beginning a request that names its document keeps the requests in order.
LEMMA BeginAnyType ==
    ASSUME TypeInv, NEW c \in Calls, NEW r \in Request, Begin(c, r),
           r.op \in InvoiceOps => r.doc \in Invoices,
           r.op \in SlipOps => r.doc \in Slips
    PROVE  RequestTypeOK' /\ CallsNameTheirDocuments'
BY DEF TypeInv, ApprovalTypeOK, SalesTypeOK, RequestTypeOK, CallsNameTheirDocuments, Begin

\* So does ending one.
LEMMA FinishAnyType ==
    ASSUME TypeInv, NEW c \in Calls, Finish(c)
    PROVE  RequestTypeOK' /\ CallsNameTheirDocuments'
BY IdleIsRequest
   DEF TypeInv, ApprovalTypeOK, SalesTypeOK, RequestTypeOK, CallsNameTheirDocuments,
       Finish, Idle

-----------------------------------------------------------------------------
(* Type correctness.                                                       *)

\* The steps of the POS counter keep the types.
LEMMA SalesTypeStep ==
    ASSUME TypeInv, SalesNext, UNCHANGED approval
    PROVE  TypeInv'
<1>1. SalesTypeInv
  BY DEF TypeInv, ApprovalTypeOK, CallsNameTheirDocuments, SalesTypeInv, CallsNameInvoices
<1>2. SalesTypeInv'
  BY <1>1, SalesStepKeepsTypes
<1>3. \A c \in Calls : call'[c].op \in SlipOps => call'[c] = call[c]
  BY <1>1, SalesStepKeepsRequests DEF SalesTypeInv, SalesTypeOK
<1> QED
  BY <1>2, <1>3 DEF TypeInv, ApprovalTypeOK, CallsNameTheirDocuments, SalesTypeInv,
                    CallsNameInvoices

\* The updates the handlers make to a slip row leave a slip row.
LEMMA SlipUpdates ==
    ASSUME NEW w \in Slip, NEW s \in SlipStatus, NEW S \in SUBSET Items, NEW n \in Nat
    PROVE  /\ [w EXCEPT !.status = s] \in Slip
           /\ [w EXCEPT !.lines = S, !.rows = n] \in Slip
BY DEF Slip

\* A status write to an existing slip.
LEMMA SlipStatusWrite ==
    ASSUME approval \in [Slips -> Slip], NEW a \in Slips, NEW s \in SlipStatus,
           approval' = [approval EXCEPT ![a].status = s]
    PROVE  approval' \in [Slips -> Slip]
<1>1. [approval[a] EXCEPT !.status = s] \in Slip
  BY 0 \in Nat, SlipUpdates
<1> QED
  BY <1>1

\* The steps of the approval counter keep the types.
LEMMA ApprovalTypeStep ==
    ASSUME TypeInv, ApprovalNext
    PROVE  TypeInv'
<1> USE InvoicesAssumption, SlipsAssumption
    DEF TypeInv, ApprovalTypeOK, SalesTypeOK
<1>0. /\ stock \in [Items -> StockStatus] /\ itemBranch \in [Items -> Branches]
      /\ invoice \in [Invoices -> Invoice] /\ call \in [Calls -> Request]
      /\ approval \in [Slips -> Slip]
      /\ \A a \in Slips : /\ approval[a].branch \in Branches \cup {None}
                          /\ approval[a].lines \in SUBSET Items
                          /\ approval[a].rows \in Nat
  BY DEF StockTypeOK, RequestTypeOK, Slip
<1>1. ASSUME NEW a \in Slips, NEW b \in Branches, NEW S \in SlipItems, CreateSlip(a, b, S)
      PROVE  TypeInv'
  <2>1. [NoSlip EXCEPT !.status = "DRAFT", !.branch = b, !.lines = S] \in Slip
    BY DEF NoSlip, Slip, SlipStatus
  <2>2. approval' \in [Slips -> Slip]
    BY <1>0, <1>1, <2>1 DEF CreateSlip
  <2> QED
    BY <1>1, <2>2 DEF CreateSlip, StockTypeOK, RequestTypeOK, CallsNameTheirDocuments
<1>2. ASSUME NEW c \in Calls, NEW a \in Slips, NEW S \in SlipItems,
             ReadForSlipUpdate(c, a, S)
      PROVE  TypeInv'
  <2> DEFINE r == [Idle EXCEPT !.op = "updateSlip", !.doc = a, !.items = S,
                               !.branch = approval[a].branch]
  <2>1. r \in Request /\ r.op = "updateSlip" /\ r.doc = a
    BY <1>0 DEF Idle, Request, Ops
  <2>2. Begin(c, r)
    BY <1>2 DEF ReadForSlipUpdate
  <2> HIDE DEF r
  <2> QED
    BY <1>2, <2>1, <2>2, BeginAnyType DEF ReadForSlipUpdate, StockTypeOK
<1>3. ASSUME NEW c \in Calls, NEW a \in Slips, ReadForIssue(c, a)
      PROVE  TypeInv'
  <2> DEFINE r == [Idle EXCEPT !.op = "issue", !.doc = a, !.branch = approval[a].branch,
                               !.items = approval[a].lines]
  <2>1. r \in Request /\ r.op = "issue" /\ r.doc = a
    BY <1>0 DEF Idle, Request, Ops
  <2>2. Begin(c, r)
    BY <1>3 DEF ReadForIssue
  <2> HIDE DEF r
  <2> QED
    BY <1>3, <2>1, <2>2, BeginAnyType DEF ReadForIssue, StockTypeOK
<1>4. ASSUME NEW c \in Calls, NEW a \in Slips, ReadForSlipCancel(c, a)
      PROVE  TypeInv'
  <2> DEFINE r == [Idle EXCEPT !.op = "cancelSlip", !.doc = a]
  <2>1. r \in Request /\ r.op = "cancelSlip" /\ r.doc = a
    BY DEF Idle, Request, Ops
  <2>2. Begin(c, r)
    BY <1>4 DEF ReadForSlipCancel
  <2> HIDE DEF r
  <2> QED
    BY <1>4, <2>1, <2>2, BeginAnyType DEF ReadForSlipCancel, StockTypeOK
<1>5. ASSUME NEW c \in Calls, NEW a \in Slips, NEW op \in {"return", "purchase"},
             ReadForOutcome(c, a, op)
      PROVE  TypeInv'
  <2> DEFINE r == [Idle EXCEPT !.op = op, !.doc = a, !.branch = approval[a].branch,
                               !.items = approval[a].lines, !.rows = approval[a].rows]
  <2>1. r \in Request /\ r.op = op /\ r.doc = a
    BY <1>0 DEF Idle, Request, Ops
  <2>2. Begin(c, r)
    BY <1>5 DEF ReadForOutcome
  <2> HIDE DEF r
  <2> QED
    BY <1>5, <2>1, <2>2, BeginAnyType DEF ReadForOutcome, StockTypeOK
<1>6. ASSUME NEW c \in Calls, UpdateSlip(c)
      PROVE  TypeInv'
  <2>1. call[c] \in Request /\ call[c].doc \in Slips
    BY <1>0, <1>6 DEF UpdateSlip, CallsNameTheirDocuments
  <2>2. call[c].items \in SUBSET Items
    BY <2>1 DEF Request
  <2>3. [approval[call[c].doc] EXCEPT !.lines = call[c].items, !.rows = @ + 1] \in Slip
    <3>1. approval[call[c].doc] \in Slip /\ approval[call[c].doc].rows + 1 \in Nat
      BY <1>0, <2>1
    <3> QED
      BY <2>2, <3>1, SlipUpdates DEF SlipStatus
  <2>4. approval' \in [Slips -> Slip]
    BY <1>0, <1>6, <2>1, <2>3 DEF UpdateSlip
  <2> QED
    BY <1>6, <2>4, FinishAnyType DEF UpdateSlip, StockTypeOK
<1>7. ASSUME NEW c \in Calls, CheckIssue(c)
      PROVE  TypeInv'
  <2> DEFINE r == [call[c] EXCEPT !.op = "issueChecked"]
  <2>1. call[c] \in Request /\ call[c].doc \in Slips
    BY <1>0, <1>7 DEF CheckIssue, CallsNameTheirDocuments
  <2>2. r \in Request /\ r.op = "issueChecked" /\ r.doc \in Slips
    BY <2>1 DEF Request, Ops
  <2>3. call' = [call EXCEPT ![c] = r]
    BY <1>7 DEF CheckIssue
  <2> HIDE DEF r
  <2>4. RequestTypeOK' /\ CallsNameTheirDocuments'
    BY <1>0, <2>2, <2>3 DEF RequestTypeOK, CallsNameTheirDocuments
  <2> QED
    BY <1>7, <2>4 DEF CheckIssue, StockTypeOK
<1>8. ASSUME NEW c \in Calls, IssueSlip(c)
      PROVE  TypeInv'
  <2>1. call[c] \in Request /\ call[c].doc \in Slips
    BY <1>0, <1>8 DEF IssueSlip, CallsNameTheirDocuments
  <2>2. call[c].items \in SUBSET Items
    BY <2>1 DEF Request
  <2>3. StockTypeOK'
    BY <1>8, <2>1, <2>2, ClaimAndBook DEF IssueSlip, StockStatus, MovementType
  <2>4. approval' \in [Slips -> Slip]
    BY <1>0, <1>8, <2>1, SlipStatusWrite DEF IssueSlip, SlipStatus
  <2> QED
    BY <1>8, <2>3, <2>4, FinishAnyType DEF IssueSlip
<1>9. ASSUME NEW c \in Calls, CancelSlip(c)
      PROVE  TypeInv'
  <2>1. call[c].doc \in Slips
    BY <1>9 DEF CancelSlip, CallsNameTheirDocuments
  <2>2. approval' \in [Slips -> Slip]
    BY <1>0, <1>9, <2>1, SlipStatusWrite DEF CancelSlip, SlipStatus
  <2> QED
    BY <1>9, <2>2, FinishAnyType DEF CancelSlip, StockTypeOK
<1>10. ASSUME NEW c \in Calls, ReturnSlip(c)
       PROVE  TypeInv'
  <2>1. call[c] \in Request /\ call[c].doc \in Slips
    BY <1>0, <1>10 DEF ReturnSlip, CallsNameTheirDocuments
  <2>2. call[c].items \in SUBSET Items
    BY <2>1 DEF Request
  <2>3. StockTypeOK'
    BY <1>10, <2>1, <2>2, ClaimAndBook DEF ReturnSlip, StockStatus, MovementType
  <2>4. approval' \in [Slips -> Slip]
    BY <1>0, <1>10, <2>1, SlipStatusWrite DEF ReturnSlip, SlipStatus
  <2> QED
    BY <1>10, <2>3, <2>4, FinishAnyType DEF ReturnSlip
<1>11. ASSUME NEW c \in Calls, NEW v \in Invoices, PurchaseSlip(c, v)
       PROVE  TypeInv'
  <2>1. call[c] \in Request /\ call[c].doc \in Slips
    BY <1>0, <1>11 DEF PurchaseSlip, CallsNameTheirDocuments
  <2>2. call[c].items \in SUBSET Items /\ call[c].branch \in Branches \cup {None}
    BY <2>1 DEF Request
  <2>3. StockTypeOK'
    BY <1>11, <2>2, ClaimAndBook DEF PurchaseSlip, StockStatus, MovementType
  <2>4. approval' \in [Slips -> Slip]
    BY <1>0, <1>11, <2>1, SlipStatusWrite DEF PurchaseSlip, SlipStatus
  <2> DEFINE w == InvoiceFromSlip(call[c])
  <2>5. w \in Invoice
    BY <2>2 DEF InvoiceFromSlip, Invoice, InvoiceStatus, Totals
  <2>6. invoice' = [invoice EXCEPT ![v] = w]
    BY <1>11 DEF PurchaseSlip
  <2> HIDE DEF w
  <2>7. invoice' \in [Invoices -> Invoice]
    BY <1>0, <2>5, <2>6
  <2> QED
    BY <1>11, <2>3, <2>4, <2>7, FinishAnyType DEF PurchaseSlip
<1>12. ASSUME NEW c \in Calls, Fail(c), UNCHANGED <<invoice, approval>>
       PROVE  TypeInv'
  BY <1>12, FinishAnyType DEF Fail, stockVars, StockTypeOK
<1> QED
  BY <1>1, <1>2, <1>3, <1>4, <1>5, <1>6, <1>7, <1>8, <1>9, <1>10, <1>11, <1>12
     DEF ApprovalNext

\* The shop opens with rows of their types.
LEMMA TypeInit == ASSUME ApprovalInit PROVE TypeInv
<1>1. SalesTypeInv
  BY SalesInitTypes DEF ApprovalInit
<1>2. \A c \in Calls : call[c].op \notin SlipOps
  BY DEF ApprovalInit, SalesInit, RequestInit, Idle
<1>3. NoSlip \in Slip
  BY DEF NoSlip, Slip, SlipStatus
<1> QED
  BY <1>1, <1>2, <1>3
     DEF ApprovalInit, TypeInv, ApprovalTypeOK, CallsNameTheirDocuments, SalesTypeInv,
         CallsNameInvoices

\* Every step of either counter keeps them.
LEMMA TypeStep == ASSUME TypeInv, [ShowroomNext]_approvalVars PROVE TypeInv'
<1>1. CASE ApprovalNext
  BY <1>1, ApprovalTypeStep
<1>2. CASE SalesNext /\ UNCHANGED approval
  BY <1>2, SalesTypeStep
<1>3. CASE UNCHANGED approvalVars
  BY <1>3 DEF approvalVars, TypeInv, ApprovalTypeOK, SalesTypeOK, StockTypeOK,
              RequestTypeOK, CallsNameTheirDocuments
<1> QED
  BY <1>1, <1>2, <1>3 DEF ShowroomNext

\* So they are kept for good.
LEMMA TypeInvariant == ShowroomSpec => []TypeInv
<1> QED
  BY TypeInit, TypeStep, PTL DEF ShowroomSpec

\* Every table row and every request in flight always has the shape the
\* schema and the handlers give it.
THEOREM TypeCorrect == ShowroomSpec => []ApprovalTypeOK
<1>1. TypeInv => ApprovalTypeOK
  BY DEF TypeInv
<1> QED
  BY <1>1, TypeInvariant, PTL
-----------------------------------------------------------------------------
(* What moves pieces.                                                      *)

\* The four handlers that move pieces.
Issues(c)      == /\ IssueSlip(c)
                  /\ call[c].doc \in Slips
                  /\ Moves(call[c].items, "AVAILABLE", "ON_APPROVAL",
                           "APPROVAL_ISSUE", call[c].doc)
TakesBack(c)   == /\ ReturnSlip(c)
                  /\ call[c].doc \in Slips
                  /\ Moves(call[c].items, "ON_APPROVAL", "AVAILABLE",
                           "APPROVAL_RETURN", call[c].doc)
Confirms(c)    == /\ ConfirmInvoice(c)
                  /\ call[c].doc \in Invoices
                  /\ Moves(invoice[call[c].doc].lines, "AVAILABLE", "SOLD",
                           "SALE", call[c].doc)
Purchases(c,v) == /\ PurchaseSlip(c, v)
                  /\ Moves(call[c].items, "ON_APPROVAL", "SOLD", "SALE", v)

\* The rows a handler reads are rows of their tables.
LEMMA RowsInPlace ==
    ASSUME TypeInv
    PROVE  /\ StockTypeOK
           /\ \A c \in Calls : call[c].items \in SUBSET Items
           /\ \A v \in Invoices : invoice[v].lines \in SUBSET Items
           /\ Slips \subseteq Documents /\ Invoices \subseteq Documents
           /\ {"AVAILABLE", "ON_APPROVAL", "SOLD"} \subseteq StockStatus
           /\ {"SALE", "APPROVAL_ISSUE", "APPROVAL_RETURN"} \subseteq MovementType
<1>1. StockTypeOK /\ call \in [Calls -> Request] /\ invoice \in [Invoices -> Invoice]
  BY DEF TypeInv, ApprovalTypeOK, SalesTypeOK, RequestTypeOK
<1>2. \A c \in Calls : call[c].items \in SUBSET Items
  BY <1>1 DEF Request
<1>3. \A v \in Invoices : invoice[v].lines \in SUBSET Items
  BY <1>1 DEF Invoice
<1> QED
  BY <1>1, <1>2, <1>3, InvoicesAssumption, SlipsAssumption DEF StockStatus, MovementType

\* Each of the four handlers makes such a move.
LEMMA IssueIsMove == ASSUME TypeInv, NEW c \in Calls, IssueSlip(c) PROVE Issues(c)
<1>1. /\ call[c].op = "issueChecked"
      /\ Claim(call[c].items, call[c].branch, "AVAILABLE", "ON_APPROVAL")
      /\ Book(call[c].items, "APPROVAL_ISSUE", call[c].doc)
  BY DEF IssueSlip
<1>2. call[c].doc \in Slips
  BY <1>1 DEF TypeInv, CallsNameTheirDocuments
<1>3. Moves(call[c].items, "AVAILABLE", "ON_APPROVAL", "APPROVAL_ISSUE", call[c].doc)
  BY <1>1, <1>2, RowsInPlace, ClaimAndBook
<1> QED
  BY <1>2, <1>3 DEF Issues

\* returnApproval.
LEMMA ReturnIsMove == ASSUME TypeInv, NEW c \in Calls, ReturnSlip(c) PROVE TakesBack(c)
<1>1. /\ call[c].op = "return"
      /\ Claim(call[c].items, call[c].branch, "ON_APPROVAL", "AVAILABLE")
      /\ Book(call[c].items, "APPROVAL_RETURN", call[c].doc)
  BY DEF ReturnSlip
<1>2. call[c].doc \in Slips
  BY <1>1 DEF TypeInv, CallsNameTheirDocuments
<1>3. Moves(call[c].items, "ON_APPROVAL", "AVAILABLE", "APPROVAL_RETURN", call[c].doc)
  BY <1>1, <1>2, RowsInPlace, ClaimAndBook
<1> QED
  BY <1>2, <1>3 DEF TakesBack

\* confirmSalesInvoice.
LEMMA ConfirmIsMove == ASSUME TypeInv, NEW c \in Calls, ConfirmInvoice(c) PROVE Confirms(c)
<1> DEFINE v == call[c].doc
<1>1. /\ call[c].op = "confirm"
      /\ Claim(invoice[v].lines, call[c].branch, "AVAILABLE", "SOLD")
      /\ Book(invoice[v].lines, "SALE", v)
  BY DEF ConfirmInvoice
<1>2. v \in Invoices
  BY <1>1 DEF TypeInv, CallsNameTheirDocuments
<1>3. Moves(invoice[v].lines, "AVAILABLE", "SOLD", "SALE", v)
  BY <1>1, <1>2, RowsInPlace, ClaimAndBook
<1> QED
  BY <1>2, <1>3 DEF Confirms

\* purchaseApproval.
LEMMA PurchaseIsMove ==
    ASSUME TypeInv, NEW c \in Calls, NEW v \in Invoices, PurchaseSlip(c, v)
    PROVE  Purchases(c, v)
<1>1. /\ Claim(call[c].items, call[c].branch, "ON_APPROVAL", "SOLD")
      /\ Book(call[c].items, "SALE", v)
  BY DEF PurchaseSlip
<1>2. Moves(call[c].items, "ON_APPROVAL", "SOLD", "SALE", v)
  BY <1>1, RowsInPlace, ClaimAndBook
<1> QED
  BY <1>2 DEF Purchases

\* Nothing else touches the pieces or the journal.
LEMMA StockStep ==
    ASSUME TypeInv, [ShowroomNext]_approvalVars
    PROVE  \/ UNCHANGED <<stock, ledger>>
           \/ \E c \in Calls : \/ Issues(c) \/ TakesBack(c) \/ Confirms(c)
                               \/ \E v \in Invoices : Purchases(c, v)
<1>1. CASE ApprovalNext
  BY <1>1, IssueIsMove, ReturnIsMove, PurchaseIsMove
     DEF ApprovalNext, CreateSlip, ReadForSlipUpdate, ReadForIssue, ReadForSlipCancel,
         ReadForOutcome, UpdateSlip, CheckIssue, CancelSlip, Fail, stockVars
<1>2. CASE SalesNext
  BY <1>2, ConfirmIsMove
     DEF SalesNext, CreateInvoice, ReadForUpdate, ReadForLock, ReadForPricing,
         ReadForConfirm, ReadForCancel, CheckUpdate, UpdateInvoice, LockRate,
         PriceInvoice, CancelInvoice, Fail, stockVars
<1>3. CASE UNCHANGED approvalVars
  BY <1>3 DEF approvalVars
<1> QED
  BY <1>1, <1>2, <1>3 DEF ShowroomNext
-----------------------------------------------------------------------------
(* What a step may do to an invoice.                                       *)

\* An invoice keeps its lines, a cancelled invoice stays cancelled, and a
\* confirmed one is at most cancelled.
KeepsItsWord(v) ==
    /\ invoice[v].status # "NONE" => invoice'[v].lines = invoice[v].lines
    /\ invoice[v].status = "CANCELLED" => invoice'[v].status = "CANCELLED"
    /\ invoice[v].status = "CONFIRMED" => invoice'[v].status \in {"CONFIRMED", "CANCELLED"}

\* If it is confirmed by the step, it is by one of the two ways to confirm.
ConfirmedBySale(v) ==
    invoice'[v].status = "CONFIRMED" =>
        \/ invoice[v].status = "CONFIRMED"
        \/ \E c \in Calls : \/ ConfirmInvoice(c) /\ call[c].doc = v
                            \/ PurchaseSlip(c, v)

\* What a step can do to an invoice row.
LEMMA InvoiceStep ==
    ASSUME TypeInv, [ShowroomNext]_approvalVars, NEW v \in Invoices
    PROVE  KeepsItsWord(v) /\ ConfirmedBySale(v)
<1>0. invoice \in [Invoices -> Invoice]
  BY DEF TypeInv, ApprovalTypeOK, SalesTypeOK
<1>a. CASE invoice'[v] = invoice[v]
  BY <1>a DEF KeepsItsWord, ConfirmedBySale
<1>1. ASSUME NEW w \in Invoices, NEW b, NEW S, CreateInvoice(w, b, S), invoice'[v] # invoice[v]
      PROVE  KeepsItsWord(v) /\ ConfirmedBySale(v)
  <2>1. w = v /\ invoice[v].status = "NONE" /\ invoice'[v].status = "DRAFT"
    BY <1>0, <1>1 DEF CreateInvoice, NoInvoice
  <2> QED
    BY <2>1 DEF KeepsItsWord, ConfirmedBySale
<1>2. ASSUME NEW c \in Calls, UpdateInvoice(c) \/ LockRate(c) \/ PriceInvoice(c)
      PROVE  KeepsItsWord(v) /\ ConfirmedBySale(v)
  <2>1. invoice'[v].status = invoice[v].status /\ invoice'[v].lines = invoice[v].lines
    <3>1. CASE UpdateInvoice(c)
      BY <1>0, <3>1 DEF UpdateInvoice, Invoice
    <3>2. CASE LockRate(c)
      BY <1>0, <3>2 DEF LockRate, Invoice
    <3>3. CASE PriceInvoice(c)
      BY <1>0, <3>3 DEF PriceInvoice, Invoice
    <3> QED
      BY <1>2, <3>1, <3>2, <3>3
  <2> QED
    BY <2>1 DEF KeepsItsWord, ConfirmedBySale
<1>3. ASSUME NEW c \in Calls, CancelInvoice(c), invoice'[v] # invoice[v]
      PROVE  KeepsItsWord(v) /\ ConfirmedBySale(v)
  <2>1. invoice'[v].status = "CANCELLED" /\ invoice'[v].lines = invoice[v].lines
    BY <1>0, <1>3 DEF CancelInvoice, Invoice
  <2> QED
    BY <2>1 DEF KeepsItsWord, ConfirmedBySale
<1>4. ASSUME NEW c \in Calls, ConfirmInvoice(c), invoice'[v] # invoice[v]
      PROVE  KeepsItsWord(v) /\ ConfirmedBySale(v)
  <2>1. call[c].doc = v
    BY <1>0, <1>4 DEF ConfirmInvoice
  <2>2. invoice[v].status = "DRAFT" /\ invoice'[v].lines = invoice[v].lines
    BY <1>0, <1>4, <2>1 DEF ConfirmInvoice, StillDraft, Invoice
  <2> QED
    BY <1>4, <2>1, <2>2 DEF KeepsItsWord, ConfirmedBySale
<1>5. ASSUME NEW c \in Calls, NEW w \in Invoices, PurchaseSlip(c, w), invoice'[v] # invoice[v]
      PROVE  KeepsItsWord(v) /\ ConfirmedBySale(v)
  <2>1. w = v /\ invoice[v].status = "NONE"
    BY <1>0, <1>5 DEF PurchaseSlip
  <2> QED
    BY <1>5, <2>1 DEF KeepsItsWord, ConfirmedBySale
<1>6. CASE ApprovalNext
  BY <1>a, <1>5, <1>6
     DEF ApprovalNext, CreateSlip, ReadForSlipUpdate, ReadForIssue, ReadForSlipCancel,
         ReadForOutcome, UpdateSlip, CheckIssue, IssueSlip, CancelSlip, ReturnSlip
<1>7. CASE SalesNext
  BY <1>a, <1>1, <1>2, <1>3, <1>4, <1>7
     DEF SalesNext, ReadForUpdate, ReadForLock, ReadForPricing,
         ReadForConfirm, ReadForCancel, CheckUpdate
<1>8. CASE UNCHANGED approvalVars
  BY <1>a, <1>8 DEF approvalVars
<1> QED
  BY <1>6, <1>7, <1>8 DEF ShowroomNext
-----------------------------------------------------------------------------
(* No piece is sold twice.  Two confirmed invoices cannot share a piece    *)
(* because a conditional claim needs a piece that is not SOLD, and a SOLD  *)
(* piece keeps the SALE that made it so as its last movement.              *)

\* A SOLD piece and its last movement are left alone by every step.
LEMMA SoldStaysSold ==
    ASSUME TypeInv, [ShowroomNext]_approvalVars, NEW i \in Items, stock[i] = "SOLD"
    PROVE  stock'[i] = "SOLD" /\ LastMovement(i)' = LastMovement(i)
<1>1. CASE UNCHANGED <<stock, ledger>>
  BY <1>1 DEF LastMovement
<1>2. ASSUME NEW S, NEW from, NEW to, NEW kind, NEW doc, Moves(S, from, to, kind, doc),
             from # "SOLD"
      PROVE  stock'[i] = "SOLD" /\ LastMovement(i)' = LastMovement(i)
  <2>1. i \notin S /\ stock'[i] = stock[i] /\ ledger'[i] = ledger[i]
    BY <1>2 DEF Moves
  <2> QED
    BY <2>1 DEF LastMovement
<1>3. ASSUME NEW c \in Calls, \/ Issues(c) \/ TakesBack(c) \/ Confirms(c)
                              \/ \E v \in Invoices : Purchases(c, v)
      PROVE  stock'[i] = "SOLD" /\ LastMovement(i)' = LastMovement(i)
  BY <1>2, <1>3 DEF Issues, TakesBack, Confirms, Purchases
<1> QED
  BY <1>1, <1>3, StockStep

SaleInv == TypeInv /\ ConfirmedInvoicesHoldTheirItems

\* No invoice is confirmed when the shop opens.
LEMMA SaleInit == ASSUME ApprovalInit PROVE SaleInv
BY TypeInit DEF SaleInv, ConfirmedInvoicesHoldTheirItems, ApprovalInit, SalesInit, NoInvoice

\* Confirming an invoice sells its pieces, and no step takes them away.
LEMMA SaleStep ==
    ASSUME SaleInv, [ShowroomNext]_approvalVars
    PROVE  SaleInv'
<1>0. TypeInv /\ invoice \in [Invoices -> Invoice]
  BY DEF SaleInv, TypeInv, ApprovalTypeOK, SalesTypeOK
<1>1. \A v \in Invoices : invoice[v].lines \in SUBSET Items
  BY <1>0 DEF Invoice
<1>2. ASSUME NEW v \in Invoices, invoice'[v].status = "CONFIRMED",
             NEW i \in invoice'[v].lines
      PROVE  stock'[i] = "SOLD" /\ LastMovement(i)' = [kind |-> "SALE", doc |-> v]
  <2>1. CASE invoice[v].status = "CONFIRMED"
    <3>1. i \in invoice[v].lines
      BY <1>0, <1>2, <2>1, InvoiceStep DEF KeepsItsWord
    <3>2. i \in Items /\ stock[i] = "SOLD" /\ LastMovement(i) = [kind |-> "SALE", doc |-> v]
      BY <1>1, <2>1, <3>1 DEF SaleInv, ConfirmedInvoicesHoldTheirItems
    <3> QED
      BY <1>0, <3>2, SoldStaysSold
  <2>2. ASSUME NEW c \in Calls, ConfirmInvoice(c), call[c].doc = v
        PROVE  stock'[i] = "SOLD" /\ LastMovement(i)' = [kind |-> "SALE", doc |-> v]
    <3>1. Confirms(c)
      BY <1>0, <2>2, ConfirmIsMove
    <3>2. i \in invoice[v].lines
      BY <1>0, <1>2, <2>2, InvoiceStep DEF KeepsItsWord, ConfirmInvoice
    <3> QED
      BY <2>2, <3>1, <3>2 DEF Confirms, Moves
  <2>3. ASSUME NEW c \in Calls, PurchaseSlip(c, v)
        PROVE  stock'[i] = "SOLD" /\ LastMovement(i)' = [kind |-> "SALE", doc |-> v]
    <3>1. Purchases(c, v)
      BY <1>0, <2>3, PurchaseIsMove
    <3>2. i \in call[c].items
      BY <1>0, <1>2, <2>3 DEF PurchaseSlip, InvoiceFromSlip
    <3> QED
      BY <3>1, <3>2 DEF Purchases, Moves
  <2> QED
    BY <1>0, <1>2, <2>1, <2>2, <2>3, InvoiceStep DEF ConfirmedBySale
<1>3. ConfirmedInvoicesHoldTheirItems'
  BY <1>2 DEF ConfirmedInvoicesHoldTheirItems
<1> QED
  BY <1>0, <1>3, TypeStep DEF SaleInv

\* Whatever requests overlap, every piece on a confirmed invoice is SOLD and
\* its last movement is that invoice's sale (confirmSalesInvoice and
\* purchaseApproval, with every other handler running in between).
THEOREM ConfirmedInvoicesHold == ShowroomSpec => []ConfirmedInvoicesHoldTheirItems
<1>1. SaleInv => ConfirmedInvoicesHoldTheirItems
  BY DEF SaleInv
<1> QED
  BY <1>1, SaleInit, SaleStep, PTL DEF ShowroomSpec

\* No two confirmed invoices ever share a piece.
THEOREM NothingIsSoldTwice == ShowroomSpec => []NoDoubleSale
<1>1. SaleInv => NoDoubleSale
  BY DEF SaleInv, ConfirmedInvoicesHoldTheirItems, NoDoubleSale
<1> QED
  BY <1>1, SaleInit, SaleStep, PTL DEF ShowroomSpec

\* An invoice that is cancelled stays cancelled, and a confirmed one can only
\* be cancelled (the DRAFT test confirmSalesInvoice repeats under its lock).
THEOREM StatusAdvances == ShowroomSpec => StatusOnlyAdvances
<1>1. TypeInv /\ [ShowroomNext]_approvalVars =>
        [\A v \in Invoices :
           /\ invoice[v].status = "CANCELLED" => invoice'[v].status = "CANCELLED"
           /\ invoice[v].status = "CONFIRMED" =>
                  invoice'[v].status \in {"CONFIRMED", "CANCELLED"}]_invoice
  BY InvoiceStep DEF KeepsItsWord
<1> QED
  BY <1>1, TypeInvariant, PTL DEF ShowroomSpec, StatusOnlyAdvances
-----------------------------------------------------------------------------
(* The journal.                                                            *)

\* What a step does to the journal of one piece: nothing, or one movement
\* that takes the piece from the custody it had to the custody it has now.
Journalled(i) ==
    \/ stock'[i] = stock[i] /\ ledger'[i] = ledger[i]
    \/ \E kind \in MovementType, doc \in Documents :
          /\ ledger'[i] = Append(ledger[i], [kind |-> kind, doc |-> doc])
          /\ stock[i] \in CustodyBefore[kind]
          /\ stock'[i] = CustodyAfter[kind]
          /\ kind = "SALE" => /\ doc \in Invoices
                              /\ invoice'[doc].status = "CONFIRMED"
                              /\ i \in invoice'[doc].lines

\* A step leaves the journal of a piece alone or appends what it did.
LEMMA JournalStep ==
    ASSUME TypeInv, [ShowroomNext]_approvalVars, NEW i \in Items
    PROVE  Journalled(i)
<1>0. Slips \subseteq Documents /\ Invoices \subseteq Documents
  BY InvoicesAssumption, SlipsAssumption
<1>1. CASE UNCHANGED <<stock, ledger>>
  BY <1>1 DEF Journalled
<1>2. ASSUME NEW c \in Calls, Issues(c) PROVE Journalled(i)
  BY <1>0, <1>2
     DEF Issues, Moves, Journalled, MovementType, CustodyBefore, CustodyAfter
<1>3. ASSUME NEW c \in Calls, TakesBack(c) PROVE Journalled(i)
  BY <1>0, <1>3
     DEF TakesBack, Moves, Journalled, MovementType, CustodyBefore, CustodyAfter
<1>4. ASSUME NEW c \in Calls, Confirms(c) PROVE Journalled(i)
  <2> DEFINE v == call[c].doc
  <2>1. /\ v \in Invoices
        /\ invoice'[v].status = "CONFIRMED" /\ invoice'[v].lines = invoice[v].lines
    BY <1>4 DEF Confirms, ConfirmInvoice, TypeInv, ApprovalTypeOK, SalesTypeOK, Invoice
  <2>2. Moves(invoice[v].lines, "AVAILABLE", "SOLD", "SALE", v)
    BY <1>4 DEF Confirms
  <2> QED
    BY <1>0, <2>1, <2>2
       DEF Moves, Journalled, MovementType, CustodyBefore, CustodyAfter
<1>5. ASSUME NEW c \in Calls, NEW v \in Invoices, Purchases(c, v) PROVE Journalled(i)
  <2>1. invoice'[v].status = "CONFIRMED" /\ invoice'[v].lines = call[c].items
    BY <1>5 DEF Purchases, PurchaseSlip, InvoiceFromSlip, TypeInv, ApprovalTypeOK, SalesTypeOK
  <2>2. Moves(call[c].items, "ON_APPROVAL", "SOLD", "SALE", v)
    BY <1>5 DEF Purchases
  <2> QED
    BY <1>0, <2>1, <2>2
       DEF Moves, Journalled, MovementType, CustodyBefore, CustodyAfter
<1> QED
  BY <1>1, <1>2, <1>3, <1>4, <1>5, StockStep

JournalInv == TypeInv /\ SalesAreInvoiced /\ LedgerIsCustodyHistory

\* The journal opens with the movements that brought the pieces in.
LEMMA JournalInit == ASSUME ApprovalInit PROVE JournalInv
<1>1. \A i \in Items : /\ stock[i] = "AVAILABLE"
                       /\ ledger[i] = <<[kind |-> "STOCK_IN", doc |-> None]>>
  BY DEF ApprovalInit, SalesInit, StockInit
<1>2. \A i \in Items : /\ Len(ledger[i]) = 1
                       /\ ledger[i][1] = [kind |-> "STOCK_IN", doc |-> None]
  BY <1>1, OneMovement
<1>a. \A n \in 1..1 : n = 1
  OBVIOUS
<1>3. SalesAreInvoiced
  <2>1. ASSUME NEW i \in Items, NEW n \in 1..Len(ledger[i]) PROVE ledger[i][n].kind # "SALE"
    <3>1. n \in 1..1
      BY <1>2, Zenon
    <3> QED
      BY <1>2, <1>a, <3>1
  <2> QED
    BY <2>1 DEF SalesAreInvoiced
<1>4. LedgerIsCustodyHistory
  BY ChainBegins DEF ApprovalInit, SalesInit
<1> QED
  BY <1>3, <1>4, TypeInit DEF JournalInv

\* A sale stays invoiced, and a new one is.
LEMMA InvoicedStep ==
    ASSUME TypeInv, SalesAreInvoiced, [ShowroomNext]_approvalVars
    PROVE  SalesAreInvoiced'
<1>0. /\ invoice \in [Invoices -> Invoice] /\ \A i \in Items : ledger[i] \in Seq(Movement)
  BY DEF TypeInv, ApprovalTypeOK, SalesTypeOK, StockTypeOK
<1> DEFINE Accounted(i, n) ==
        ledger[i][n].kind = "SALE" =>
            /\ ledger[i][n].doc \in Invoices
            /\ invoice[ledger[i][n].doc].status \in {"CONFIRMED", "CANCELLED"}
            /\ i \in invoice[ledger[i][n].doc].lines
<1>1. ASSUME NEW i \in Items, NEW n \in 1..Len(ledger[i]), ledger'[i][n] = ledger[i][n]
      PROVE  Accounted(i, n)'
  <2> DEFINE v == ledger[i][n].doc
  <2>1. SUFFICES ASSUME ledger[i][n].kind = "SALE"
                 PROVE  /\ v \in Invoices
                        /\ invoice'[v].status \in {"CONFIRMED", "CANCELLED"}
                        /\ i \in invoice'[v].lines
    BY <1>1
  <2>2. /\ v \in Invoices
        /\ invoice[v].status \in {"CONFIRMED", "CANCELLED"}
        /\ i \in invoice[v].lines
    BY <2>1 DEF SalesAreInvoiced
  <2> HIDE DEF v
  <2> QED
    BY <2>2, InvoiceStep DEF KeepsItsWord
<1>2. ASSUME NEW i \in Items PROVE \A n \in 1..Len(ledger'[i]) : Accounted(i, n)'
  <2>1. CASE ledger'[i] = ledger[i]
    BY <1>1, <2>1
  <2>2. ASSUME NEW kind \in MovementType, NEW doc \in Documents,
               ledger'[i] = Append(ledger[i], [kind |-> kind, doc |-> doc]),
               kind = "SALE" => /\ doc \in Invoices
                                /\ invoice'[doc].status = "CONFIRMED"
                                /\ i \in invoice'[doc].lines
        PROVE  \A n \in 1..Len(ledger'[i]) : Accounted(i, n)'
    <3> DEFINE m == [kind |-> kind, doc |-> doc]
    <3>1. m \in Movement
      BY DEF Movement
    <3>2. /\ Len(ledger'[i]) = Len(ledger[i]) + 1 /\ Len(ledger[i]) \in Nat
          /\ \A n \in 1..Len(ledger[i]) : ledger'[i][n] = ledger[i][n]
          /\ ledger'[i][Len(ledger[i]) + 1] = m
      BY <1>0, <2>2, <3>1, AppendMovement
    <3>3. ASSUME NEW n \in 1..Len(ledger'[i]), n = Len(ledger[i]) + 1
          PROVE  Accounted(i, n)'
      <4>1. ledger'[i][n].kind = kind /\ ledger'[i][n].doc = doc
        BY <3>2, <3>3
      <4> QED
        BY <2>2, <4>1
    <3>4. \A n \in 1..Len(ledger'[i]) : n \in 1..Len(ledger[i]) \/ n = Len(ledger[i]) + 1
      BY <3>2
    <3> HIDE DEF Accounted
    <3> QED
      BY <1>1, <3>2, <3>3, <3>4
  <2> QED
    BY <2>1, <2>2, JournalStep DEF Journalled
<1> QED
  BY <1>2 DEF SalesAreInvoiced

\* A new movement begins where the last one ended.
LEMMA ChainStep ==
    ASSUME TypeInv, LedgerIsCustodyHistory, [ShowroomNext]_approvalVars
    PROVE  LedgerIsCustodyHistory'
<1>1. \A i \in Items : Linked(i)
  BY JournalStep DEF Journalled, Linked
<1>2. StockTypeOK
  BY RowsInPlace
<1> QED
  BY <1>1, <1>2, ChainStays

\* Every step keeps the journal in order.
LEMMA JournalInvStep ==
    ASSUME JournalInv, [ShowroomNext]_approvalVars
    PROVE  JournalInv'
BY TypeStep, InvoicedStep, ChainStep DEF JournalInv

\* Every sale in the journal belongs to an invoice that lists the piece and
\* was confirmed.
THEOREM EverySaleIsInvoiced == ShowroomSpec => []SalesAreInvoiced
<1>1. JournalInv => SalesAreInvoiced
  BY DEF JournalInv
<1> QED
  BY <1>1, JournalInit, JournalInvStep, PTL DEF ShowroomSpec

\* The journal of every piece is an unbroken chain of custody that ends in
\* the status of the piece.
THEOREM JournalIsHistory == ShowroomSpec => []LedgerIsCustodyHistory
<1>1. JournalInv => LedgerIsCustodyHistory
  BY DEF JournalInv
<1> QED
  BY <1>1, JournalInit, JournalInvStep, PTL DEF ShowroomSpec
-----------------------------------------------------------------------------
(* The two counters implement Custody.                                     *)

\* A piece that is out or sold has a last movement, booked by a slip or by
\* an invoice: this is what makes HolderOf a document.
HeldByDocument ==
    \A i \in Items :
        /\ Len(ledger[i]) >= 1
        /\ stock[i] = "ON_APPROVAL" => LastMovement(i).doc \in Slips
        /\ stock[i] = "SOLD" => LastMovement(i).kind = "SALE"

HolderInv == JournalInv /\ HeldByDocument

\* No piece is in the hands of a document when the shop opens.
LEMMA HolderInit == ASSUME ApprovalInit PROVE HolderInv
<1>1. \A i \in Items : /\ stock[i] = "AVAILABLE"
                       /\ ledger[i] = <<[kind |-> "STOCK_IN", doc |-> None]>>
  BY DEF ApprovalInit, SalesInit, StockInit
<1>2. 1 >= 1
  OBVIOUS
<1>3. \A i \in Items : Len(ledger[i]) >= 1
  <2>1. \A i \in Items : Len(ledger[i]) = 1
    BY <1>1, OneMovement
  <2> QED
    BY <1>2, <2>1, Zenon
<1> QED
  BY <1>1, <1>3, JournalInit DEF HolderInv, HeldByDocument

\* The document a piece is with is the one of its last movement.
LEMMA HolderStep ==
    ASSUME HolderInv, [ShowroomNext]_approvalVars
    PROVE  HolderInv'
<1>0. TypeInv /\ JournalInv'
  BY JournalInvStep DEF HolderInv, JournalInv
<1>1. \A i \in Items : ledger[i] \in Seq(Movement)
  BY <1>0 DEF TypeInv, ApprovalTypeOK, SalesTypeOK, StockTypeOK
<1>2. ASSUME NEW i \in Items PROVE Len(ledger'[i]) >= 1
  <2>1. CASE ledger'[i] = ledger[i]
    BY <2>1 DEF HolderInv, HeldByDocument
  <2>2. ASSUME NEW kind \in MovementType, NEW doc \in Documents,
               ledger'[i] = Append(ledger[i], [kind |-> kind, doc |-> doc])
        PROVE  Len(ledger'[i]) >= 1
    <3>1. [kind |-> kind, doc |-> doc] \in Movement
      BY DEF Movement
    <3>2. Len(ledger'[i]) = Len(ledger[i]) + 1 /\ Len(ledger[i]) \in Nat
      BY <1>1, <2>2, <3>1, AppendMovement
    <3> QED
      BY <3>2
  <2> QED
    BY <1>0, <2>1, <2>2, JournalStep DEF Journalled
<1> DEFINE Held(i) == /\ stock[i] = "ON_APPROVAL" => LastMovement(i).doc \in Slips
                      /\ stock[i] = "SOLD" => LastMovement(i).kind = "SALE"
<1>3. ASSUME NEW i \in Items, UNCHANGED <<stock[i], ledger[i]>> PROVE Held(i)'
  BY <1>3 DEF HolderInv, HeldByDocument, LastMovement
<1>4. ASSUME NEW i \in Items, NEW S, NEW from, NEW to, NEW kind, NEW doc,
             Moves(S, from, to, kind, doc),
             to = "ON_APPROVAL" => doc \in Slips, to = "SOLD" => kind = "SALE"
      PROVE  Held(i)'
  <2>1. CASE i \in S
    <3>1. stock'[i] = to /\ LastMovement(i)' = [kind |-> kind, doc |-> doc]
      BY <1>4, <2>1 DEF Moves
    <3> QED
      BY <1>4, <3>1
  <2>2. CASE i \notin S
    <3>1. UNCHANGED <<stock[i], ledger[i]>>
      BY <1>4, <2>2 DEF Moves
    <3> QED
      BY <1>3, <3>1
  <2> QED
    BY <2>1, <2>2
<1>5. ASSUME NEW i \in Items PROVE Held(i)'
  <2>1. CASE UNCHANGED <<stock, ledger>>
    BY <1>3, <2>1
  <2>2. ASSUME NEW c \in Calls, \/ Issues(c) \/ TakesBack(c) \/ Confirms(c)
                                \/ \E v \in Invoices : Purchases(c, v)
        PROVE  Held(i)'
    <3> HIDE DEF Held
    <3> QED
      BY <1>4, <2>2 DEF Issues, TakesBack, Confirms, Purchases
  <2> QED
    BY <1>0, <2>1, <2>2, StockStep
<1>6. HeldByDocument'
  BY <1>2, <1>5 DEF HeldByDocument
<1> QED
  BY <1>0, <1>6 DEF HolderInv

\* An invoice that is not confirmed yet has sold nothing.
LEMMA UnsoldHoldsNothing ==
    ASSUME HolderInv, NEW v \in Invoices, invoice[v].status \in {"NONE", "DRAFT"}
    PROVE  \A i \in Items : HolderOf(i) # v
<1>0. None \notin Invoices /\ Slips \cap Invoices = {}
  BY NoneAssumption, InvoicesAssumption, SlipsAssumption
<1>1. SUFFICES ASSUME NEW i \in Items, HolderOf(i) = v PROVE FALSE
  OBVIOUS
<1>2. stock[i] # "AVAILABLE" /\ LastMovement(i).doc = v
  BY <1>0, <1>1 DEF HolderOf
<1>3. stock[i] \in StockStatus /\ ledger[i] \in Seq(Movement)
  BY DEF HolderInv, JournalInv, TypeInv, ApprovalTypeOK, SalesTypeOK, StockTypeOK
<1>4. stock[i] = "SOLD"
  BY <1>0, <1>2, <1>3 DEF StockStatus, HolderInv, HeldByDocument
<1>5. LastMovement(i).kind = "SALE" /\ Len(ledger[i]) \in 1..Len(ledger[i])
  BY <1>3, <1>4 DEF HolderInv, HeldByDocument
<1>6. invoice[v].status \in {"CONFIRMED", "CANCELLED"}
  BY <1>2, <1>5 DEF HolderInv, JournalInv, SalesAreInvoiced, LastMovement
<1> QED
  BY <1>6

\* The holders after a move.
LEMMA HolderMoves ==
    ASSUME NEW S, NEW from, NEW to, NEW kind, NEW doc, Moves(S, from, to, kind, doc)
    PROVE  /\ \A i \in S : HolderOf(i)' = IF to = "AVAILABLE" THEN None ELSE doc
           /\ \A i \in Items \ S : HolderOf(i)' = HolderOf(i)
<1>1. \A i \in S : stock'[i] = to /\ LastMovement(i)'.doc = doc
  BY DEF Moves
<1>2. \A i \in Items \ S : stock'[i] = stock[i] /\ LastMovement(i)' = LastMovement(i)
  BY DEF Moves, LastMovement
<1> QED
  BY <1>1, <1>2 DEF HolderOf

\* Every step of the counters is a step of Custody or none.
LEMMA CustodyStep ==
    ASSUME HolderInv, [ShowroomNext]_approvalVars
    PROVE  [C!CustodyNext]_[i \in Items |-> HolderOf(i)]
<1> DEFINE h == [i \in Items |-> HolderOf(i)]
<1>0. TypeInv /\ HeldByDocument
  BY DEF HolderInv, JournalInv
<1>1. ASSUME NEW S \in SUBSET Items, NEW d,
             \A i \in S : HolderOf(i)' = d,
             \A i \in Items \ S : HolderOf(i)' = HolderOf(i)
      PROVE  C!Move(S, d) /\ (S = {} => h' = h)
  BY <1>1 DEF C!Move
<1>2. ASSUME NEW c \in Calls, Issues(c) PROVE C!CustodyNext \/ h' = h
  <2> DEFINE S == call[c].items
             a == call[c].doc
  <2>1. S \in SUBSET Items /\ a \in Slips
    BY <1>2 DEF Issues, Moves
  <2>2. C!Move(S, a) /\ (S = {} => h' = h)
    BY <1>1, <1>2, <2>1, HolderMoves DEF Issues
  <2>3. S \subseteq C!Held(None)
    BY <1>2, <2>1 DEF Issues, Moves, HolderOf, C!Held
  <2> QED
    BY <2>1, <2>2, <2>3 DEF C!CustodyNext, C!Lend
<1>3. ASSUME NEW c \in Calls, TakesBack(c) PROVE C!CustodyNext \/ h' = h
  <2> DEFINE S == call[c].items
  <2>1. S \in SUBSET Items
    BY <1>3 DEF TakesBack, Moves
  <2>2. C!Move(S, None) /\ (S = {} => h' = h)
    BY <1>1, <1>3, <2>1, HolderMoves DEF TakesBack
  <2>3. \A i \in S : h[i] \in Slips
    BY <1>0, <1>3, <2>1 DEF TakesBack, Moves, HeldByDocument, HolderOf
  <2> QED
    BY <2>1, <2>2, <2>3 DEF C!CustodyNext, C!TakeBack
<1>4. ASSUME NEW c \in Calls, Confirms(c) PROVE C!CustodyNext \/ h' = h
  <2> DEFINE v == call[c].doc
             S == invoice[v].lines
  <2>1. S \in SUBSET Items /\ v \in Invoices /\ invoice[v].status = "DRAFT"
    BY <1>4 DEF Confirms, ConfirmInvoice, StillDraft, Moves
  <2>2. C!Move(S, v) /\ (S = {} => h' = h)
    BY <1>1, <1>4, <2>1, HolderMoves DEF Confirms
  <2>3. \A i \in S : h[i] = None
    BY <1>4, <2>1 DEF Confirms, Moves, HolderOf
  <2>4. C!Held(v) = {}
    BY <2>1, UnsoldHoldsNothing DEF C!Held
  <2> QED
    BY <2>1, <2>2, <2>3, <2>4 DEF C!CustodyNext, C!Sell
<1>5. ASSUME NEW c \in Calls, NEW v \in Invoices, Purchases(c, v)
      PROVE  C!CustodyNext \/ h' = h
  <2> DEFINE S == call[c].items
  <2>1. S \in SUBSET Items /\ invoice[v].status = "NONE"
    BY <1>5 DEF Purchases, PurchaseSlip, Moves
  <2>2. C!Move(S, v) /\ (S = {} => h' = h)
    BY <1>1, <1>5, <2>1, HolderMoves DEF Purchases
  <2>3. \A i \in S : h[i] \in Slips
    BY <1>0, <1>5, <2>1 DEF Purchases, Moves, HeldByDocument, HolderOf
  <2>4. C!Held(v) = {}
    BY <2>1, UnsoldHoldsNothing DEF C!Held
  <2> QED
    BY <2>1, <2>2, <2>3, <2>4 DEF C!CustodyNext, C!Sell
<1>6. CASE UNCHANGED <<stock, ledger>>
  BY <1>6 DEF HolderOf, LastMovement
<1> QED
  BY <1>0, <1>2, <1>3, <1>4, <1>5, <1>6, StockStep

\* However requests interleave, the two counters move pieces only by whole
\* documents, from the hands the document may take them from, and a sold
\* piece stays sold: they implement Custody.
THEOREM CountersImplementCustody == ShowroomSpec => PiecesMoveByDocument
<1>1. ApprovalInit => C!CustodyInit
  BY DEF ApprovalInit, SalesInit, StockInit, HolderOf, C!CustodyInit
<1> QED
  BY <1>1, HolderInit, HolderStep, CustodyStep, PTL
     DEF ShowroomSpec, PiecesMoveByDocument, C!CustodySpec
-----------------------------------------------------------------------------
(* What a step may do to a slip, and to a request on a slip.               *)

\* How a step may change the row of a slip, and the request that does it.
SlipChange(a) ==
    \/ approval'[a] = approval[a]
    \/ approval[a].status = "NONE" /\ approval'[a].status = "DRAFT"
    \/ \E c \in Calls :
          /\ call[c].doc = a
          /\ \/ /\ UpdateSlip(c)
                /\ approval'[a].status = approval[a].status
                /\ approval'[a].rows = approval[a].rows + 1
             \/ /\ approval'[a].rows = approval[a].rows
                /\ approval'[a].lines = approval[a].lines
                /\ \/ IssueSlip(c) /\ approval'[a].status = "ISSUED"
                   \/ CancelSlip(c) /\ approval'[a].status = "CANCELLED"
                   \/ ReturnSlip(c) /\ approval'[a].status = "RETURNED"
                   \/ \E v \in Invoices :
                         PurchaseSlip(c, v) /\ approval'[a].status = "PURCHASED"

\* createApproval, updateApproval, issueApproval, cancelApproval,
\* returnApproval and purchaseApproval are all that write a slip.
LEMMA SlipStep ==
    ASSUME TypeInv, [ShowroomNext]_approvalVars, NEW a \in Slips
    PROVE  SlipChange(a)
<1>0. approval \in [Slips -> Slip]
  BY DEF TypeInv, ApprovalTypeOK
<1>1. CASE approval'[a] = approval[a]
  BY <1>1 DEF SlipChange
<1>2. ASSUME NEW w \in Slips, NEW b, NEW S, CreateSlip(w, b, S), approval'[a] # approval[a]
      PROVE  SlipChange(a)
  <2>1. w = a /\ approval[a].status = "NONE" /\ approval'[a].status = "DRAFT"
    BY <1>0, <1>2 DEF CreateSlip, NoSlip
  <2> QED
    BY <2>1 DEF SlipChange
<1>3. ASSUME NEW c \in Calls, UpdateSlip(c), approval'[a] # approval[a]
      PROVE  SlipChange(a)
  <2>1. call[c].doc = a
    BY <1>0, <1>3 DEF UpdateSlip
  <2>2. /\ approval'[a].status = approval[a].status
        /\ approval'[a].rows = approval[a].rows + 1
    BY <1>0, <1>3, <2>1 DEF UpdateSlip, Slip
  <2> QED
    BY <1>3, <2>1, <2>2 DEF SlipChange
<1>4. ASSUME NEW c \in Calls, NEW s, approval' = [approval EXCEPT ![call[c].doc].status = s],
             approval'[a] # approval[a],
             \/ IssueSlip(c) /\ s = "ISSUED"
             \/ CancelSlip(c) /\ s = "CANCELLED"
             \/ ReturnSlip(c) /\ s = "RETURNED"
             \/ \E v \in Invoices : PurchaseSlip(c, v) /\ s = "PURCHASED"
      PROVE  SlipChange(a)
  <2>1. call[c].doc = a
    BY <1>0, <1>4
  <2>2. /\ approval'[a].status = s
        /\ approval'[a].rows = approval[a].rows
        /\ approval'[a].lines = approval[a].lines
    BY <1>0, <1>4, <2>1 DEF Slip
  <2> QED
    BY <1>4, <2>1, <2>2 DEF SlipChange
<1>5. ASSUME NEW c \in Calls, \/ IssueSlip(c) \/ CancelSlip(c) \/ ReturnSlip(c)
                              \/ \E v \in Invoices : PurchaseSlip(c, v)
      PROVE  SlipChange(a)
  <2>1. CASE IssueSlip(c)
    BY <1>1, <1>4, <2>1 DEF IssueSlip
  <2>2. CASE CancelSlip(c)
    BY <1>1, <1>4, <2>2 DEF CancelSlip
  <2>3. CASE ReturnSlip(c)
    BY <1>1, <1>4, <2>3 DEF ReturnSlip
  <2>4. CASE \E v \in Invoices : PurchaseSlip(c, v)
    BY <1>1, <1>4, <2>4 DEF PurchaseSlip
  <2> QED
    BY <1>5, <2>1, <2>2, <2>3, <2>4
<1>6. CASE ApprovalNext
  BY <1>1, <1>2, <1>3, <1>5, <1>6
     DEF ApprovalNext, ReadForSlipUpdate, ReadForIssue, ReadForSlipCancel, ReadForOutcome,
         CheckIssue
<1>7. CASE UNCHANGED approval
  BY <1>1, <1>7
<1> QED
  BY <1>6, <1>7 DEF ShowroomNext, approvalVars

\* What a request on a slip has just read there.
ReadsSlip(r) ==
    /\ r.op \in SlipOps \ {"issueChecked"}
    /\ r.doc \in Slips
    /\ r.op \in {"return", "purchase"} =>
          /\ approval[r.doc].status = "ISSUED"
          /\ r.items = approval[r.doc].lines
          /\ r.rows = approval[r.doc].rows
    /\ r.op \in {"updateSlip", "issue", "cancelSlip"} => approval[r.doc].status = "DRAFT"
    /\ r.op = "issue" => r.items = approval[r.doc].lines

\* A request stays as it is, ends, turns to an invoice, reads a slip, or goes
\* from its first check to its second.
RequestChange(c) ==
    \/ call'[c] = call[c]
    \/ call'[c].op \notin SlipOps
    \/ UNCHANGED approval /\ ReadsSlip(call'[c])
    \/ /\ UNCHANGED approval
       /\ call[c].op = "issue" /\ call'[c].op = "issueChecked"
       /\ call'[c].doc = call[c].doc /\ call'[c].items = call[c].items

\* What a step does to a request.
LEMMA SlipRequestStep ==
    ASSUME TypeInv, [ShowroomNext]_approvalVars, NEW c \in Calls
    PROVE  RequestChange(c)
<1>0. call \in [Calls -> Request]
  BY DEF TypeInv, ApprovalTypeOK, SalesTypeOK, RequestTypeOK
<1>1. ASSUME NEW d \in Calls, NEW r, Begin(d, r), UNCHANGED approval, ReadsSlip(r)
      PROVE  RequestChange(c)
  <2>1. call'[c] = call[c] \/ call'[c] = r
    BY <1>0, <1>1 DEF Begin
  <2> QED
    BY <1>1, <2>1 DEF RequestChange
<1>2. ASSUME NEW d \in Calls, Finish(d) PROVE RequestChange(c)
  <2>1. call'[c] = call[c] \/ call'[c] = Idle
    BY <1>0, <1>2 DEF Finish
  <2>2. Idle.op \notin SlipOps
    BY DEF Idle
  <2> QED
    BY <2>1, <2>2 DEF RequestChange
<1>3. ASSUME NEW d \in Calls, NEW a \in Slips, NEW S, ReadForSlipUpdate(d, a, S)
      PROVE  RequestChange(c)
  <2> DEFINE r == [Idle EXCEPT !.op = "updateSlip", !.doc = a, !.items = S,
                               !.branch = approval[a].branch]
  <2>1. Begin(d, r) /\ UNCHANGED approval /\ approval[a].status = "DRAFT"
    BY <1>3 DEF ReadForSlipUpdate, SlipIsDraft
  <2>2. ReadsSlip(r)
    BY <2>1 DEF Idle, ReadsSlip
  <2> HIDE DEF r
  <2> QED
    BY <1>1, <2>1, <2>2
<1>4. ASSUME NEW d \in Calls, NEW a \in Slips, ReadForIssue(d, a)
      PROVE  RequestChange(c)
  <2> DEFINE r == [Idle EXCEPT !.op = "issue", !.doc = a, !.branch = approval[a].branch,
                               !.items = approval[a].lines]
  <2>1. Begin(d, r) /\ UNCHANGED approval /\ approval[a].status = "DRAFT"
    BY <1>4 DEF ReadForIssue, SlipIsDraft
  <2>2. ReadsSlip(r)
    BY <2>1 DEF Idle, ReadsSlip
  <2> HIDE DEF r
  <2> QED
    BY <1>1, <2>1, <2>2
<1>5. ASSUME NEW d \in Calls, NEW a \in Slips, ReadForSlipCancel(d, a)
      PROVE  RequestChange(c)
  <2> DEFINE r == [Idle EXCEPT !.op = "cancelSlip", !.doc = a]
  <2>1. Begin(d, r) /\ UNCHANGED approval /\ approval[a].status = "DRAFT"
    BY <1>5 DEF ReadForSlipCancel, SlipIsDraft
  <2>2. ReadsSlip(r)
    BY <2>1 DEF Idle, ReadsSlip
  <2> HIDE DEF r
  <2> QED
    BY <1>1, <2>1, <2>2
<1>6. ASSUME NEW d \in Calls, NEW a \in Slips, NEW op \in {"return", "purchase"},
             ReadForOutcome(d, a, op)
      PROVE  RequestChange(c)
  <2> DEFINE r == [Idle EXCEPT !.op = op, !.doc = a, !.branch = approval[a].branch,
                               !.items = approval[a].lines, !.rows = approval[a].rows]
  <2>1. Begin(d, r) /\ UNCHANGED approval /\ approval[a].status = "ISSUED"
    BY <1>6 DEF ReadForOutcome, SlipIsOut
  <2>2. ReadsSlip(r)
    BY <2>1 DEF Idle, ReadsSlip
  <2> HIDE DEF r
  <2> QED
    BY <1>1, <2>1, <2>2
<1>7. ASSUME NEW d \in Calls, CheckIssue(d) PROVE RequestChange(c)
  <2>1. CASE c = d
    <3>1. call'[c] = [call[c] EXCEPT !.op = "issueChecked"] /\ call[c].op = "issue"
      BY <1>0, <1>7, <2>1 DEF CheckIssue
    <3>2. /\ call'[c].op = "issueChecked"
          /\ call'[c].doc = call[c].doc /\ call'[c].items = call[c].items
      BY <1>0, <3>1 DEF Request
    <3> QED
      BY <1>7, <3>1, <3>2 DEF CheckIssue, RequestChange
  <2>2. CASE c # d
    BY <1>0, <1>7, <2>2 DEF CheckIssue, RequestChange
  <2> QED
    BY <2>1, <2>2
<1>8. CASE UNCHANGED call
  BY <1>8 DEF RequestChange
<1>9. CASE ApprovalNext
  BY <1>2, <1>3, <1>4, <1>5, <1>6, <1>7, <1>8, <1>9
     DEF ApprovalNext, CreateSlip, UpdateSlip, IssueSlip, CancelSlip, ReturnSlip,
         PurchaseSlip, Fail
<1>10. CASE SalesNext
  <2>1. call'[c] = call[c] \/ call'[c].op \in InvoiceOps \cup {"idle"}
    BY <1>0, <1>10, SalesStepKeepsRequests DEF RequestTypeOK
  <2> QED
    BY <2>1 DEF RequestChange
<1> QED
  BY <1>8, <1>9, <1>10 DEF ShowroomNext, approvalVars

-----------------------------------------------------------------------------
(* A slip is settled whole, whatever requests meet on it: the rows that    *)
(* are updated by id are the rows that were read.                          *)

\* The row ids a return or a purchase has read stand for the lines it read.
RowsNameLines ==
    \A c \in Calls : LET r == call[c] IN
        r.op \in {"return", "purchase"} =>
            /\ approval[r.doc].status # "NONE"
            /\ r.rows <= approval[r.doc].rows
            /\ RowsAsRead(r) => r.items = approval[r.doc].lines

RowsInv == TypeInv /\ RowsNameLines

\* New rows never have the ids of old ones.
LEMMA RowsStep ==
    ASSUME RowsInv, [ShowroomNext]_approvalVars
    PROVE  RowsInv'
<1>0. /\ TypeInv /\ TypeInv' /\ call \in [Calls -> Request]
      /\ approval \in [Slips -> Slip] /\ \A a \in Slips : approval[a].rows \in Nat
  BY TypeStep DEF RowsInv, TypeInv, ApprovalTypeOK, SalesTypeOK, RequestTypeOK, Slip
<1>1. ASSUME NEW c \in Calls, call'[c].op \in {"return", "purchase"}
      PROVE  /\ approval'[call'[c].doc].status # "NONE"
             /\ call'[c].rows <= approval'[call'[c].doc].rows
             /\ RowsAsRead(call[c])' => call'[c].items = approval'[call'[c].doc].lines
  <2>1. CASE UNCHANGED approval /\ ReadsSlip(call'[c])
    BY <1>0, <1>1, <2>1 DEF ReadsSlip, RowsAsRead
  <2>2. CASE call'[c] = call[c]
    <3> DEFINE r == call[c]
               a == r.doc
    <3>1. /\ a \in Slips /\ r.rows \in Nat
          /\ approval[a].status # "NONE" /\ r.rows <= approval[a].rows
          /\ RowsAsRead(r) => r.items = approval[a].lines
      BY <1>0, <1>1, <2>2 DEF RowsInv, RowsNameLines, TypeInv, CallsNameTheirDocuments, Request
    <3>2. SlipChange(a)
      BY <1>0, <3>1, SlipStep
    <3>3. CASE approval'[a].rows = approval[a].rows + 1 /\ approval'[a].status = approval[a].status
      BY <1>0, <2>2, <3>1, <3>3 DEF RowsAsRead
    <3>4. CASE /\ approval'[a].rows = approval[a].rows /\ approval'[a].lines = approval[a].lines
               /\ approval'[a].status # "NONE"
      BY <2>2, <3>1, <3>4 DEF RowsAsRead
    <3> QED
      BY <3>1, <3>2, <3>3, <3>4 DEF SlipChange
  <2> QED
    BY <1>0, <1>1, <2>1, <2>2, SlipRequestStep DEF RequestChange
<1>2. RowsNameLines'
  BY <1>1 DEF RowsNameLines
<1> QED
  BY <1>0, <1>2 DEF RowsInv

\* A return or a purchase that goes through settles every line of its slip.
LEMMA SettlesItsLines ==
    ASSUME RowsInv, NEW c \in Calls,
           ReturnSlip(c) \/ \E v \in Invoices : PurchaseSlip(c, v)
    PROVE  call[c].items = approval[call[c].doc].lines
BY DEF ReturnSlip, PurchaseSlip, RowsInv, RowsNameLines

\* However edits, returns and purchases of one slip interleave, a slip that
\* becomes RETURNED has had every piece then on it brought back by it, and one
\* that becomes PURCHASED has had every piece sold by one invoice.
THEOREM SlipsSettleWhole == ShowroomSpec => SettledWhole
<1> DEFINE Whole(a) ==
        approval'[a].status # approval[a].status =>
         /\ approval'[a].status = "RETURNED" =>
                \A i \in approval'[a].lines :
                    LastMovement(i)' = [kind |-> "APPROVAL_RETURN", doc |-> a]
         /\ approval'[a].status = "PURCHASED" =>
                \E v \in Invoices : \A i \in approval'[a].lines :
                    LastMovement(i)' = [kind |-> "SALE", doc |-> v]
<1>1. ASSUME RowsInv, [ShowroomNext]_approvalVars, NEW a \in Slips PROVE Whole(a)
  <2>0. TypeInv
    BY <1>1 DEF RowsInv
  <2>1. ASSUME NEW c \in Calls, ReturnSlip(c), call[c].doc = a,
               approval'[a].lines = approval[a].lines
        PROVE  \A i \in approval'[a].lines :
                   LastMovement(i)' = [kind |-> "APPROVAL_RETURN", doc |-> a]
    <3>1. TakesBack(c) /\ call[c].items = approval'[a].lines
      BY <1>1, <2>0, <2>1, ReturnIsMove, SettlesItsLines
    <3> QED
      BY <2>1, <3>1 DEF TakesBack, Moves
  <2>2. ASSUME NEW c \in Calls, NEW v \in Invoices, PurchaseSlip(c, v), call[c].doc = a,
               approval'[a].lines = approval[a].lines
        PROVE  \A i \in approval'[a].lines :
                   LastMovement(i)' = [kind |-> "SALE", doc |-> v]
    <3>1. Purchases(c, v) /\ call[c].items = approval'[a].lines
      BY <1>1, <2>0, <2>2, PurchaseIsMove, SettlesItsLines
    <3> QED
      BY <3>1 DEF Purchases, Moves
  <2>3. SlipChange(a)
    BY <1>1, <2>0, SlipStep
  <2> QED
    BY <2>1, <2>2, <2>3 DEF SlipChange
<1>2. RowsInv /\ [ShowroomNext]_approvalVars => [\A a \in Slips : Whole(a)]_approval
  BY <1>1
<1>3. ApprovalInit => RowsInv
  <2>1. ApprovalInit => \A c \in Calls : call[c].op = "idle"
    BY DEF ApprovalInit, SalesInit, RequestInit, Idle
  <2> QED
    BY <2>1, TypeInit DEF RowsInv, RowsNameLines
<1> QED
  BY <1>2, <1>3, RowsStep, PTL DEF ShowroomSpec, SettledWhole
-----------------------------------------------------------------------------
(* As long as no two requests have met on one slip, what a request has     *)
(* read of its slip is still true when it writes.                          *)

SlipReads ==
    \A c \in Calls : LET r == call[c] IN
        /\ r.op \in SlipOps \ {"return", "purchase"} => approval[r.doc].status = "DRAFT"
        /\ r.op \in {"return", "purchase"} => approval[r.doc].status = "ISSUED"
        /\ r.op \in {"issue", "issueChecked", "return", "purchase"} =>
              r.items = approval[r.doc].lines

RacesInv ==
    /\ HolderInv
    /\ TwoOnOneSlip => raced
    /\ ~raced => SlipReads
    /\ OutMeansOnASlip
    /\ ReturnMatchesIssue

\* The shop opens with no request in flight, no slip out and no return booked.
LEMMA RacesInvInit == ASSUME RacesInit PROVE RacesInv
<1>0. ApprovalInit /\ HolderInv
  BY HolderInit DEF RacesInit
<1>1. \A c \in Calls : call[c].doc = None /\ call[c].op = "idle"
  BY <1>0 DEF ApprovalInit, SalesInit, RequestInit, Idle
<1>2. ~TwoOnOneSlip
  BY <1>1, NoneAssumption, SlipsAssumption DEF TwoOnOneSlip
<1>3. SlipReads
  BY <1>1 DEF SlipReads
<1>4. \A a \in Slips : approval[a].status = "NONE"
  BY <1>0 DEF ApprovalInit, NoSlip
<1>5. \A i \in Items : /\ stock[i] = "AVAILABLE"
                       /\ ledger[i] = <<[kind |-> "STOCK_IN", doc |-> None]>>
  BY <1>0 DEF ApprovalInit, SalesInit, StockInit
<1>6. OutMeansOnASlip
  BY <1>4, <1>5 DEF OutMeansOnASlip
<1>7. ASSUME NEW i \in Items PROVE \A n \in 2..Len(ledger[i]) : FALSE
  <2>1. Len(ledger[i]) = 1
    BY <1>5, OneMovement
  <2>2. \A n \in 2..1 : FALSE
    OBVIOUS
  <2> QED
    BY <2>1, <2>2, Zenon
<1>8. ReturnMatchesIssue
  BY <1>7 DEF ReturnMatchesIssue
<1> QED
  BY <1>0, <1>2, <1>3, <1>6, <1>8 DEF RacesInv

\* The one request on a slip is the one that writes it.
LEMMA OneOnASlip ==
    ASSUME TypeInv, ~TwoOnOneSlip, NEW c \in Calls, NEW d \in Calls,
           call[c].op \in SlipOps, call[c].doc = call[d].doc
    PROVE  c = d
BY DEF TwoOnOneSlip, TypeInv, CallsNameTheirDocuments

\* A write ends its request.
LEMMA WriterEnds ==
    ASSUME TypeInv, NEW c \in Calls,
           \/ UpdateSlip(c) \/ IssueSlip(c) \/ CancelSlip(c) \/ ReturnSlip(c)
           \/ \E v \in Invoices : PurchaseSlip(c, v)
    PROVE  call'[c].op = "idle" /\ call[c].op \in SlipOps
<1>0. call \in [Calls -> Request]
  BY DEF TypeInv, ApprovalTypeOK, SalesTypeOK, RequestTypeOK
<1>1. Finish(c) /\ call[c].op \in SlipOps
  BY DEF UpdateSlip, IssueSlip, CancelSlip, ReturnSlip, PurchaseSlip
<1> QED
  BY <1>0, <1>1 DEF Finish, Idle

\* What the requests have read stays true.
LEMMA SlipReadsStep ==
    ASSUME TypeInv, SlipReads, ~TwoOnOneSlip, [ShowroomNext]_approvalVars
    PROVE  SlipReads'
<1> DEFINE Fresh(c) ==
        /\ call[c].op \in SlipOps \ {"return", "purchase"} =>
              approval[call[c].doc].status = "DRAFT"
        /\ call[c].op \in {"return", "purchase"} => approval[call[c].doc].status = "ISSUED"
        /\ call[c].op \in {"issue", "issueChecked", "return", "purchase"} =>
              call[c].items = approval[call[c].doc].lines
<1>1. ASSUME NEW c \in Calls PROVE Fresh(c)'
  <2>0. Fresh(c)
    BY DEF SlipReads
  <2>1. CASE call'[c] = call[c] /\ call[c].op \in SlipOps
    <3> DEFINE a == call[c].doc
    <3>1. a \in Slips
      BY <2>1 DEF TypeInv, CallsNameTheirDocuments
    <3>2. approval[a].status # "NONE"
      BY <2>0, <2>1
    <3>3. ~\E d \in Calls : /\ call[d].doc = a
                            /\ \/ UpdateSlip(d) \/ IssueSlip(d) \/ CancelSlip(d) \/ ReturnSlip(d)
                               \/ \E v \in Invoices : PurchaseSlip(d, v)
      <4>1. SUFFICES ASSUME NEW d \in Calls, call[d].doc = a,
                            \/ UpdateSlip(d) \/ IssueSlip(d) \/ CancelSlip(d) \/ ReturnSlip(d)
                            \/ \E v \in Invoices : PurchaseSlip(d, v)
                     PROVE  FALSE
        OBVIOUS
      <4>2. c = d
        BY <2>1, <4>1, OneOnASlip
      <4> QED
        BY <2>1, <4>1, <4>2, WriterEnds
    <3>4. approval'[a] = approval[a]
      BY <3>1, <3>2, <3>3, SlipStep DEF SlipChange
    <3> QED
      BY <2>0, <2>1, <3>4
  <2>2. CASE call'[c].op \notin SlipOps
    BY <2>2
  <2>3. CASE UNCHANGED approval /\ ReadsSlip(call'[c])
    BY <2>3 DEF ReadsSlip
  <2>4. CASE /\ UNCHANGED approval
             /\ call[c].op = "issue" /\ call'[c].op = "issueChecked"
             /\ call'[c].doc = call[c].doc /\ call'[c].items = call[c].items
    BY <2>0, <2>4
  <2>5. RequestChange(c)
    BY SlipRequestStep
  <2> HIDE DEF Fresh
  <2> QED
    BY <2>1, <2>2, <2>3, <2>4, <2>5 DEF RequestChange
<1> QED
  BY <1>1 DEF SlipReads

\* What the request that is about to write has read, and what it moves.
LEMMA WriteAsRead ==
    ASSUME TypeInv, SlipReads, NEW c \in Calls, call[c].op \in SlipOps
    PROVE  /\ call[c].doc \in Slips
           /\ IssueSlip(c) => /\ Issues(c) /\ approval[call[c].doc].status = "DRAFT"
                              /\ call[c].items = approval[call[c].doc].lines
           /\ ReturnSlip(c) => /\ TakesBack(c) /\ approval[call[c].doc].status = "ISSUED"
                               /\ call[c].items = approval[call[c].doc].lines
           /\ \A v \in Invoices : PurchaseSlip(c, v) =>
                  /\ Purchases(c, v) /\ approval[call[c].doc].status = "ISSUED"
                  /\ call[c].items = approval[call[c].doc].lines
           /\ UpdateSlip(c) \/ CancelSlip(c) => approval[call[c].doc].status = "DRAFT"
<1>1. call[c].doc \in Slips
  BY DEF TypeInv, CallsNameTheirDocuments
<1>2. IssueSlip(c) => call[c].op = "issueChecked"
  BY DEF IssueSlip
<1>3. ReturnSlip(c) => call[c].op = "return"
  BY DEF ReturnSlip
<1>4. \A v \in Invoices : PurchaseSlip(c, v) => call[c].op = "purchase"
  BY DEF PurchaseSlip
<1>5. UpdateSlip(c) \/ CancelSlip(c) => call[c].op \in {"updateSlip", "cancelSlip"}
  BY DEF UpdateSlip, CancelSlip
<1> QED
  BY <1>1, <1>2, <1>3, <1>4, <1>5, IssueIsMove, ReturnIsMove, PurchaseIsMove DEF SlipReads

\* A slip comes to be ISSUED by its issue and stops by a return or a
\* purchase; otherwise it keeps its lines while it is out.
OutChange(a) ==
    \/ /\ approval[a].status = "ISSUED" <=> approval'[a].status = "ISSUED"
       /\ approval[a].status = "ISSUED" => approval'[a].lines = approval[a].lines
    \/ \E c \in Calls :
          /\ call[c].doc = a
          /\ call[c].items = approval[a].lines /\ approval'[a].lines = approval[a].lines
          /\ \/ /\ Issues(c)
                /\ approval[a].status = "DRAFT" /\ approval'[a].status = "ISSUED"
             \/ /\ TakesBack(c) \/ \E v \in Invoices : Purchases(c, v)
                /\ approval[a].status = "ISSUED" /\ approval'[a].status # "ISSUED"

\* What a step does to whether a slip is out.
LEMMA OutStep ==
    ASSUME TypeInv, SlipReads, [ShowroomNext]_approvalVars, NEW a \in Slips
    PROVE  OutChange(a)
<1>1. SlipChange(a)
  BY SlipStep
<1>2. ASSUME NEW c \in Calls, call[c].doc = a, UpdateSlip(c),
             approval'[a].status = approval[a].status
      PROVE  OutChange(a)
  BY <1>2, WriterEnds, WriteAsRead DEF OutChange
<1>3. ASSUME NEW c \in Calls, call[c].doc = a, CancelSlip(c),
             approval'[a].status = "CANCELLED"
      PROVE  OutChange(a)
  BY <1>3, WriterEnds, WriteAsRead DEF OutChange
<1>4. ASSUME NEW c \in Calls, call[c].doc = a, approval'[a].lines = approval[a].lines,
             \/ IssueSlip(c) /\ approval'[a].status = "ISSUED"
             \/ ReturnSlip(c) /\ approval'[a].status = "RETURNED"
             \/ \E v \in Invoices : PurchaseSlip(c, v) /\ approval'[a].status = "PURCHASED"
      PROVE  OutChange(a)
  <2>1. CASE IssueSlip(c) /\ approval'[a].status = "ISSUED"
    BY <1>4, <2>1, WriterEnds, WriteAsRead DEF OutChange
  <2>2. CASE ReturnSlip(c) /\ approval'[a].status = "RETURNED"
    BY <1>4, <2>2, WriterEnds, WriteAsRead DEF OutChange
  <2>3. CASE \E v \in Invoices : PurchaseSlip(c, v) /\ approval'[a].status = "PURCHASED"
    BY <1>4, <2>3, WriterEnds, WriteAsRead DEF OutChange
  <2> QED
    BY <1>4, <2>1, <2>2, <2>3
<1> QED
  BY <1>1, <1>2, <1>3, <1>4 DEF SlipChange, OutChange
\* A slip that is out, and a piece that is with a customer.
SlipHolds(a) ==
    approval[a].status = "ISSUED" =>
        \A i \in approval[a].lines :
            /\ stock[i] = "ON_APPROVAL"
            /\ LastMovement(i) = [kind |-> "APPROVAL_ISSUE", doc |-> a]

OnASlip(i) ==
    stock[i] = "ON_APPROVAL" =>
        \E a \in Slips : approval[a].status = "ISSUED" /\ i \in approval[a].lines

\* What the four handlers that move pieces do to a slip.
LEMMA MoversWrite ==
    ASSUME TypeInv, SlipReads, NEW c \in Calls
    PROVE  LET a == call[c].doc IN
           /\ Issues(c) => /\ a \in Slips /\ approval[a].status = "DRAFT"
                           /\ approval'[a].status = "ISSUED"
                           /\ call[c].items = approval[a].lines
                           /\ approval'[a].lines = approval[a].lines
           /\ TakesBack(c) \/ (\E v \in Invoices : Purchases(c, v)) =>
                 /\ a \in Slips /\ approval[a].status = "ISSUED"
                 /\ approval'[a].status \in {"RETURNED", "PURCHASED"}
                 /\ call[c].items = approval[a].lines
<1> DEFINE a == call[c].doc
<1>0. approval \in [Slips -> Slip]
  BY DEF TypeInv, ApprovalTypeOK
<1>1. Issues(c) => call[c].op \in SlipOps /\ IssueSlip(c)
  BY DEF Issues, IssueSlip
<1>2. TakesBack(c) => call[c].op \in SlipOps /\ ReturnSlip(c)
  BY DEF TakesBack, ReturnSlip
<1>3. \A v \in Invoices : Purchases(c, v) => call[c].op \in SlipOps /\ PurchaseSlip(c, v)
  BY DEF Purchases, PurchaseSlip
<1>4. Issues(c) => /\ a \in Slips /\ approval[a].status = "DRAFT"
                   /\ approval'[a].status = "ISSUED"
                   /\ call[c].items = approval[a].lines
                   /\ approval'[a].lines = approval[a].lines
  <2>1. SUFFICES ASSUME Issues(c)
                 PROVE  approval'[a].status = "ISSUED" /\ approval'[a].lines = approval[a].lines
    BY <1>1, WriteAsRead
  <2>2. a \in Slips /\ approval' = [approval EXCEPT ![a].status = "ISSUED"]
    BY <1>1, <2>1, WriteAsRead DEF IssueSlip
  <2> QED
    BY <1>0, <2>2 DEF Slip
<1>5. TakesBack(c) => /\ a \in Slips /\ approval[a].status = "ISSUED"
                    /\ approval'[a].status = "RETURNED"
                    /\ call[c].items = approval[a].lines
  <2>1. SUFFICES ASSUME TakesBack(c) PROVE approval'[a].status = "RETURNED"
    BY <1>2, WriteAsRead
  <2>2. a \in Slips /\ approval' = [approval EXCEPT ![a].status = "RETURNED"]
    BY <1>2, <2>1, WriteAsRead DEF ReturnSlip
  <2> QED
    BY <1>0, <2>2 DEF Slip
<1>6. ASSUME NEW v \in Invoices, Purchases(c, v)
      PROVE  /\ a \in Slips /\ approval[a].status = "ISSUED"
             /\ approval'[a].status = "PURCHASED"
             /\ call[c].items = approval[a].lines
  <2>1. a \in Slips /\ approval' = [approval EXCEPT ![a].status = "PURCHASED"]
    BY <1>3, <1>6, WriteAsRead DEF PurchaseSlip
  <2>2. approval'[a].status = "PURCHASED"
    BY <1>0, <2>1 DEF Slip
  <2> QED
    BY <1>3, <1>6, <2>2, WriteAsRead
<1> QED
  BY <1>4, <1>5, <1>6

\* Nothing takes a piece from a slip that is out but what ends the slip.
LEMMA SlipHoldsStep ==
    ASSUME TypeInv, SlipReads, [ShowroomNext]_approvalVars,
           \A a \in Slips : SlipHolds(a), NEW a \in Slips
    PROVE  SlipHolds(a)'
<1>1. SUFFICES ASSUME approval'[a].status = "ISSUED", NEW i \in approval'[a].lines
               PROVE  /\ stock'[i] = "ON_APPROVAL"
                      /\ LastMovement(i)' = [kind |-> "APPROVAL_ISSUE", doc |-> a]
  BY DEF SlipHolds
<1>0. \A b \in Slips : approval[b].lines \in SUBSET Items
  BY DEF TypeInv, ApprovalTypeOK, Slip
<1>2. CASE approval[a].status = "ISSUED" /\ approval'[a].lines = approval[a].lines
  <2>1. /\ i \in Items /\ stock[i] = "ON_APPROVAL"
        /\ LastMovement(i) = [kind |-> "APPROVAL_ISSUE", doc |-> a]
    BY <1>0, <1>1, <1>2 DEF SlipHolds
  <2>2. ASSUME NEW S, NEW from, NEW to, NEW kind, NEW doc, Moves(S, from, to, kind, doc),
               i \notin S
        PROVE  stock'[i] = stock[i] /\ LastMovement(i)' = LastMovement(i)
    BY <2>1, <2>2 DEF Moves, LastMovement
  <2>3. CASE UNCHANGED <<stock, ledger>>
    BY <2>1, <2>3 DEF LastMovement
  <2>4. ASSUME NEW c \in Calls, Issues(c) \/ Confirms(c)
        PROVE  stock'[i] = stock[i] /\ LastMovement(i)' = LastMovement(i)
    <3>1. CASE Issues(c)
      <4>1. /\ Moves(call[c].items, "AVAILABLE", "ON_APPROVAL", "APPROVAL_ISSUE", call[c].doc)
            /\ i \notin call[c].items
        BY <2>1, <3>1 DEF Issues, Moves
      <4> QED
        BY <2>2, <4>1
    <3>2. CASE Confirms(c)
      <4>1. /\ Moves(invoice[call[c].doc].lines, "AVAILABLE", "SOLD", "SALE", call[c].doc)
            /\ i \notin invoice[call[c].doc].lines
        BY <2>1, <3>2 DEF Confirms, Moves
      <4> QED
        BY <2>2, <4>1
    <3> QED
      BY <2>4, <3>1, <3>2
  <2>5. ASSUME NEW c \in Calls, TakesBack(c) \/ \E v \in Invoices : Purchases(c, v)
        PROVE  stock'[i] = stock[i] /\ LastMovement(i)' = LastMovement(i)
    <3> DEFINE b == call[c].doc
    <3>1. /\ b \in Slips /\ approval[b].status = "ISSUED"
          /\ approval'[b].status \in {"RETURNED", "PURCHASED"}
          /\ call[c].items = approval[b].lines
      BY <2>5, MoversWrite
    <3>2. i \notin call[c].items
      <4>1. a # b
        BY <1>1, <3>1
      <4>2. \A j \in approval[b].lines :
                LastMovement(j) = [kind |-> "APPROVAL_ISSUE", doc |-> b]
        BY <3>1 DEF SlipHolds
      <4> HIDE DEF b
      <4> QED
        BY <2>1, <3>1, <4>1, <4>2
    <3> QED
      BY <2>2, <2>5, <3>2 DEF TakesBack, Purchases
  <2> QED
    BY <2>1, <2>3, <2>4, <2>5, StockStep
<1>3. ASSUME NEW c \in Calls, call[c].doc = a, Issues(c),
             call[c].items = approval[a].lines, approval'[a].lines = approval[a].lines
      PROVE  /\ stock'[i] = "ON_APPROVAL"
             /\ LastMovement(i)' = [kind |-> "APPROVAL_ISSUE", doc |-> a]
  BY <1>1, <1>3 DEF Issues, Moves
<1> QED
  BY <1>1, <1>2, <1>3, OutStep DEF OutChange

\* A piece that is with a customer stays on its slip.
LEMMA OnASlipStep ==
    ASSUME TypeInv, SlipReads, [ShowroomNext]_approvalVars, NEW i \in Items, OnASlip(i)
    PROVE  OnASlip(i)'
<1>1. SUFFICES ASSUME stock'[i] = "ON_APPROVAL"
               PROVE  \E a \in Slips : approval'[a].status = "ISSUED" /\ i \in approval'[a].lines
  BY DEF OnASlip
<1>2. ASSUME NEW c \in Calls, Issues(c), i \in call[c].items
      PROVE  \E a \in Slips : approval'[a].status = "ISSUED" /\ i \in approval'[a].lines
  BY <1>2, MoversWrite
<1>3. ASSUME NEW S, NEW from, NEW to, NEW kind, NEW doc, Moves(S, from, to, kind, doc),
             i \notin S \/ to # "ON_APPROVAL"
      PROVE  stock[i] = "ON_APPROVAL"
  BY <1>1, <1>3 DEF Moves
<1>4. CASE stock[i] = "ON_APPROVAL"
  <2>1. PICK a \in Slips : approval[a].status = "ISSUED" /\ i \in approval[a].lines
    BY <1>4 DEF OnASlip
  <2>2. ASSUME NEW c \in Calls, call[c].items = approval[a].lines,
               TakesBack(c) \/ \E v \in Invoices : Purchases(c, v)
        PROVE  FALSE
    BY <1>1, <2>1, <2>2 DEF TakesBack, Purchases, Moves
  <2>3. approval'[a].status = "ISSUED" /\ i \in approval'[a].lines
    BY <2>1, <2>2, OutStep DEF OutChange
  <2> QED
    BY <2>3
<1>5. CASE UNCHANGED <<stock, ledger>>
  BY <1>1, <1>4, <1>5
<1>6. ASSUME NEW c \in Calls, \/ Issues(c) \/ TakesBack(c) \/ Confirms(c)
                              \/ \E v \in Invoices : Purchases(c, v)
      PROVE  stock[i] = "ON_APPROVAL" \/ (Issues(c) /\ i \in call[c].items)
  <2>1. CASE Issues(c)
    BY <1>3, <2>1 DEF Issues
  <2>2. CASE TakesBack(c)
    BY <1>3, <2>2 DEF TakesBack
  <2>3. CASE Confirms(c)
    BY <1>3, <2>3 DEF Confirms
  <2>4. CASE \E v \in Invoices : Purchases(c, v)
    BY <1>3, <2>4 DEF Purchases
  <2> QED
    BY <1>6, <2>1, <2>2, <2>3, <2>4
<1> QED
  BY <1>2, <1>4, <1>5, <1>6, StockStep
\* A movement is preceded by the issue it answers.
Answers(i) ==
    \A n \in 2..Len(ledger[i]) :
        ledger[i][n].kind = "APPROVAL_RETURN" =>
            ledger[i][n - 1] = [kind |-> "APPROVAL_ISSUE", doc |-> ledger[i][n].doc]

\* A movement that is booked keeps a journal of answers in order if it
\* answers the last one.
LEMMA AnswerStays ==
    ASSUME TypeInv, NEW i \in Items, Answers(i),
           NEW kind \in MovementType, NEW doc \in Documents,
           ledger'[i] = Append(ledger[i], [kind |-> kind, doc |-> doc]),
           kind = "APPROVAL_RETURN" =>
               LastMovement(i) = [kind |-> "APPROVAL_ISSUE", doc |-> doc]
    PROVE  Answers(i)'
<1> DEFINE m == [kind |-> kind, doc |-> doc]
<1>0. ledger[i] \in Seq(Movement)
  BY DEF TypeInv, ApprovalTypeOK, SalesTypeOK, StockTypeOK
<1>1. m \in Movement
  BY DEF Movement
<1>2. /\ Len(ledger'[i]) = Len(ledger[i]) + 1 /\ Len(ledger[i]) \in Nat
      /\ \A n \in 1..Len(ledger[i]) : ledger'[i][n] = ledger[i][n]
      /\ ledger'[i][Len(ledger[i]) + 1] = m
  BY <1>0, <1>1, AppendMovement
<1>3. ASSUME NEW n \in 2..Len(ledger'[i]), ledger'[i][n].kind = "APPROVAL_RETURN"
      PROVE  ledger'[i][n - 1] = [kind |-> "APPROVAL_ISSUE", doc |-> ledger'[i][n].doc]
  <2>1. n - 1 \in 1..Len(ledger[i])
    BY <1>2
  <2>2. CASE n \in 2..Len(ledger[i])
    <3>1. ledger'[i][n] = ledger[i][n] /\ ledger'[i][n - 1] = ledger[i][n - 1]
      BY <1>2, <2>1, <2>2
    <3> QED
      BY <1>3, <2>2, <3>1 DEF Answers
  <2>3. CASE n = Len(ledger[i]) + 1
    <3>1. ledger'[i][n] = m /\ ledger'[i][n - 1] = ledger[i][Len(ledger[i])]
      BY <1>2, <2>1, <2>3
    <3>2. kind = "APPROVAL_RETURN" /\ ledger'[i][n].doc = doc
      BY <1>3, <3>1
    <3> QED
      BY <3>1, <3>2 DEF LastMovement
  <2> QED
    BY <1>2, <2>2, <2>3
<1> QED
  BY <1>3 DEF Answers

\* A return is booked on a piece its slip has issued and nobody touched since.
LEMMA AnswersStep ==
    ASSUME TypeInv, SlipReads, [ShowroomNext]_approvalVars,
           \A a \in Slips : SlipHolds(a), NEW i \in Items, Answers(i)
    PROVE  Answers(i)'
<1>0. Slips \subseteq Documents /\ Invoices \subseteq Documents
  BY InvoicesAssumption, SlipsAssumption
<1>1. CASE ledger'[i] = ledger[i]
  BY <1>1 DEF Answers
<1>2. ASSUME NEW S, NEW from, NEW to, NEW kind \in MovementType, NEW doc \in Documents,
             Moves(S, from, to, kind, doc), i \in S =>
                (kind = "APPROVAL_RETURN" =>
                     LastMovement(i) = [kind |-> "APPROVAL_ISSUE", doc |-> doc])
      PROVE  Answers(i)'
  <2>1. CASE i \notin S
    BY <1>1, <1>2, <2>1 DEF Moves
  <2>2. CASE i \in S
    BY <1>2, <2>2, AnswerStays DEF Moves
  <2> QED
    BY <2>1, <2>2
<1>3. {"APPROVAL_ISSUE", "APPROVAL_RETURN", "SALE"} \subseteq MovementType
  BY DEF MovementType
<1>4. ASSUME NEW c \in Calls, TakesBack(c) PROVE Answers(i)'
  <2> DEFINE a == call[c].doc
  <2>1. a \in Slips /\ approval[a].status = "ISSUED" /\ call[c].items = approval[a].lines
    BY <1>4, MoversWrite
  <2>2. i \in call[c].items => LastMovement(i) = [kind |-> "APPROVAL_ISSUE", doc |-> a]
    BY <2>1 DEF SlipHolds
  <2>3. Moves(call[c].items, "ON_APPROVAL", "AVAILABLE", "APPROVAL_RETURN", a)
    BY <1>4 DEF TakesBack
  <2> HIDE DEF a
  <2> QED
    BY <1>0, <1>2, <1>3, <2>1, <2>2, <2>3
<1>5. ASSUME NEW c \in Calls, Issues(c) PROVE Answers(i)'
  BY <1>0, <1>2, <1>3, <1>5 DEF Issues
<1>6. ASSUME NEW c \in Calls, Confirms(c) PROVE Answers(i)'
  BY <1>0, <1>2, <1>3, <1>6 DEF Confirms
<1>7. ASSUME NEW c \in Calls, NEW v \in Invoices, Purchases(c, v) PROVE Answers(i)'
  BY <1>0, <1>2, <1>3, <1>7 DEF Purchases
<1> QED
  BY <1>1, <1>4, <1>5, <1>6, <1>7, StockStep

\* The bit of history says no less than the requests in flight.
LEMMA RacesInvStep ==
    ASSUME RacesInv, [RacesNext]_racesVars
    PROVE  RacesInv'
<1>0. [ShowroomNext]_approvalVars /\ HolderInv /\ HolderInv' /\ TypeInv
  BY HolderStep DEF RacesInv, RacesNext, racesVars, HolderInv, JournalInv
<1>1. /\ raced => raced'
      /\ TwoOnOneSlip' => raced'
  BY DEF RacesInv, RacesNext, racesVars, approvalVars, TwoOnOneSlip
<1>2. CASE raced'
  BY <1>0, <1>1, <1>2 DEF RacesInv, OutMeansOnASlip, ReturnMatchesIssue
<1>3. CASE ~raced'
  <2>1. ~raced /\ ~TwoOnOneSlip /\ SlipReads
    BY <1>1, <1>3 DEF RacesInv
  <2>2. /\ \A a \in Slips : SlipHolds(a)
        /\ \A i \in Items : OnASlip(i) /\ Answers(i)
    BY <2>1 DEF RacesInv, OutMeansOnASlip, ReturnMatchesIssue, SlipHolds, OnASlip, Answers
  <2>3. SlipReads'
    BY <1>0, <2>1, SlipReadsStep
  <2>4. /\ \A a \in Slips : SlipHolds(a)'
        /\ \A i \in Items : OnASlip(i)' /\ Answers(i)'
    BY <1>0, <2>1, <2>2, SlipHoldsStep, OnASlipStep, AnswersStep
  <2>5. OutMeansOnASlip'
    BY <2>4 DEF OutMeansOnASlip, SlipHolds, OnASlip
  <2>6. ReturnMatchesIssue'
    BY <2>4 DEF ReturnMatchesIssue, Answers
  <2> QED
    BY <1>0, <1>1, <2>3, <2>5, <2>6 DEF RacesInv
<1> QED
  BY <1>2, <1>3

\* For good.
LEMMA RacesInvariant == RacesSpec => []RacesInv
BY RacesInvInit, RacesInvStep, PTL DEF RacesSpec

\* As long as no two requests meet on one slip, a slip that is out holds every
\* piece on it by its own issue, and a piece that is with a customer is on a
\* slip that is out (issueApproval, returnApproval and purchaseApproval, with
\* edits and cancels of the slips and every sale running in between).
THEOREM SlipsHoldTheirPieces == RacesSpec => []OutMeansOnASlip
<1>1. RacesInv => OutMeansOnASlip
  BY DEF RacesInv
<1> QED
  BY <1>1, RacesInvariant, PTL

\* As long as they do not, a piece comes back by the slip that took it out.
THEOREM ReturnsAnswerIssues == RacesSpec => []ReturnMatchesIssue
<1>1. RacesInv => ReturnMatchesIssue
  BY DEF RacesInv
<1> QED
  BY <1>1, RacesInvariant, PTL

-----------------------------------------------------------------------------
(* The stricter half of Custody.                                           *)

\* What a slip holds is what is on it when it is out, and nothing before.
LEMMA HeldBySlip ==
    ASSUME HolderInv, \A a \in Slips : SlipHolds(a), \A i \in Items : OnASlip(i),
           NEW a \in Slips
    PROVE  C!Held(a) = IF approval[a].status = "ISSUED" THEN approval[a].lines ELSE {}
<1>0. /\ TypeInv /\ JournalInv /\ HeldByDocument
      /\ None \notin Slips /\ Slips \cap Invoices = {}
      /\ approval[a].lines \in SUBSET Items
  BY NoneAssumption, SlipsAssumption
     DEF HolderInv, JournalInv, TypeInv, ApprovalTypeOK, Slip
<1>1. ASSUME NEW i \in Items, HolderOf(i) = a
      PROVE  approval[a].status = "ISSUED" /\ i \in approval[a].lines
  <2>1. stock[i] # "AVAILABLE" /\ LastMovement(i).doc = a
    BY <1>0, <1>1 DEF HolderOf
  <2>2. stock[i] \in StockStatus /\ ledger[i] \in Seq(Movement) /\ Len(ledger[i]) >= 1
    BY <1>0 DEF TypeInv, ApprovalTypeOK, SalesTypeOK, StockTypeOK, HeldByDocument
  <2>3. stock[i] # "SOLD"
    <3>1. SUFFICES ASSUME stock[i] = "SOLD" PROVE FALSE
      OBVIOUS
    <3>2. LastMovement(i).kind = "SALE" /\ Len(ledger[i]) \in 1..Len(ledger[i])
      BY <1>0, <2>2, <3>1 DEF HeldByDocument
    <3>3. LastMovement(i).doc \in Invoices
      BY <1>0, <3>2 DEF JournalInv, SalesAreInvoiced, LastMovement
    <3> QED
      BY <1>0, <2>1, <3>3
  <2>4. stock[i] = "ON_APPROVAL"
    BY <2>1, <2>2, <2>3 DEF StockStatus
  <2>5. PICK b \in Slips : approval[b].status = "ISSUED" /\ i \in approval[b].lines
    BY <2>4 DEF OnASlip
  <2>6. LastMovement(i) = [kind |-> "APPROVAL_ISSUE", doc |-> b]
    BY <2>5 DEF SlipHolds
  <2> QED
    BY <2>1, <2>5, <2>6
<1>2. ASSUME approval[a].status = "ISSUED", NEW i \in approval[a].lines
      PROVE  i \in Items /\ HolderOf(i) = a
  BY <1>0, <1>2 DEF SlipHolds, HolderOf
<1> QED
  BY <1>1, <1>2 DEF C!Held

\* Without a race every step of the counters is a step of whole slips.
LEMMA WholeStep ==
    ASSUME RacesInv, [RacesNext]_racesVars, ~raced'
    PROVE  [C!WholeSlipNext]_[i \in Items |-> HolderOf(i)]
<1> DEFINE h == [i \in Items |-> HolderOf(i)]
<1>0. /\ [ShowroomNext]_approvalVars /\ HolderInv /\ TypeInv
      /\ ~raced /\ SlipReads
  BY DEF RacesInv, RacesNext, racesVars, HolderInv, JournalInv
<1>1. (\A a \in Slips : SlipHolds(a)) /\ \A i \in Items : OnASlip(i)
  BY <1>0 DEF RacesInv, OutMeansOnASlip, SlipHolds, OnASlip
<1>2. ASSUME NEW S \in SUBSET Items, NEW d,
             \A i \in S : HolderOf(i)' = d,
             \A i \in Items \ S : HolderOf(i)' = HolderOf(i)
      PROVE  C!Move(S, d) /\ (S = {} => h' = h)
  BY <1>2 DEF C!Move
<1>3. ASSUME NEW c \in Calls, Issues(c) PROVE C!WholeSlipNext \/ h' = h
  <2> DEFINE S == call[c].items
             a == call[c].doc
  <2>1. S \in SUBSET Items /\ a \in Slips /\ approval[a].status = "DRAFT"
    BY <1>0, <1>3, MoversWrite DEF Issues, Moves
  <2>2. C!Move(S, a) /\ (S = {} => h' = h)
    BY <1>2, <1>3, <2>1, HolderMoves DEF Issues
  <2>3. S \subseteq C!Held(None)
    BY <1>3, <2>1 DEF Issues, Moves, HolderOf, C!Held
  <2>4. C!Held(a) = {}
    BY <1>0, <1>1, <2>1, HeldBySlip
  <2> HIDE DEF S, a
  <2> QED
    BY <2>1, <2>2, <2>3, <2>4 DEF C!WholeSlipNext, C!Lend
<1>4. ASSUME NEW c \in Calls, TakesBack(c) PROVE C!WholeSlipNext \/ h' = h
  <2> DEFINE S == call[c].items
             a == call[c].doc
  <2>1. S \in SUBSET Items /\ a \in Slips
    BY <1>0, <1>4, MoversWrite DEF TakesBack, Moves
  <2>2. C!Move(S, None) /\ (S = {} => h' = h)
    BY <1>2, <1>4, <2>1, HolderMoves DEF TakesBack
  <2>3. \A i \in S : h[i] \in Slips
    BY <1>0, <1>4, <2>1 DEF TakesBack, Moves, HolderInv, HeldByDocument, HolderOf
  <2>4. S = C!Held(a)
    BY <1>0, <1>1, <1>4, MoversWrite, HeldBySlip
  <2> HIDE DEF S, a
  <2> QED
    BY <2>1, <2>2, <2>3, <2>4 DEF C!WholeSlipNext, C!TakeBack
<1>5. ASSUME NEW c \in Calls, Confirms(c) PROVE C!WholeSlipNext \/ h' = h
  <2> DEFINE v == call[c].doc
             S == invoice[v].lines
  <2>1. S \in SUBSET Items /\ v \in Invoices /\ invoice[v].status = "DRAFT"
    BY <1>5 DEF Confirms, ConfirmInvoice, StillDraft, Moves
  <2>2. C!Move(S, v) /\ (S = {} => h' = h)
    BY <1>2, <1>5, <2>1, HolderMoves DEF Confirms
  <2>3. S \subseteq C!Held(None) /\ \A i \in S : h[i] = None
    BY <1>5, <2>1 DEF Confirms, Moves, HolderOf, C!Held
  <2>4. C!Held(v) = {}
    BY <1>0, <2>1, UnsoldHoldsNothing DEF C!Held
  <2> HIDE DEF S, v
  <2> QED
    BY <2>1, <2>2, <2>3, <2>4 DEF C!WholeSlipNext, C!Sell
<1>6. ASSUME NEW c \in Calls, NEW v \in Invoices, Purchases(c, v)
      PROVE  C!WholeSlipNext \/ h' = h
  <2> DEFINE S == call[c].items
             a == call[c].doc
  <2>1. S \in SUBSET Items /\ a \in Slips /\ invoice[v].status = "NONE"
    BY <1>0, <1>6, MoversWrite DEF Purchases, PurchaseSlip, Moves
  <2>2. C!Move(S, v) /\ (S = {} => h' = h)
    BY <1>2, <1>6, <2>1, HolderMoves DEF Purchases
  <2>3. \A i \in S : h[i] \in Slips
    BY <1>0, <1>6, <2>1 DEF Purchases, Moves, HolderInv, HeldByDocument, HolderOf
  <2>4. S = C!Held(a)
    BY <1>0, <1>1, <1>6, MoversWrite, HeldBySlip
  <2>5. C!Held(v) = {}
    BY <1>0, <2>1, UnsoldHoldsNothing DEF C!Held
  <2> HIDE DEF S, a
  <2> QED
    BY <2>1, <2>2, <2>3, <2>4, <2>5 DEF C!WholeSlipNext, C!Sell
<1>7. CASE UNCHANGED <<stock, ledger>>
  BY <1>7 DEF HolderOf, LastMovement
<1> QED
  BY <1>0, <1>3, <1>4, <1>5, <1>6, <1>7, StockStep

\* As long as no two requests meet on one slip, a slip lends its pieces once
\* and ends as a whole, by one return or one sale.
THEOREM SlipsEndWhole == RacesSpec => SlipsMoveWhole
<1>1. RacesInit => C!CustodyInit
  BY DEF RacesInit, ApprovalInit, SalesInit, StockInit, HolderOf, C!CustodyInit
<1>2. RacesInv /\ [RacesNext]_racesVars =>
          [raced' \/ C!WholeSlipNext]_[i \in Items |-> HolderOf(i)]
  BY WholeStep
<1> QED
  BY <1>1, <1>2, RacesInvariant, PTL DEF RacesSpec, SlipsMoveWhole

(***************************************************************************)
(* Part 3.  The POS counter and the return desk.                           *)
(***************************************************************************)

\* Every piece of the return is journalled as having come back by it.
Came(r) ==
    \A i \in sreturn[r].lines : \E n \in 1..Len(ledger[i]) :
        ledger[i][n] = [kind |-> "SALE_RETURN", doc |-> r]

\* A request that has read a return names a row of the table and remembers
\* its pieces; a refund about to be inserted has its pieces on the shelf.
RequestHolds(q) ==
    /\ q.op \in {"approve", "process", "cancel", "refund"} =>
          /\ q.ret \in Returns
          /\ sreturn[q.ret].status # "NONE"
          /\ q.lines = sreturn[q.ret].lines
    /\ q.op = "refund" => Came(q.ret)
    /\ q.op = "reverse" => q.refund \in Refunds /\ refund[q.refund].status # "NONE"

ReturnHolds(r) == sreturn[r].status = "PROCESSED" => Came(r)

RefundHolds(f) ==
    refund[f].status # "NONE" =>
        /\ refund[f].ret \in Returns
        /\ sreturn[refund[f].ret].status # "NONE"
        /\ Came(refund[f].ret)

DeskHolds ==
    /\ \A d \in Clerks : RequestHolds(desk[d])
    /\ \A r \in Returns : ReturnHolds(r)
    /\ \A f \in Refunds : RefundHolds(f)

ReturnsInv == SalesTypeInv /\ ReturnsTypeOK /\ DeskHolds

\* What no request does: lose a row, change the pieces of a return, or take a
\* movement out of the journal.
RowsKept ==
    /\ \A r \in Returns : sreturn[r].status # "NONE" =>
          sreturn'[r].status # "NONE" /\ sreturn'[r].lines = sreturn[r].lines
    /\ \A f \in Refunds : refund[f].status # "NONE" => refund'[f].status # "NONE"
    /\ JournalGrows

-----------------------------------------------------------------------------
(* What has come back stays journalled.                                    *)

\* A return whose pieces are journalled keeps them journalled.
LEMMA CameStays ==
    ASSUME ReturnsTypeOK, JournalGrows, NEW r \in Returns, Came(r),
           sreturn'[r].lines = sreturn[r].lines
    PROVE  Came(r)'
<1> SUFFICES ASSUME NEW i \in sreturn[r].lines
             PROVE  \E n \in 1..Len(ledger'[i]) :
                       ledger'[i][n] = [kind |-> "SALE_RETURN", doc |-> r]
  BY DEF Came
<1>1. i \in Items
  BY DEF ReturnsTypeOK, SalesReturn
<1>2. ledger[i] \in Seq(Movement)
  BY <1>1 DEF ReturnsTypeOK, SalesTypeOK, StockTypeOK
<1>3. PICK n \in 1..Len(ledger[i]) : ledger[i][n] = [kind |-> "SALE_RETURN", doc |-> r]
  BY DEF Came
<1>4. CASE ledger'[i] = ledger[i]
  BY <1>3, <1>4
<1>5. ASSUME NEW m \in Movement, ledger'[i] = Append(ledger[i], m)
      PROVE  n \in 1..Len(ledger'[i]) /\ ledger'[i][n] = ledger[i][n]
  BY <1>2, <1>3, <1>5
<1> QED
  BY <1>1, <1>3, <1>4, <1>5 DEF JournalGrows

\* Processing a return journals its pieces.
LEMMA BookedCame ==
    ASSUME ReturnsTypeOK, NEW r \in Returns, Book(sreturn[r].lines, "SALE_RETURN", r),
           sreturn'[r].lines = sreturn[r].lines
    PROVE  Came(r)'
<1> DEFINE m == [kind |-> "SALE_RETURN", doc |-> r]
<1> SUFFICES ASSUME NEW i \in sreturn[r].lines
             PROVE  \E n \in 1..Len(ledger'[i]) : ledger'[i][n] = m
  BY DEF Came
<1>1. i \in Items
  BY DEF ReturnsTypeOK, SalesReturn
<1>2. ledger[i] \in Seq(Movement)
  BY <1>1 DEF ReturnsTypeOK, SalesTypeOK, StockTypeOK
<1>3. m \in Movement
  BY ReturnsAssumption DEF Movement, MovementType
<1>4. ledger'[i] = Append(ledger[i], m)
  BY <1>1 DEF Book
<1> HIDE DEF m
<1>5. Len(ledger'[i]) = Len(ledger[i]) + 1 /\ ledger'[i][Len(ledger[i]) + 1] = m
  BY <1>2, <1>3, <1>4
<1>6. Len(ledger[i]) \in Nat
  BY <1>2
<1> QED
  BY <1>5, <1>6

\* A step that keeps the rows keeps the desk in order when it does so for
\* the requests, returns and refunds it changes.
LEMMA RowsKeptHolds ==
    ASSUME ReturnsInv, RowsKept,
           \A d \in Clerks : desk'[d] = desk[d] \/ RequestHolds(desk[d])',
           \A r \in Returns : sreturn'[r] = sreturn[r] \/ ReturnHolds(r)',
           \A f \in Refunds : refund'[f] = refund[f] \/ RefundHolds(f)'
    PROVE  DeskHolds'
<1>0. ReturnsTypeOK /\ JournalGrows
  BY DEF ReturnsInv, RowsKept
<1>1. ASSUME NEW d \in Clerks PROVE RequestHolds(desk[d])'
  <2>1. CASE desk'[d] = desk[d]
    <3>1. RequestHolds(desk[d])
      BY DEF ReturnsInv, DeskHolds
    <3>2. ASSUME NEW r \in Returns, desk[d].op = "refund", desk[d].ret = r
          PROVE  Came(r)'
      BY <1>0, <3>1, <3>2, CameStays DEF RequestHolds, RowsKept
    <3> QED
      BY <2>1, <3>1, <3>2 DEF RequestHolds, RowsKept, Came
  <2> QED
    BY <2>1
<1>2. ASSUME NEW r \in Returns PROVE ReturnHolds(r)'
  <2>1. CASE sreturn'[r] = sreturn[r]
    BY <1>0, <2>1, CameStays DEF ReturnsInv, DeskHolds, ReturnHolds
  <2> QED
    BY <2>1
<1>3. ASSUME NEW f \in Refunds PROVE RefundHolds(f)'
  <2>1. CASE refund'[f] = refund[f]
    <3>1. RefundHolds(f)
      BY DEF ReturnsInv, DeskHolds
    <3>2. ASSUME NEW r \in Returns, refund[f].status # "NONE", refund[f].ret = r
          PROVE  Came(r)'
      BY <1>0, <3>1, <3>2, CameStays DEF RefundHolds, RowsKept
    <3> QED
      BY <2>1, <3>1, <3>2 DEF RefundHolds, RowsKept, Came
  <2> QED
    BY <2>1
<1> QED
  BY <1>1, <1>2, <1>3 DEF DeskHolds

-----------------------------------------------------------------------------
(* The steps of the desk.                                                  *)

\* What a step of the desk is shown to keep.
DeskKeeps ==
    /\ StockTypeOK'
    /\ sreturn' \in [Returns -> SalesReturn]
    /\ refund' \in [Refunds -> SalesRefund]
    /\ desk' \in [Clerks -> DeskRequest]
    /\ DeskHolds'

\* A free clerk is a slot like any other.
LEMMA FreeIsRequest == Free \in DeskRequest
BY 0 \in Nat DEF Free, DeskRequest

\* A step that only reads keeps the desk in order when what it remembers is
\* in order.
LEMMA ReadingKeeps ==
    ASSUME ReturnsInv, StockKept, UNCHANGED <<sreturn, refund>>,
           NEW d \in Clerks, NEW q \in DeskRequest, desk' = [desk EXCEPT ![d] = q],
           RequestHolds(q)
    PROVE  DeskKeeps
<1>1. /\ StockTypeOK' /\ sreturn' \in [Returns -> SalesReturn]
      /\ refund' \in [Refunds -> SalesRefund] /\ desk' \in [Clerks -> DeskRequest]
  BY DEF ReturnsInv, ReturnsTypeOK, SalesTypeOK, StockTypeOK, StockKept, stockVars
<1>2. RowsKept
  BY DEF StockKept, stockVars, RowsKept, JournalGrows
<1>3. ASSUME NEW e \in Clerks PROVE desk'[e] = desk[e] \/ RequestHolds(desk[e])'
  <2>1. CASE e = d
    <3>1. desk'[e] = q
      BY <2>1 DEF ReturnsInv, ReturnsTypeOK
    <3> QED
      BY <3>1 DEF RequestHolds, Came, StockKept, stockVars
  <2>2. CASE e # d
    BY <2>2 DEF ReturnsInv, ReturnsTypeOK
  <2> QED
    BY <2>1, <2>2
<1>4. DeskHolds'
  BY <1>2, <1>3, RowsKeptHolds
<1> QED
  BY <1>1, <1>4 DEF DeskKeeps

\* A request that ends leaves its slot in order.
LEMMA DoneHolds ==
    ASSUME ReturnsInv, NEW d \in Clerks, Done(d)
    PROVE  /\ desk' \in [Clerks -> DeskRequest]
           /\ \A e \in Clerks : desk'[e] = desk[e] \/ RequestHolds(desk[e])'
<1>1. desk' \in [Clerks -> DeskRequest]
  BY FreeIsRequest DEF Done, ReturnsInv, ReturnsTypeOK
<1>2. ASSUME NEW e \in Clerks PROVE desk'[e] = desk[e] \/ desk'[e] = Free
  BY <1>2 DEF Done, ReturnsInv, ReturnsTypeOK
<1>3. ASSUME NEW e \in Clerks, desk'[e] = Free PROVE RequestHolds(desk[e])'
  BY <1>3 DEF RequestHolds, Free
<1> QED
  BY <1>1, <1>2, <1>3

\* A step that ends a request keeps the desk in order when it keeps the rows
\* and leaves the rows it writes in order.
LEMMA EndingKeeps ==
    ASSUME ReturnsInv, NEW d \in Clerks, Done(d), StockTypeOK', RowsKept,
           sreturn' \in [Returns -> SalesReturn], refund' \in [Refunds -> SalesRefund],
           \A r \in Returns : sreturn'[r] = sreturn[r] \/ ReturnHolds(r)',
           \A f \in Refunds : refund'[f] = refund[f] \/ RefundHolds(f)'
    PROVE  DeskKeeps
BY DoneHolds, RowsKeptHolds DEF DeskKeeps

\* A status written to a return the request has read.
LEMMA SetReturnKeeps ==
    ASSUME ReturnsInv, NEW d \in Clerks, desk[d].op \in {"approve", "process", "cancel"},
           NEW s \in {"APPROVED", "PROCESSED", "CANCELLED"}, SetReturn(d, s), JournalGrows,
           UNCHANGED refund
    PROVE  /\ desk[d].ret \in Returns
           /\ desk[d].lines = sreturn[desk[d].ret].lines
           /\ sreturn' \in [Returns -> SalesReturn]
           /\ sreturn'[desk[d].ret].status = s
           /\ \A r \in Returns : sreturn'[r].lines = sreturn[r].lines
           /\ \A r \in Returns : r # desk[d].ret => sreturn'[r] = sreturn[r]
           /\ RowsKept
<1> DEFINE r == desk[d].ret
           w == [sreturn[r] EXCEPT !.status = s]
<1>1. r \in Returns /\ sreturn[r].status # "NONE" /\ desk[d].lines = sreturn[r].lines
  BY DEF ReturnsInv, DeskHolds, RequestHolds
<1>2. sreturn \in [Returns -> SalesReturn]
  BY DEF ReturnsInv, ReturnsTypeOK
<1>3. w \in SalesReturn /\ w.status = s /\ w.lines = sreturn[r].lines
  BY <1>1, <1>2 DEF SalesReturn
<1>4. sreturn' = [sreturn EXCEPT ![r] = w]
  BY <1>1, <1>2 DEF SetReturn
<1> HIDE DEF r, w
<1>5. /\ sreturn' \in [Returns -> SalesReturn]
      /\ sreturn'[r] = w
      /\ \A x \in Returns : x # r => sreturn'[x] = sreturn[x]
  BY <1>1, <1>2, <1>3, <1>4
<1>6. \A x \in Returns : sreturn'[x].lines = sreturn[x].lines
  BY <1>3, <1>5
<1>7. RowsKept
  BY <1>3, <1>5, <1>6 DEF RowsKept
<1> QED
  BY <1>1, <1>3, <1>5, <1>6, <1>7 DEF r

\* Every step of the desk keeps its tables and the desk in order.
LEMMA DeskStep ==
    ASSUME ReturnsInv, DeskNext
    PROVE  DeskKeeps
<1> USE 0 \in Nat
<1>0. /\ sreturn \in [Returns -> SalesReturn] /\ refund \in [Refunds -> SalesRefund]
      /\ desk \in [Clerks -> DeskRequest] /\ StockTypeOK
      /\ \A v \in Invoices : invoice[v].branch \in Branches \cup {None}
  BY DEF ReturnsInv, ReturnsTypeOK, SalesTypeOK, Invoice
<1>1. ASSUME NEW d \in Clerks, NEW v \in Invoices, NEW S \in SUBSET Items,
             ReadForReturn(d, v, S)
      PROVE  DeskKeeps
  <2> DEFINE q == [Free EXCEPT !.op = "request", !.inv = v, !.lines = S,
                               !.branch = invoice[v].branch]
  <2>1. q \in DeskRequest
    BY <1>0 DEF Free, DeskRequest
  <2>2. RequestHolds(q)
    BY <1>1 DEF ReadForReturn, RequestHolds, Free
  <2>3. StockKept /\ UNCHANGED <<sreturn, refund>> /\ desk' = [desk EXCEPT ![d] = q]
    BY <1>1 DEF ReadForReturn, Take
  <2> HIDE DEF q
  <2> QED
    BY <2>1, <2>2, <2>3, ReadingKeeps
<1>2. ASSUME NEW d \in Clerks, CheckReturn(d)
      PROVE  DeskKeeps
  <2> DEFINE q == [desk[d] EXCEPT !.op = "requestChecked"]
  <2>1. q \in DeskRequest /\ q.op = "requestChecked"
    BY <1>0 DEF DeskRequest
  <2>2. RequestHolds(q)
    BY <2>1 DEF RequestHolds
  <2>3. StockKept /\ UNCHANGED <<sreturn, refund>> /\ desk' = [desk EXCEPT ![d] = q]
    BY <1>0, <1>2 DEF CheckReturn
  <2> HIDE DEF q
  <2> QED
    BY <2>1, <2>2, <2>3, ReadingKeeps
<1>3. ASSUME NEW d \in Clerks, NEW r \in Returns, NEW x \in Deductions, InsertReturn(d, r, x)
      PROVE  DeskKeeps
  <2> DEFINE w == [status |-> "REQUESTED", inv |-> desk[d].inv, branch |-> desk[d].branch,
                   lines |-> desk[d].lines, amount |-> Cardinality(desk[d].lines) - x]
  <2>1. desk[d] \in DeskRequest
    BY <1>0
  <2>2. Cardinality(desk[d].lines) - x \in Nat
    <3>1. IsFiniteSet(desk[d].lines)
      BY <2>1, ReturnsAssumption, FS_Subset DEF DeskRequest
    <3>2. Cardinality(desk[d].lines) \in Nat
      BY <3>1, FS_CardinalityType
    <3> QED
      BY <1>3, <3>2, ReturnsAssumption DEF InsertReturn
  <2>3. w \in SalesReturn /\ w.status = "REQUESTED"
    BY <2>1, <2>2 DEF DeskRequest, SalesReturn
  <2>4. sreturn' = [sreturn EXCEPT ![r] = w] /\ sreturn[r].status = "NONE"
    BY <1>3 DEF InsertReturn
  <2>5. Done(d) /\ StockKept /\ UNCHANGED refund
    BY <1>3 DEF InsertReturn
  <2> HIDE DEF w
  <2>6. sreturn' \in [Returns -> SalesReturn] /\ sreturn'[r] = w
    BY <1>0, <2>3, <2>4
  <2>7. \A y \in Returns : y # r => sreturn'[y] = sreturn[y]
    BY <1>0, <2>4
  <2>8. RowsKept
    BY <2>4, <2>5, <2>7 DEF RowsKept, StockKept, stockVars, JournalGrows
  <2>9. \A y \in Returns : sreturn'[y] = sreturn[y] \/ ReturnHolds(y)'
    BY <2>3, <2>6, <2>7 DEF ReturnHolds
  <2> QED
    BY <1>0, <2>5, <2>6, <2>8, <2>9, EndingKeeps DEF StockKept, stockVars, StockTypeOK
<1>4. ASSUME NEW d \in Clerks, NEW r \in Returns, ReadForApprove(d, r)
      PROVE  DeskKeeps
  <2> DEFINE q == [Free EXCEPT !.op = "approve", !.ret = r, !.lines = sreturn[r].lines]
  <2>1. q \in DeskRequest
    BY <1>0 DEF Free, DeskRequest, SalesReturn
  <2>2. RequestHolds(q)
    BY <1>4 DEF ReadForApprove, ReadReturn, RequestHolds, Free
  <2>3. StockKept /\ UNCHANGED <<sreturn, refund>> /\ desk' = [desk EXCEPT ![d] = q]
    BY <1>4 DEF ReadForApprove, ReadReturn, Take
  <2> HIDE DEF q
  <2> QED
    BY <2>1, <2>2, <2>3, ReadingKeeps
<1>5. ASSUME NEW d \in Clerks, NEW r \in Returns, ReadForProcess(d, r)
      PROVE  DeskKeeps
  <2> DEFINE q == [Free EXCEPT !.op = "process", !.ret = r, !.lines = sreturn[r].lines]
  <2>1. q \in DeskRequest
    BY <1>0 DEF Free, DeskRequest, SalesReturn
  <2>2. RequestHolds(q)
    BY <1>5 DEF ReadForProcess, ReadReturn, RequestHolds, Free
  <2>3. StockKept /\ UNCHANGED <<sreturn, refund>> /\ desk' = [desk EXCEPT ![d] = q]
    BY <1>5 DEF ReadForProcess, ReadReturn, Take
  <2> HIDE DEF q
  <2> QED
    BY <2>1, <2>2, <2>3, ReadingKeeps
<1>6. ASSUME NEW d \in Clerks, NEW r \in Returns, ReadForCancelReturn(d, r)
      PROVE  DeskKeeps
  <2> DEFINE q == [Free EXCEPT !.op = "cancel", !.ret = r, !.lines = sreturn[r].lines]
  <2>1. q \in DeskRequest
    BY <1>0 DEF Free, DeskRequest, SalesReturn
  <2>2. RequestHolds(q)
    BY <1>6 DEF ReadForCancelReturn, ReadReturn, MayCancel, RequestHolds, Free
  <2>3. StockKept /\ UNCHANGED <<sreturn, refund>> /\ desk' = [desk EXCEPT ![d] = q]
    BY <1>6 DEF ReadForCancelReturn, ReadReturn, MayCancel, Take
  <2> HIDE DEF q
  <2> QED
    BY <2>1, <2>2, <2>3, ReadingKeeps
<1>7. ASSUME NEW d \in Clerks, ApproveReturn(d)
      PROVE  DeskKeeps
  <2>1. /\ SetReturn(d, "APPROVED") /\ Done(d) /\ UNCHANGED refund /\ JournalGrows
        /\ desk[d].op \in {"approve", "process", "cancel"} /\ StockTypeOK'
    BY <1>0, <1>7 DEF ApproveReturn, StockKept, stockVars, JournalGrows, StockTypeOK
  <2>2. /\ sreturn' \in [Returns -> SalesReturn] /\ RowsKept
        /\ sreturn'[desk[d].ret].status = "APPROVED"
        /\ \A r \in Returns : r # desk[d].ret => sreturn'[r] = sreturn[r]
    BY <2>1, SetReturnKeeps
  <2>3. ASSUME NEW r \in Returns PROVE sreturn'[r] = sreturn[r] \/ ReturnHolds(r)'
    BY <2>2 DEF ReturnHolds
  <2> QED
    BY <1>0, <2>1, <2>2, <2>3, EndingKeeps
<1>8. ASSUME NEW d \in Clerks, CancelReturn(d)
      PROVE  DeskKeeps
  <2>1. /\ SetReturn(d, "CANCELLED") /\ Done(d) /\ UNCHANGED refund /\ JournalGrows
        /\ desk[d].op \in {"approve", "process", "cancel"} /\ StockTypeOK'
    BY <1>0, <1>8 DEF CancelReturn, StockKept, stockVars, JournalGrows, StockTypeOK
  <2>2. /\ sreturn' \in [Returns -> SalesReturn] /\ RowsKept
        /\ sreturn'[desk[d].ret].status = "CANCELLED"
        /\ \A r \in Returns : r # desk[d].ret => sreturn'[r] = sreturn[r]
    BY <2>1, SetReturnKeeps
  <2>3. ASSUME NEW r \in Returns PROVE sreturn'[r] = sreturn[r] \/ ReturnHolds(r)'
    BY <2>2 DEF ReturnHolds
  <2> QED
    BY <1>0, <2>1, <2>2, <2>3, EndingKeeps
<1>9. ASSUME NEW d \in Clerks, ProcessReturn(d)
      PROVE  DeskKeeps
  <2>0. desk[d].op = "process" /\ RequestHolds(desk[d])
    BY <1>9 DEF ProcessReturn, ReturnsInv, DeskHolds
  <2>1. PICK r \in Returns : r = desk[d].ret /\ desk[d].lines = sreturn[r].lines
    BY <2>0 DEF RequestHolds
  <2>2. /\ SetReturn(d, "PROCESSED") /\ Done(d) /\ UNCHANGED refund
        /\ Claim(sreturn[r].lines, sreturn[r].branch, "SOLD", "AVAILABLE")
        /\ Book(sreturn[r].lines, "SALE_RETURN", r)
    BY <1>9, <2>1 DEF ProcessReturn
  <2>3. r \in Documents \cup {None} /\ sreturn[r].lines \in SUBSET Items
    BY <1>0, ReturnsAssumption DEF SalesReturn
  <2>4. JournalGrows
    BY <1>0, <2>2, <2>3, BookGrows DEF MovementType
  <2>5. StockTypeOK'
    BY <1>0, <2>2, <2>3, ClaimAndBook DEF StockStatus, MovementType
  <2>6. /\ sreturn' \in [Returns -> SalesReturn] /\ RowsKept
        /\ \A y \in Returns : sreturn'[y].lines = sreturn[y].lines
        /\ \A y \in Returns : y # r => sreturn'[y] = sreturn[y]
    BY <2>0, <2>1, <2>2, <2>4, SetReturnKeeps
  <2>7. Came(r)'
    <3>1. ReturnsTypeOK
      BY DEF ReturnsInv
    <3>2. sreturn'[r].lines = sreturn[r].lines
      BY <2>6
    <3>3. Book(sreturn[r].lines, "SALE_RETURN", r)
      BY <2>2
    <3> QED
      BY <3>1, <3>2, <3>3, BookedCame
  <2>8. ASSUME NEW y \in Returns PROVE sreturn'[y] = sreturn[y] \/ ReturnHolds(y)'
    <3>1. CASE y = r
      BY <2>7, <3>1 DEF ReturnHolds, Came
    <3>2. CASE y # r
      BY <2>6, <3>2
    <3> QED
      BY <3>1, <3>2
  <2> QED
    BY <1>0, <2>2, <2>5, <2>6, <2>8, EndingKeeps
<1>10. ASSUME NEW d \in Clerks, NEW r \in Returns, NEW a \in Amounts, SumForRefund(d, r, a)
       PROVE  DeskKeeps
  <2> DEFINE q == [Free EXCEPT !.op = "refund", !.ret = r, !.lines = sreturn[r].lines,
                               !.amount = a]
  <2>1. q \in DeskRequest
    BY <1>0, ReturnsAssumption DEF Free, DeskRequest, SalesReturn
  <2>2. Came(r)
    BY <1>10 DEF SumForRefund, Refundable, ReturnsInv, DeskHolds, ReturnHolds
  <2>3. RequestHolds(q)
    BY <1>10, <2>2 DEF SumForRefund, Refundable, RequestHolds, Free
  <2>4. StockKept /\ UNCHANGED <<sreturn, refund>> /\ desk' = [desk EXCEPT ![d] = q]
    BY <1>10 DEF SumForRefund, Take
  <2> HIDE DEF q
  <2> QED
    BY <2>1, <2>3, <2>4, ReadingKeeps
<1>11. ASSUME NEW d \in Clerks, NEW f \in Refunds, InsertRefund(d, f)
       PROVE  DeskKeeps
  <2> DEFINE w == [status |-> "COMPLETED", ret |-> desk[d].ret, amount |-> desk[d].amount]
  <2>1. /\ desk[d].op = "refund" /\ Done(d) /\ StockKept /\ UNCHANGED sreturn
        /\ refund[f].status = "NONE" /\ refund' = [refund EXCEPT ![f] = w]
    BY <1>11 DEF InsertRefund
  <2>2. /\ desk[d].ret \in Returns /\ sreturn[desk[d].ret].status # "NONE"
        /\ Came(desk[d].ret) /\ desk[d] \in DeskRequest
    BY <1>0, <2>1 DEF ReturnsInv, DeskHolds, RequestHolds
  <2>3. w \in SalesRefund /\ w.ret = desk[d].ret
    BY <2>2 DEF DeskRequest, SalesRefund
  <2> HIDE DEF w
  <2>4. /\ refund' \in [Refunds -> SalesRefund] /\ refund'[f] = w
        /\ \A g \in Refunds : g # f => refund'[g] = refund[g]
    BY <1>0, <2>1, <2>3
  <2>5. RowsKept
    BY <2>1, <2>4 DEF RowsKept, StockKept, stockVars, JournalGrows
  <2>6. RefundHolds(f)'
    BY <2>1, <2>2, <2>3, <2>4 DEF RefundHolds, Came, StockKept, stockVars
  <2>7. \A g \in Refunds : refund'[g] = refund[g] \/ RefundHolds(g)'
    BY <2>4, <2>6
  <2> QED
    BY <1>0, <2>1, <2>4, <2>5, <2>7, EndingKeeps DEF StockKept, stockVars, StockTypeOK
<1>12. ASSUME NEW d \in Clerks, NEW f \in Refunds, ReadForReverse(d, f)
       PROVE  DeskKeeps
  <2> DEFINE q == [Free EXCEPT !.op = "reverse", !.refund = f,
                               !.lines = sreturn[refund[f].ret].lines]
  <2>1. refund[f].status = "COMPLETED"
    BY <1>12 DEF ReadForReverse
  <2>2. refund[f].ret \in Returns
    BY <2>1 DEF ReturnsInv, DeskHolds, RefundHolds
  <2>3. q \in DeskRequest
    BY <1>0, <2>2 DEF Free, DeskRequest, SalesReturn
  <2>4. RequestHolds(q)
    BY <2>1 DEF RequestHolds, Free
  <2>5. StockKept /\ UNCHANGED <<sreturn, refund>> /\ desk' = [desk EXCEPT ![d] = q]
    BY <1>12 DEF ReadForReverse, Take
  <2> HIDE DEF q
  <2> QED
    BY <2>3, <2>4, <2>5, ReadingKeeps
<1>13. ASSUME NEW d \in Clerks, ReverseRefund(d)
       PROVE  DeskKeeps
  <2>1. PICK f \in Refunds : f = desk[d].refund /\ refund[f].status # "NONE"
    BY <1>13 DEF ReverseRefund, ReturnsInv, DeskHolds, RequestHolds
  <2>2. /\ Done(d) /\ StockKept /\ UNCHANGED sreturn
        /\ refund' = [refund EXCEPT ![f].status = "REVERSED"]
    BY <1>13, <2>1 DEF ReverseRefund
  <2>3. /\ refund' \in [Refunds -> SalesRefund]
        /\ refund'[f].status # "NONE" /\ refund'[f].ret = refund[f].ret
        /\ \A g \in Refunds : g # f => refund'[g] = refund[g]
    BY <1>0, <2>2 DEF SalesRefund
  <2>4. RowsKept
    BY <2>2, <2>3 DEF RowsKept, StockKept, stockVars, JournalGrows
  <2>5. RefundHolds(f)
    BY DEF ReturnsInv, DeskHolds
  <2>6. RefundHolds(f)'
    <3> DEFINE r == refund[f].ret
    <3>1. r \in Returns /\ sreturn[r].status # "NONE" /\ Came(r)
      BY <2>1, <2>5 DEF RefundHolds
    <3>2. Came(r)'
      BY <2>2, <2>3, <3>1 DEF Came, StockKept, stockVars
    <3> QED
      BY <2>2, <2>3, <3>1, <3>2 DEF RefundHolds
  <2>7. ASSUME NEW g \in Refunds PROVE refund'[g] = refund[g] \/ RefundHolds(g)'
    BY <2>3, <2>6
  <2> QED
    BY <1>0, <2>2, <2>3, <2>4, <2>7, EndingKeeps DEF StockKept, stockVars, StockTypeOK
<1>14. ASSUME NEW d \in Clerks, DeskFail(d)
       PROVE  DeskKeeps
  BY <1>0, <1>14, EndingKeeps
     DEF DeskFail, StockKept, stockVars, StockTypeOK, RowsKept, JournalGrows
<1> QED
  BY <1>1, <1>2, <1>3, <1>4, <1>5, <1>6, <1>7, <1>8, <1>9, <1>10, <1>11, <1>12, <1>13, <1>14
     DEF DeskNext

-----------------------------------------------------------------------------
(* The invariant.                                                          *)

\* The shop opens with an empty desk.
LEMMA ReturnsInvInit == ASSUME ReturnsInit PROVE ReturnsInv
<1> USE 0 \in Nat DEF ReturnsInit
<1>1. SalesTypeInv
  BY SalesInitTypes
<1>2. sreturn \in [Returns -> SalesReturn]
  BY DEF SalesReturn
<1>3. refund \in [Refunds -> SalesRefund]
  BY DEF SalesRefund
<1>4. desk \in [Clerks -> DeskRequest]
  BY FreeIsRequest
<1>5. DeskHolds
  BY DEF DeskHolds, RequestHolds, ReturnHolds, RefundHolds, Free
<1> QED
  BY <1>1, <1>2, <1>3, <1>4, <1>5 DEF ReturnsInv, ReturnsTypeOK, SalesTypeInv

\* Every step of the desk or of the POS counter keeps it.
LEMMA ReturnsInvStep ==
    ASSUME ReturnsInv, [ReturnsNext]_returnVars
    PROVE  ReturnsInv'
<1>0. SalesTypeInv /\ ReturnsTypeOK /\ DeskHolds
  BY DEF ReturnsInv
<1>1. CASE DeskNext /\ crossed' \in BOOLEAN
  <2>1. DeskKeeps
    BY <1>1, DeskStep
  <2>2. UNCHANGED <<call, invoice>>
    BY <1>1 DEF DeskNext, ReadForReturn, CheckReturn, InsertReturn, ReadForApprove,
         ReadForProcess, ReadForCancelReturn, ReadReturn, ApproveReturn, ProcessReturn,
         CancelReturn, SumForRefund, InsertRefund, ReadForReverse, ReverseRefund, DeskFail,
         PosKept
  <2>3. SalesTypeInv'
    BY <1>0, <2>1, <2>2 DEF DeskKeeps, SalesTypeInv, SalesTypeOK, RequestTypeOK,
                            CallsNameInvoices
  <2> QED
    BY <1>1, <2>1, <2>3 DEF DeskKeeps, ReturnsInv, ReturnsTypeOK, SalesTypeInv
<1>2. CASE SalesNext /\ UNCHANGED <<sreturn, refund, desk>> /\ crossed' \in BOOLEAN
  <2>1. SalesTypeInv'
    BY <1>0, <1>2, SalesStepKeepsTypes
  <2>2. RowsKept
    BY <1>0, <1>2, SalesStepGrows DEF RowsKept
  <2>3. DeskHolds'
    BY <1>2, <2>2, RowsKeptHolds
  <2> QED
    BY <1>0, <1>2, <2>1, <2>3 DEF ReturnsInv, ReturnsTypeOK, SalesTypeInv
<1>3. CASE UNCHANGED returnVars
  <2>1. SalesTypeInv'
    BY <1>0, <1>3, SalesStutterKeepsTypes DEF returnVars
  <2>2. RowsKept
    BY <1>3 DEF returnVars, salesVars, RowsKept, JournalGrows
  <2>3. DeskHolds'
    BY <1>3, <2>2, RowsKeptHolds DEF returnVars
  <2> QED
    BY <1>0, <1>3, <2>1, <2>3 DEF returnVars, ReturnsInv, ReturnsTypeOK, SalesTypeInv
<1>4. ASSUME ReturnsNext PROVE crossed' \in BOOLEAN
  BY <1>4 DEF ReturnsNext
<1> QED
  BY <1>1, <1>2, <1>3, <1>4 DEF ReturnsNext

\* So it holds for good.
LEMMA ReturnsInvariant == ReturnsSpec => []ReturnsInv
<1> QED
  BY ReturnsInvInit, ReturnsInvStep, PTL DEF ReturnsSpec

\* Every row of sales_returns and sales_refunds, and every request at the
\* desk, always has the shape the schema and the handlers give it.
THEOREM ReturnsTypeCorrect == ReturnsSpec => []ReturnsTypeOK
<1>1. ReturnsInv => ReturnsTypeOK
  BY DEF ReturnsInv
<1> QED
  BY <1>1, ReturnsInvariant, PTL

\* Money is refunded only for pieces that did come back: the handlers write
\* the status of a return without a condition, and the journal shows that a
\* refund never rests on more than what processReturn booked.
THEOREM RefundsAreForPieces == ReturnsSpec => []RefundsFollowPieces
<1>1. ReturnsInv => RefundsFollowPieces
  BY DEF ReturnsInv, DeskHolds, RefundHolds, Came, RefundsFollowPieces
<1> QED
  BY <1>1, ReturnsInvariant, PTL

-----------------------------------------------------------------------------
(* What the desk can rely on, whatever requests meet: the history of the   *)
(* pieces, and where the lines of a return come from.                      *)

Sale(v) == [kind |-> "SALE", doc |-> v]

\* The piece was sold on the invoice at some time.
SoldBy(i, v) == \E n \in 1..Len(ledger[i]) : ledger[i][n] = Sale(v)

\* The pieces are lines of the invoice, which exists.
Covers(v, S) ==
    /\ v \in Invoices
    /\ invoice[v].status # "NONE"
    /\ S # {}
    /\ S \subseteq invoice[v].lines

AskingHolds(q) ==
    q.op \in {"request", "requestChecked"} =>
        Covers(q.inv, q.lines) /\ \A i \in q.lines : SoldBy(i, q.inv)

FormHolds(r) ==
    sreturn[r].status # "NONE" =>
        /\ Covers(sreturn[r].inv, sreturn[r].lines)
        /\ sreturn[r].amount <= Cardinality(sreturn[r].lines)

History ==
    /\ LedgerIsCustodyHistory
    /\ \A i \in Items : Len(ledger[i]) >= 1
    /\ \A v \in Invoices : invoice[v].status = "CONFIRMED" =>
          \A i \in invoice[v].lines : SoldBy(i, v)
    /\ \A r \in Returns : FormHolds(r)
    /\ \A d \in Clerks : AskingHolds(desk[d])

(* What it can rely on as long as no two requests have met on a piece.     *)

\* The piece is sold, and by this invoice.
Held(i, v) == stock[i] = "SOLD" /\ LastMovement(i) = Sale(v)

\* What a request has read is still so.
ReadHolds(q) ==
    /\ q.op = "requestChecked" => \A i \in q.lines : Held(i, q.inv) /\ ~InActiveReturn(i)
    /\ q.op = "approve" => sreturn[q.ret].status = "REQUESTED"
    /\ q.op = "process" => sreturn[q.ret].status = "APPROVED"
    /\ q.op = "cancel" => MayCancel(q.ret)
    /\ q.op = "refund" => Refundable(q.ret, q.amount)

\* The pieces of an open return are still with the customer, and refunds are
\* of a processed return and within its amount.
ReturnKept(r) ==
    /\ MayCancel(r) => \A i \in sreturn[r].lines : Held(i, sreturn[r].inv)
    /\ Refunded[r] <= sreturn[r].amount
    /\ sreturn[r].status # "PROCESSED" =>
          \A f \in Refunds : refund[f].status = "NONE" \/ refund[f].ret # r

Active(r) == sreturn[r].status \in {"REQUESTED", "APPROVED", "PROCESSED"}

NoPieceInTwoReturns ==
    \A r, s \in Returns : Active(r) /\ Active(s) /\ r # s =>
        sreturn[r].lines \cap sreturn[s].lines = {}

\* What came back came back by a processed return that lists the piece, and
\* right after the sale the return is for.
CameBackWell(i) ==
    \A n \in 2..Len(ledger[i]) : ledger[i][n].kind = "SALE_RETURN" =>
        LET r == ledger[i][n].doc IN
        /\ r \in Returns /\ sreturn[r].status = "PROCESSED" /\ i \in sreturn[r].lines
        /\ ledger[i][n - 1] = Sale(sreturn[r].inv)

Orderly ==
    /\ ~MeetOnAPiece
    /\ \A d \in Clerks : ReadHolds(desk[d])
    /\ \A r \in Returns : ReturnKept(r)
    /\ NoPieceInTwoReturns
    /\ \A i \in Items : CameBackWell(i)

SafetyInv == ReturnsInv /\ History /\ (~crossed => Orderly)

-----------------------------------------------------------------------------
(* What a step does to a piece.                                            *)

\* Nothing, or an invoice sells it, or a return takes it back.
SoldNow(i, v) ==
    /\ stock[i] = "AVAILABLE" /\ stock'[i] = "SOLD"
    /\ ledger'[i] = Append(ledger[i], Sale(v))

BackNow(i, r) ==
    /\ stock[i] = "SOLD" /\ stock'[i] = "AVAILABLE"
    /\ ledger'[i] = Append(ledger[i], [kind |-> "SALE_RETURN", doc |-> r])

Left(i) == stock'[i] = stock[i] /\ ledger'[i] = ledger[i]

PieceStep(i) ==
    \/ Left(i)
    \/ \E v \in Invoices : SoldNow(i, v)
    \/ \E r \in Returns : BackNow(i, r)

\* Where the movement of such a step ends up.
LEMMA MovementOf ==
    ASSUME StockTypeOK, NEW i \in Items, NEW m \in Movement,
           ledger'[i] = Append(ledger[i], m)
    PROVE  /\ Len(ledger[i]) \in Nat
           /\ Len(ledger'[i]) = Len(ledger[i]) + 1
           /\ \A n \in 1..Len(ledger[i]) : ledger'[i][n] = ledger[i][n]
           /\ ledger'[i][Len(ledger[i]) + 1] = m
           /\ LastMovement(i)' = m
<1>1. ledger[i] \in Seq(Movement)
  BY DEF StockTypeOK
<1>2. /\ Len(ledger[i]) \in Nat
      /\ Len(ledger'[i]) = Len(ledger[i]) + 1
      /\ \A n \in 1..Len(ledger[i]) : ledger'[i][n] = ledger[i][n]
      /\ ledger'[i][Len(ledger[i]) + 1] = m
  BY <1>1, AppendMovement
<1> QED
  BY <1>2 DEF LastMovement

\* The movements of sales and returns are movements of the journal.
LEMMA DeskMovements ==
    /\ \A v \in Invoices : Sale(v) \in Movement
    /\ \A r \in Returns : [kind |-> "SALE_RETURN", doc |-> r] \in Movement
BY InvoicesAssumption, ReturnsAssumption DEF Sale, Movement, MovementType

\* They follow on from the custody a piece has, and nothing is taken out.
LEMMA PieceStepLinks ==
    ASSUME \A i \in Items : PieceStep(i)
    PROVE  /\ \A i \in Items : Linked(i)
           /\ JournalGrows
<1>0. Invoices \subseteq Documents /\ Returns \subseteq Documents
  BY InvoicesAssumption, ReturnsAssumption
<1>1. ASSUME NEW i \in Items PROVE Linked(i)
  <2>1. ASSUME NEW v \in Invoices, SoldNow(i, v) PROVE Linked(i)
    BY <1>0, <2>1 DEF SoldNow, Sale, Linked, MovementType, CustodyBefore, CustodyAfter
  <2>2. ASSUME NEW r \in Returns, BackNow(i, r) PROVE Linked(i)
    BY <1>0, <2>2 DEF BackNow, Linked, MovementType, CustodyBefore, CustodyAfter
  <2>3. CASE Left(i)
    BY <2>3 DEF Left, Linked
  <2> QED
    BY <2>1, <2>2, <2>3 DEF PieceStep
<1>2. JournalGrows
  BY DeskMovements DEF JournalGrows, PieceStep, Left, SoldNow, BackNow
<1> QED
  BY <1>1, <1>2

\* A sale stays in the journal.
LEMMA SoldByStays ==
    ASSUME StockTypeOK, JournalGrows, NEW i \in Items, NEW v, SoldBy(i, v)
    PROVE  SoldBy(i, v)'
<1>1. PICK n \in 1..Len(ledger[i]) : ledger[i][n] = Sale(v)
  BY DEF SoldBy
<1>2. n \in 1..Len(ledger'[i]) /\ ledger'[i][n] = ledger[i][n]
  BY <1>1, MovementStays
<1>3. \E k \in 1..Len(ledger'[i]) : ledger'[i][k] = Sale(v)
  BY <1>1, <1>2
<1> QED
  BY <1>3 DEF SoldBy, Sale

\* A sale that was not taken back is the last movement: after a sale the
\* chain of custody has room for a SALE_RETURN only.
LEMMA SaleIsLast ==
    ASSUME StockTypeOK, LedgerIsCustodyHistory, NEW i \in Items, NEW v, SoldBy(i, v),
           \A n \in 2..Len(ledger[i]) : ledger[i][n].kind # "SALE_RETURN"
    PROVE  LastMovement(i) = Sale(v)
<1>0. ledger[i] \in Seq(Movement)
  BY DEF StockTypeOK
<1>1. PICK n \in 1..Len(ledger[i]) : ledger[i][n] = Sale(v)
  BY DEF SoldBy
<1>2. ASSUME n < Len(ledger[i]) PROVE FALSE
  <2>1. n \in 1..Len(ledger[i]) - 1 /\ n + 1 \in 2..Len(ledger[i]) /\ n + 1 \in 1..Len(ledger[i])
    BY <1>0, <1>1, <1>2
  <2>2. CustodyAfter[ledger[i][n].kind] \in CustodyBefore[ledger[i][n + 1].kind]
    BY <2>1 DEF LedgerIsCustodyHistory
  <2>3. ledger[i][n].kind = "SALE"
    BY <1>1 DEF Sale
  <2>a. ledger[i][n + 1] \in Movement
    BY <1>0, <2>1
  <2>4. ledger[i][n + 1].kind \in MovementType
    BY <2>a DEF Movement
  <2>5. "SOLD" \in CustodyBefore[ledger[i][n + 1].kind]
    BY <2>2, <2>3 DEF CustodyAfter
  <2>6. ledger[i][n + 1].kind = "SALE_RETURN"
    BY <2>4, <2>5 DEF MovementType, CustodyBefore
  <2> QED
    BY <2>1, <2>6
<1>3. n = Len(ledger[i])
  BY <1>0, <1>1, <1>2
<1> QED
  BY <1>1, <1>3 DEF LastMovement

\* The piece was held by the sale the return is for.
BackWell(i, r) ==
    /\ sreturn'[r].status = "PROCESSED" /\ i \in sreturn'[r].lines
    /\ LastMovement(i) = Sale(sreturn'[r].inv)

\* What came back well stays so while its returns stay processed, and a step
\* that takes the piece back does so well when the piece was held.
LEMMA CameBackStays ==
    ASSUME StockTypeOK, NEW i \in Items, CameBackWell(i),
           Len(ledger[i]) >= 1,
           \A r \in Returns : sreturn[r].status = "PROCESSED" =>
               /\ sreturn'[r].status = "PROCESSED"
               /\ sreturn'[r].lines = sreturn[r].lines /\ sreturn'[r].inv = sreturn[r].inv,
           \/ Left(i)
           \/ \E v \in Invoices : SoldNow(i, v)
           \/ \E r \in Returns : BackNow(i, r) /\ BackWell(i, r)
    PROVE  CameBackWell(i)'
<1>0. Len(ledger[i]) \in Nat
  BY DEF StockTypeOK
<1> DEFINE Good(s, n) == s[n].kind = "SALE_RETURN" =>
        /\ s[n].doc \in Returns /\ sreturn[s[n].doc].status = "PROCESSED"
        /\ i \in sreturn[s[n].doc].lines
        /\ s[n - 1] = Sale(sreturn[s[n].doc].inv)
    Good1(s, n) == s[n].kind = "SALE_RETURN" =>
        /\ s[n].doc \in Returns /\ sreturn'[s[n].doc].status = "PROCESSED"
        /\ i \in sreturn'[s[n].doc].lines
        /\ s[n - 1] = Sale(sreturn'[s[n].doc].inv)
<1>1. \A n \in 2..Len(ledger[i]) : Good(ledger[i], n)
  BY DEF CameBackWell
<1>2. ASSUME NEW n \in 2..Len(ledger[i]) PROVE Good1(ledger[i], n)
  BY <1>1
<1>3. SUFFICES \A n \in 2..Len(ledger'[i]) : Good1(ledger'[i], n)
  BY DEF CameBackWell, Sale
<1>4. CASE ledger'[i] = ledger[i]
  BY <1>2, <1>4
<1>5. ASSUME NEW m \in Movement, ledger'[i] = Append(ledger[i], m),
             Good1(ledger'[i], Len(ledger[i]) + 1)
      PROVE  \A n \in 2..Len(ledger'[i]) : Good1(ledger'[i], n)
  <2>1. /\ Len(ledger'[i]) = Len(ledger[i]) + 1
        /\ \A n \in 1..Len(ledger[i]) : ledger'[i][n] = ledger[i][n]
    BY <1>5, MovementOf
  <2>2. ASSUME NEW n \in 2..Len(ledger[i]) PROVE Good1(ledger'[i], n)
    <3>1. ledger'[i][n] = ledger[i][n] /\ ledger'[i][n - 1] = ledger[i][n - 1]
      BY <1>0, <2>1
    <3> QED
      BY <1>2, <3>1
  <2>3. \A n \in 2..Len(ledger'[i]) : n \in 2..Len(ledger[i]) \/ n = Len(ledger[i]) + 1
    BY <1>0, <2>1
  <2> HIDE DEF Good1
  <2> QED
    BY <1>5, <2>2, <2>3
<1>6. ASSUME NEW v \in Invoices, SoldNow(i, v)
      PROVE  \A n \in 2..Len(ledger'[i]) : Good1(ledger'[i], n)
  <2>1. Sale(v) \in Movement /\ ledger'[i] = Append(ledger[i], Sale(v))
    BY <1>6, DeskMovements DEF SoldNow
  <2>2. ledger'[i][Len(ledger[i]) + 1] = Sale(v)
    BY <2>1, MovementOf
  <2>3. Good1(ledger'[i], Len(ledger[i]) + 1)
    BY <2>2 DEF Sale
  <2> QED
    BY <1>5, <2>1, <2>3
<1>7. ASSUME NEW r \in Returns, BackNow(i, r), BackWell(i, r)
      PROVE  \A n \in 2..Len(ledger'[i]) : Good1(ledger'[i], n)
  <2> DEFINE m == [kind |-> "SALE_RETURN", doc |-> r]
  <2>1. m \in Movement /\ ledger'[i] = Append(ledger[i], m) /\ m.doc = r
    BY <1>7, DeskMovements DEF BackNow
  <2> HIDE DEF m
  <2>2. /\ ledger'[i][Len(ledger[i]) + 1] = m
        /\ ledger'[i][Len(ledger[i])] = LastMovement(i)
    <3>1. Len(ledger[i]) \in 1..Len(ledger[i])
      BY <1>0
    <3> QED
      BY <2>1, <3>1, MovementOf DEF LastMovement
  <2>3. Good1(ledger'[i], Len(ledger[i]) + 1)
    <3> DEFINE k == Len(ledger[i]) + 1
    <3>1. k - 1 = Len(ledger[i])
      BY <1>0
    <3> HIDE DEF k
    <3>2. ledger'[i][k] = m /\ ledger'[i][k - 1] = LastMovement(i)
      BY <2>2, <3>1 DEF k
    <3>3. Good1(ledger'[i], k)
      BY <1>7, <2>1, <3>2 DEF BackWell
    <3> QED
      BY <3>3 DEF k
  <2> QED
    BY <1>5, <2>1, <2>3
<1> QED
  BY <1>4, <1>6, <1>7 DEF Left
\* A piece that is left alone stays held.
LEMMA HeldStays ==
    ASSUME NEW i \in Items, NEW v, Held(i, v), Left(i)
    PROVE  Held(i, v)'
BY DEF Held, Left, LastMovement, Sale

-----------------------------------------------------------------------------
(* The history.                                                            *)

\* A return keeps what it is for, or is made in good form.
FormStays(r) ==
    \/ sreturn'[r].status = "NONE"
    \/ /\ sreturn[r].status # "NONE" /\ sreturn'[r].inv = sreturn[r].inv
       /\ sreturn'[r].lines = sreturn[r].lines /\ sreturn'[r].amount = sreturn[r].amount
    \/ FormHolds(r)'

\* A request keeps what it asks for, or asks for what was sold.
AskingStays(d) ==
    \/ desk'[d].op \notin {"request", "requestChecked"}
    \/ desk'[d] = desk[d]
    \/ AskingHolds(desk[d])'

InvoiceStays(v) ==
    /\ invoice[v].status # "NONE" =>
          invoice'[v].status # "NONE" /\ invoice'[v].lines = invoice[v].lines
    /\ invoice'[v].status = "CONFIRMED" =>
          \/ invoice[v].status = "CONFIRMED"
          \/ invoice[v].status # "NONE" /\ \A i \in invoice[v].lines : SoldNow(i, v)

\* Such steps keep the history.
LEMMA HistoryStays ==
    ASSUME ReturnsInv, History,
           \A i \in Items : PieceStep(i),
           \A v \in Invoices : InvoiceStays(v),
           \A r \in Returns : FormStays(r),
           \A d \in Clerks : AskingStays(d)
    PROVE  History'
<1>0. /\ StockTypeOK
      /\ \A v \in Invoices : invoice[v].lines \in SUBSET Items
      /\ desk \in [Clerks -> DeskRequest]
  BY DEF ReturnsInv, ReturnsTypeOK, SalesTypeOK, Invoice
<1>1. LedgerIsCustodyHistory' /\ JournalGrows
  BY <1>0, PieceStepLinks, ChainStays DEF History
<1>2. ASSUME NEW i \in Items PROVE Len(ledger'[i]) >= 1
  <2>1. ledger[i] \in Seq(Movement) /\ Len(ledger[i]) >= 1
    BY <1>0 DEF StockTypeOK, History
  <2>2. ASSUME NEW m \in Movement, ledger'[i] = Append(ledger[i], m)
        PROVE  Len(ledger'[i]) >= 1
    BY <2>1, <2>2, AppendMovement
  <2> QED
    BY <1>1, <2>1, <2>2 DEF JournalGrows
<1>3. ASSUME NEW v \in Invoices, NEW S, Covers(v, S) PROVE Covers(v, S)'
  BY <1>3 DEF Covers, InvoiceStays
<1>4. ASSUME NEW v \in Invoices, invoice'[v].status = "CONFIRMED", NEW i \in invoice'[v].lines
      PROVE  SoldBy(i, v)'
  <2>1. invoice[v].status # "NONE" /\ i \in invoice[v].lines /\ i \in Items
    BY <1>0, <1>4 DEF InvoiceStays
  <2>2. CASE invoice[v].status = "CONFIRMED"
    <3>1. SoldBy(i, v)
      BY <2>1, <2>2 DEF History
    <3> QED
      BY <1>0, <1>1, <2>1, <3>1, SoldByStays
  <2>3. CASE SoldNow(i, v)
    <3>1. Sale(v) \in Movement
      BY DeskMovements
    <3>2. Len(ledger[i]) + 1 \in 1..Len(ledger'[i]) /\ ledger'[i][Len(ledger[i]) + 1] = Sale(v)
      BY <1>0, <2>1, <2>3, <3>1, MovementOf DEF SoldNow
    <3> QED
      BY <3>2 DEF SoldBy, Sale
  <2> QED
    BY <1>4, <2>1, <2>2, <2>3 DEF InvoiceStays
<1>5. ASSUME NEW r \in Returns PROVE FormHolds(r)'
  <2>1. CASE /\ sreturn[r].status # "NONE" /\ sreturn'[r].inv = sreturn[r].inv
             /\ sreturn'[r].lines = sreturn[r].lines /\ sreturn'[r].amount = sreturn[r].amount
    <3>1. /\ Covers(sreturn[r].inv, sreturn[r].lines)
          /\ sreturn[r].amount <= Cardinality(sreturn[r].lines)
      BY <2>1 DEF History, FormHolds
    <3>2. PICK v : v = sreturn[r].inv
      OBVIOUS
    <3>3. PICK S : S = sreturn[r].lines
      OBVIOUS
    <3>4. Covers(v, S)'
      BY <1>3, <3>1, <3>2, <3>3 DEF Covers
    <3> QED
      BY <2>1, <3>1, <3>2, <3>3, <3>4 DEF FormHolds, Covers
  <2> QED
    BY <2>1 DEF FormStays, FormHolds
<1>6. ASSUME NEW d \in Clerks PROVE AskingHolds(desk[d])'
  <2>1. CASE desk'[d] = desk[d] /\ desk[d].op \in {"request", "requestChecked"}
    <3>1. AskingHolds(desk[d])
      BY DEF History
    <3>2. PICK v : v = desk[d].inv
      OBVIOUS
    <3>3. PICK S : S = desk[d].lines /\ S \in SUBSET Items
      BY <1>0 DEF DeskRequest
    <3>4. Covers(v, S) /\ \A i \in S : SoldBy(i, v)
      BY <2>1, <3>1, <3>2, <3>3 DEF AskingHolds
    <3>5. Covers(v, S)'
      BY <1>3, <3>4 DEF Covers
    <3>6. ASSUME NEW i \in S PROVE SoldBy(i, v)'
      BY <1>0, <1>1, <3>3, <3>4, SoldByStays
    <3> QED
      BY <2>1, <3>2, <3>3, <3>5, <3>6 DEF AskingHolds, Covers, SoldBy, Sale
  <2> QED
    BY <2>1 DEF AskingStays, AskingHolds
<1> QED
  BY <1>1, <1>2, <1>4, <1>5, <1>6 DEF History
-----------------------------------------------------------------------------
(* What is paid back.                                                      *)

\* What is refunded of a return is a number.
LEMMA RefundedType ==
    ASSUME refund \in [Refunds -> SalesRefund]
    PROVE  \A r \in Returns : Refunded[r] \in Nat /\ IsFiniteSet(CompletedOf(r))
<1>1. \A f \in Refunds : RefundAmounts[f] \in Nat
  BY DEF RefundAmounts, SalesRefund
<1>2. ASSUME NEW r \in Returns
      PROVE  SumFunctionOnSet(RefundAmounts, CompletedOf(r)) \in Nat /\ IsFiniteSet(CompletedOf(r))
  <2>1. IsFiniteSet(CompletedOf(r)) /\ \A f \in CompletedOf(r) : RefundAmounts[f] \in Nat
    BY <1>1, ReturnsAssumption, FS_Subset DEF CompletedOf
  <2> QED
    BY <2>1, SumNat
<1> QED
  BY <1>2 DEF Refunded

\* A new refund adds its amount to what is refunded of its return, and to
\* nothing else.
LEMMA RefundAdds ==
    ASSUME refund \in [Refunds -> SalesRefund], NEW f \in Refunds, refund[f].status = "NONE",
           NEW r \in Returns, NEW a \in Nat,
           refund' = [refund EXCEPT ![f] = [status |-> "COMPLETED", ret |-> r, amount |-> a]]
    PROVE  /\ Refunded'[r] = Refunded[r] + a
           /\ \A s \in Returns : s # r => Refunded'[s] = Refunded[s]
<1>1. /\ refund'[f].status = "COMPLETED" /\ refund'[f].ret = r /\ refund'[f].amount = a
      /\ \A g \in Refunds : g # f => refund'[g] = refund[g]
  OBVIOUS
<1>2. /\ \A g \in Refunds : RefundAmounts[g] \in Nat
      /\ \A g \in Refunds : g # f => RefundAmounts'[g] = RefundAmounts[g]
      /\ RefundAmounts'[f] = a
  BY <1>1 DEF RefundAmounts, SalesRefund
<1>3. ASSUME NEW s \in Returns
      PROVE  /\ IsFiniteSet(CompletedOf(s)) /\ CompletedOf(s) \subseteq Refunds
             /\ f \notin CompletedOf(s)
  BY RefundedType DEF CompletedOf
<1>4. ASSUME NEW s \in Returns
      PROVE  SumFunctionOnSet(RefundAmounts', CompletedOf(s))
                = SumFunctionOnSet(RefundAmounts, CompletedOf(s))
  BY <1>2, <1>3, SumSame
<1>5. CompletedOf(r)' = CompletedOf(r) \cup {f}
  BY <1>1 DEF CompletedOf
<1>6. \A s \in Returns : s # r => CompletedOf(s)' = CompletedOf(s)
  BY <1>1 DEF CompletedOf
<1>7. SumFunctionOnSet(RefundAmounts', CompletedOf(r) \cup {f})
        = SumFunctionOnSet(RefundAmounts', CompletedOf(r)) + a
  <2>1. \A g \in CompletedOf(r) \cup {f} : RefundAmounts'[g] \in Nat
    BY <1>2, <1>3
  <2> QED
    BY <1>2, <1>3, <2>1, SumAdd
<1> QED
  BY <1>4, <1>5, <1>6, <1>7 DEF Refunded

\* A reversal never adds to what is refunded.
LEMMA ReverseTakes ==
    ASSUME refund \in [Refunds -> SalesRefund], NEW f \in Refunds,
           refund' = [refund EXCEPT ![f].status = "REVERSED"]
    PROVE  \A r \in Returns : Refunded'[r] <= Refunded[r]
<1>1. \A g \in Refunds : /\ refund'[g].ret = refund[g].ret
                         /\ refund'[g].amount = refund[g].amount
                         /\ refund'[g].status \in {refund[g].status, "REVERSED"}
  BY DEF SalesRefund
<1>2. \A g \in Refunds : RefundAmounts'[g] = RefundAmounts[g] /\ RefundAmounts[g] \in Nat
  BY <1>1 DEF RefundAmounts, SalesRefund
<1>3. ASSUME NEW r \in Returns
      PROVE  SumFunctionOnSet(RefundAmounts', CompletedOf(r)')
                <= SumFunctionOnSet(RefundAmounts, CompletedOf(r))
  <2>1. /\ CompletedOf(r)' \subseteq CompletedOf(r)
        /\ CompletedOf(r) \subseteq Refunds /\ IsFiniteSet(CompletedOf(r))
    BY <1>1, RefundedType DEF CompletedOf
  <2>2. /\ \A g \in CompletedOf(r) : RefundAmounts[g] \in Nat
        /\ \A g \in CompletedOf(r)' :
              RefundAmounts'[g] \in Nat /\ RefundAmounts'[g] <= RefundAmounts[g]
    BY <1>2, <2>1
  <2> QED
    BY <2>1, <2>2, SumMonotone
<1> QED
  BY <1>3 DEF Refunded

\* Nothing is refunded of a return no refund names.
LEMMA NothingRefunded ==
    ASSUME NEW r \in Returns, \A f \in Refunds : refund[f].status = "NONE" \/ refund[f].ret # r
    PROVE  Refunded[r] = 0
<1>1. CompletedOf(r) = {}
  BY DEF CompletedOf
<1> QED
  BY <1>1, SumEmpty DEF Refunded

-----------------------------------------------------------------------------
(* Order at the desk.  A step that writes touches the pieces and the       *)
(* return of its own request only, and as no two requests meet on a piece, *)
(* what the others have read is still so.                                  *)

\* The rule by which meetings are remembered.
Remembers == crossed' = (crossed \/ MeetOnAPiece')

\* A step that only reads keeps everything when what it remembers is in order.
LEMMA LookKeeps ==
    ASSUME SafetyInv, StockKept, PosKept, UNCHANGED <<sreturn, refund>>, Remembers,
           NEW d \in Clerks, NEW q, desk' = [desk EXCEPT ![d] = q],
           AskingHolds(q), ~crossed => ReadHolds(q)
    PROVE  History' /\ (~crossed' => Orderly')
<1> USE DEF StockKept, PosKept, stockVars
<1>0. desk \in [Clerks -> DeskRequest]
  BY DEF SafetyInv, ReturnsInv, ReturnsTypeOK
<1>1. History'
  <2>1. \A i \in Items : PieceStep(i)
    BY DEF PieceStep, Left
  <2>2. \A v \in Invoices : InvoiceStays(v)
    BY DEF InvoiceStays
  <2>3. \A r \in Returns : FormStays(r)
    BY DEF FormStays
  <2>4. ASSUME NEW e \in Clerks PROVE AskingStays(e)
    <3>1. CASE e = d
      <4>1. desk'[e] = q
        BY <1>0, <3>1
      <4>2. AskingHolds(desk[e])'
        BY <4>1 DEF AskingHolds, Covers, SoldBy, Sale
      <4> QED
        BY <4>2 DEF AskingStays
    <3>2. CASE e # d
      BY <1>0, <3>2 DEF AskingStays
    <3> QED
      BY <3>1, <3>2
  <2> QED
    BY <2>1, <2>2, <2>3, <2>4, HistoryStays DEF SafetyInv
<1>2. ASSUME ~crossed' PROVE Orderly'
  <2>1. ~crossed /\ ~MeetOnAPiece' /\ Orderly
    BY <1>2 DEF Remembers, SafetyInv
  <2>2. ASSUME NEW e \in Clerks PROVE ReadHolds(desk[e])'
    <3> USE DEF ReadHolds, Held, LastMovement, Sale, InActiveReturn, MayCancel, Refundable,
                Refunded, RefundAmounts, CompletedOf
    <3>1. CASE e = d
      <4>1. desk'[e] = q
        BY <1>0, <3>1
      <4> QED
        BY <2>1, <4>1
    <3>2. CASE e # d
      <4>1. desk'[e] = desk[e] /\ ReadHolds(desk[e])
        BY <1>0, <2>1, <3>2 DEF Orderly
      <4> QED
        BY <4>1
    <3> QED
      BY <3>1, <3>2
  <2>3. ASSUME NEW r \in Returns PROVE ReturnKept(r)'
    <3>1. ReturnKept(r)
      BY <2>1 DEF Orderly
    <3> QED
      BY <3>1 DEF ReturnKept, MayCancel, Held, LastMovement, Sale,
                  Refunded, RefundAmounts, CompletedOf
  <2>4. NoPieceInTwoReturns'
    BY <2>1 DEF Orderly, NoPieceInTwoReturns, Active
  <2>5. ASSUME NEW i \in Items PROVE CameBackWell(i)'
    <3>1. CameBackWell(i)
      BY <2>1 DEF Orderly
    <3> QED
      BY <3>1 DEF CameBackWell, Sale
  <2> QED
    BY <2>1, <2>2, <2>3, <2>4, <2>5 DEF Orderly
<1> QED
  BY <1>1, <1>2
\* What a step that writes may touch.
OwnPieces(d) == \A i \in Items \ desk[d].lines : Left(i)

OwnReturn(d) ==
    \A r \in Returns :
        /\ sreturn[r].status # "NONE" /\ sreturn[r].lines \cap desk[d].lines = {} =>
              sreturn'[r] = sreturn[r] /\ Refunded'[r] <= Refunded[r]
        /\ Active(r)' =>
              \/ Active(r) /\ sreturn'[r].lines = sreturn[r].lines
              \/ sreturn'[r].lines \subseteq desk[d].lines

\* Then the others do not notice.
LEMMA OthersUnaware ==
    ASSUME ReturnsInv, History, ~MeetOnAPiece, NEW d \in Clerks, NEW e \in Clerks, e # d,
           desk'[e] = desk[e], ReadHolds(desk[e]), OwnPieces(d), OwnReturn(d),
           refund' \in [Refunds -> SalesRefund]
    PROVE  ReadHolds(desk[e])'
<1>0. /\ desk[e] \in DeskRequest /\ desk[e].lines \cap desk[d].lines = {}
      /\ refund \in [Refunds -> SalesRefund]
      /\ RequestHolds(desk[e])
      /\ sreturn \in [Returns -> SalesReturn]
  BY DEF ReturnsInv, ReturnsTypeOK, MeetOnAPiece, DeskHolds
<1>1. ASSUME desk[e].op = "requestChecked", NEW i \in desk[e].lines
      PROVE  Held(i, desk[e].inv)' /\ ~InActiveReturn(i)'
  <2>1. i \in Items /\ Left(i) /\ Held(i, desk[e].inv) /\ ~InActiveReturn(i)
    BY <1>0, <1>1 DEF DeskRequest, OwnPieces, ReadHolds
  <2>2. PICK v : v = desk[e].inv
    OBVIOUS
  <2>3. Held(i, v)'
    BY <2>1, <2>2, HeldStays
  <2>4. ASSUME NEW r \in Returns, Active(r)', i \in sreturn'[r].lines PROVE FALSE
    <3>1. ~(Active(r) /\ i \in sreturn[r].lines)
      BY <2>1 DEF InActiveReturn, Active
    <3>2. i \in desk[d].lines
      BY <2>4, <3>1 DEF OwnReturn
    <3> QED
      BY <1>0, <1>1, <3>2
  <2>5. ~InActiveReturn(i)'
    BY <2>4 DEF InActiveReturn, Active
  <2> QED
    BY <2>2, <2>3, <2>5 DEF Held, LastMovement, Sale
<1>2. ASSUME desk[e].op \in {"approve", "process", "cancel", "refund"}
      PROVE  /\ desk[e].ret \in Returns /\ sreturn'[desk[e].ret] = sreturn[desk[e].ret]
             /\ Refunded'[desk[e].ret] <= Refunded[desk[e].ret]
  BY <1>0, <1>2 DEF RequestHolds, OwnReturn
<1>3. ASSUME desk[e].op = "refund" PROVE Refundable(desk[e].ret, desk[e].amount)'
  <2>1. PICK r \in Returns : r = desk[e].ret
    BY <1>2, <1>3
  <2>2. PICK a : a = desk[e].amount /\ a \in Nat
    BY <1>0 DEF DeskRequest
  <2>3. Refunded[r] \in Nat /\ sreturn[r].amount \in Nat /\ Refunded[r] <= sreturn[r].amount
    BY <1>0, <1>3, <2>1, <2>2, RefundedType DEF SalesReturn, ReadHolds, Refundable
  <2>4. Refunded'[r] \in Nat
    <3>1. \A f \in Refunds : RefundAmounts'[f] \in Nat
      BY DEF RefundAmounts, SalesRefund
    <3>2. IsFiniteSet(CompletedOf(r)') /\ \A f \in CompletedOf(r)' : RefundAmounts'[f] \in Nat
      BY <3>1, ReturnsAssumption, FS_Subset DEF CompletedOf
    <3>3. SumFunctionOnSet(RefundAmounts', CompletedOf(r)') \in Nat
      BY <3>2, SumNat
    <3> QED
      BY <3>3 DEF Refunded
  <2>5. sreturn[r].status = "PROCESSED" /\ a + Refunded[r] <= sreturn[r].amount
    BY <1>3, <2>1, <2>2 DEF ReadHolds, Refundable
  <2>6. sreturn'[r] = sreturn[r] /\ Refunded'[r] <= Refunded[r]
    BY <1>2, <1>3, <2>1
  <2>7. sreturn'[r].status = "PROCESSED" /\ a + Refunded'[r] <= sreturn'[r].amount
    BY <2>2, <2>3, <2>4, <2>5, <2>6
  <2> QED
    BY <2>1, <2>2, <2>7 DEF Refundable
<1>4. ASSUME desk[e].op \in {"approve", "process", "cancel"}
      PROVE  sreturn'[desk'[e].ret].status = sreturn[desk[e].ret].status
  BY <1>2, <1>4
<1> QED
  BY <1>1, <1>3, <1>4 DEF ReadHolds, MayCancel, Refundable, Held, LastMovement, InActiveReturn

\* A return nobody touched stays as it is.
LEMMA KeptStays ==
    ASSUME NEW r \in Returns, ReturnKept(r), sreturn'[r] = sreturn[r],
           refund \in [Refunds -> SalesRefund], refund' \in [Refunds -> SalesRefund],
           sreturn \in [Returns -> SalesReturn],
           Refunded'[r] \in Nat, Refunded'[r] <= Refunded[r],
           \A i \in sreturn[r].lines : MayCancel(r) /\ Held(i, sreturn[r].inv) => Left(i),
           \A f \in Refunds : \/ refund'[f].status = "NONE" \/ refund'[f].ret # r
                              \/ refund[f].status # "NONE" /\ refund'[f].ret = refund[f].ret
                              \/ sreturn[r].status = "PROCESSED"
    PROVE  ReturnKept(r)'
<1>1. PICK v : v = sreturn[r].inv
  OBVIOUS
<1>2. ASSUME MayCancel(r), NEW i \in sreturn[r].lines PROVE Held(i, v)'
  <2>1. i \in Items /\ Held(i, v) /\ Left(i)
    BY <1>1, <1>2 DEF SalesReturn, ReturnKept
  <2> QED
    BY <2>1, HeldStays
<1>3. Refunded[r] \in Nat /\ sreturn[r].amount \in Nat
  BY RefundedType DEF SalesReturn
<1>4. Refunded'[r] <= sreturn'[r].amount
  BY <1>3 DEF ReturnKept
<1>5. ASSUME NEW f \in Refunds, sreturn[r].status # "PROCESSED"
      PROVE  refund'[f].status = "NONE" \/ refund'[f].ret # r
  BY <1>5 DEF ReturnKept
<1> QED
  BY <1>1, <1>2, <1>4, <1>5 DEF ReturnKept, MayCancel, Held, LastMovement, Sale

\* A step that writes and ends its request keeps everything when it touches
\* its own pieces and return only, and leaves these in order.
LEMMA WriteKeeps ==
    ASSUME SafetyInv, NEW d \in Clerks, Done(d), PosKept, Remembers,
           refund' \in [Refunds -> SalesRefund],
           \A i \in Items : PieceStep(i),
           \A r \in Returns : FormStays(r),
           OwnPieces(d), OwnReturn(d),
           ~crossed => /\ \A r \in Returns : ReturnKept(r)'
                       /\ NoPieceInTwoReturns'
                       /\ \A i \in Items : CameBackWell(i)'
    PROVE  History' /\ (~crossed' => Orderly')
<1>0. desk \in [Clerks -> DeskRequest] /\ ReturnsInv /\ History
  BY DEF SafetyInv, ReturnsInv, ReturnsTypeOK
<1>1. desk'[d] = Free /\ \A e \in Clerks : e # d => desk'[e] = desk[e]
  BY <1>0 DEF Done
<1>2. Free.op = "free"
  BY DEF Free
<1>3. \A v \in Invoices : InvoiceStays(v)
  BY DEF InvoiceStays, PosKept
<1>4. \A e \in Clerks : AskingStays(e)
  BY <1>1, <1>2 DEF AskingStays
<1>5. History'
  BY <1>0, <1>3, <1>4, HistoryStays
<1>6. ASSUME ~crossed' PROVE Orderly'
  <2>1. ~crossed /\ ~MeetOnAPiece' /\ Orderly
    BY <1>6 DEF Remembers, SafetyInv
  <2>2. ASSUME NEW e \in Clerks PROVE ReadHolds(desk[e])'
    <3>1. CASE e = d
      BY <1>1, <1>2, <3>1 DEF ReadHolds
    <3>2. CASE e # d
      BY <1>0, <1>1, <2>1, <3>2, OthersUnaware DEF Orderly
    <3> QED
      BY <3>1, <3>2
  <2> QED
    BY <2>1, <2>2 DEF Orderly
<1> QED
  BY <1>5, <1>6
-----------------------------------------------------------------------------
(* The steps of the desk.                                                  *)

\* A status write touches the return of its request only.
LEMMA StatusTouches ==
    ASSUME SafetyInv, NEW d \in Clerks, desk[d].op \in {"approve", "process", "cancel"},
           NEW s \in {"APPROVED", "PROCESSED", "CANCELLED"}, SetReturn(d, s), UNCHANGED refund,
           NEW r, r = desk[d].ret
    PROVE  /\ r \in Returns /\ desk[d].lines = sreturn[r].lines
           /\ sreturn'[r].status = s /\ sreturn'[r].lines = sreturn[r].lines
           /\ sreturn'[r].inv = sreturn[r].inv /\ sreturn'[r].amount = sreturn[r].amount
           /\ \A x \in Returns : x # r => sreturn'[x] = sreturn[x]
           /\ \A x \in Returns : FormStays(x)
           /\ OwnReturn(d)
<1>0. sreturn \in [Returns -> SalesReturn] /\ RequestHolds(desk[d])
  BY DEF SafetyInv, ReturnsInv, ReturnsTypeOK, DeskHolds
<1>1. r \in Returns /\ sreturn[r].status # "NONE" /\ desk[d].lines = sreturn[r].lines
  BY <1>0 DEF RequestHolds
<1>2. sreturn' = [sreturn EXCEPT ![r].status = s]
  BY DEF SetReturn
<1>3. sreturn[r] \in SalesReturn
  BY <1>0, <1>1
<1>4. /\ sreturn'[r].status = s /\ sreturn'[r].lines = sreturn[r].lines
      /\ sreturn'[r].inv = sreturn[r].inv /\ sreturn'[r].amount = sreturn[r].amount
      /\ \A x \in Returns : x # r => sreturn'[x] = sreturn[x]
  BY <1>0, <1>1, <1>2, <1>3 DEF SalesReturn
<1>5. \A x \in Returns : FormStays(x)
  BY <1>1, <1>4 DEF FormStays
<1>6. sreturn[r].lines # {}
  BY <1>1 DEF SafetyInv, History, FormHolds, Covers
<1>7. OwnReturn(d)
  <2>1. ASSUME NEW x \in Returns, sreturn[x].lines \cap desk[d].lines = {} PROVE x # r
    BY <1>1, <1>6, <2>1
  <2>2. Refunded' = Refunded /\ refund \in [Refunds -> SalesRefund]
    BY DEF Refunded, RefundAmounts, CompletedOf, SafetyInv, ReturnsInv, ReturnsTypeOK
  <2>3. \A x \in Returns : Refunded'[x] <= Refunded[x]
    <3>1. \A x \in Returns : Refunded[x] \in Nat
      BY <2>2, RefundedType
    <3> QED
      BY <2>2, <3>1
  <2> QED
    BY <1>1, <1>4, <2>1, <2>3 DEF OwnReturn, Active
<1> QED
  BY <1>1, <1>4, <1>5, <1>7

\* A status write keeps the returns in order.
LEMMA StatusOrderly ==
    ASSUME SafetyInv, Orderly, NEW d \in Clerks, desk[d].op \in {"approve", "process", "cancel"},
           NEW s \in {"APPROVED", "PROCESSED", "CANCELLED"}, SetReturn(d, s), UNCHANGED refund,
           OwnPieces(d), s = "APPROVED" => \A i \in Items : Left(i),
           NEW r, r = desk[d].ret
    PROVE  /\ MayCancel(r)
           /\ \A x \in Returns : ReturnKept(x)'
           /\ NoPieceInTwoReturns'
           /\ \A x \in Returns : sreturn[x].status = "PROCESSED" => sreturn'[x] = sreturn[x]
<1>0. /\ sreturn \in [Returns -> SalesReturn] /\ refund \in [Refunds -> SalesRefund]
      /\ Refunded' = Refunded /\ \A x \in Returns : Refunded[x] \in Nat
  <2>1. sreturn \in [Returns -> SalesReturn] /\ refund \in [Refunds -> SalesRefund]
    BY DEF SafetyInv, ReturnsInv, ReturnsTypeOK
  <2> QED
    BY <2>1, RefundedType DEF Refunded, RefundAmounts, CompletedOf
<1>1. /\ r \in Returns /\ desk[d].lines = sreturn[r].lines
      /\ sreturn'[r].status = s /\ sreturn'[r].lines = sreturn[r].lines
      /\ sreturn'[r].inv = sreturn[r].inv /\ sreturn'[r].amount = sreturn[r].amount
      /\ \A x \in Returns : x # r => sreturn'[x] = sreturn[x]
  BY StatusTouches
<1>2. MayCancel(r)
  <2>1. ReadHolds(desk[d])
    BY DEF Orderly
  <2> QED
    BY <2>1 DEF ReadHolds, MayCancel
<1>3. \A x \in Returns : ReturnKept(x)
  BY DEF Orderly
<1>4. ReturnKept(r)'
  <2>1. PICK v : v = sreturn[r].inv
    OBVIOUS
  <2>2. ASSUME s = "APPROVED", NEW i \in sreturn[r].lines PROVE Held(i, v)'
    <3>1. i \in Items /\ Held(i, v) /\ Left(i)
      BY <1>0, <1>1, <1>2, <1>3, <2>1, <2>2 DEF SalesReturn, ReturnKept
    <3> QED
      BY <3>1, HeldStays
  <2>3. MayCancel(r)' => s = "APPROVED"
    BY <1>1 DEF MayCancel
  <2>4. \A f \in Refunds : refund'[f].status = "NONE" \/ refund'[f].ret # r
    BY <1>1, <1>2, <1>3 DEF ReturnKept, MayCancel
  <2>5. Refunded'[r] <= sreturn'[r].amount
    BY <1>0, <1>1, <1>3 DEF ReturnKept
  <2> QED
    BY <1>1, <2>1, <2>2, <2>3, <2>4, <2>5 DEF ReturnKept, Held, LastMovement, Sale
<1>5. ASSUME NEW x \in Returns, x # r PROVE ReturnKept(x)'
  <2>1. sreturn'[x] = sreturn[x] /\ ReturnKept(x)
    BY <1>1, <1>3, <1>5
  <2>2. ASSUME NEW i \in sreturn[x].lines, MayCancel(x) PROVE Left(i)
    <3>1. i \notin sreturn[r].lines
      BY <1>1, <1>2, <1>5, <2>2 DEF Orderly, NoPieceInTwoReturns, Active, MayCancel
    <3>2. i \in Items
      BY <1>0, <2>2 DEF SalesReturn
    <3> QED
      BY <1>1, <3>1, <3>2 DEF OwnPieces
  <2>3. Refunded'[x] \in Nat /\ Refunded'[x] <= Refunded[x]
    BY <1>0
  <2>4. \A f \in Refunds : \/ refund'[f].status = "NONE"
                           \/ refund[f].status # "NONE" /\ refund'[f].ret = refund[f].ret
    OBVIOUS
  <2>5. refund' \in [Refunds -> SalesRefund]
    BY <1>0
  <2> QED
    BY <1>0, <2>1, <2>2, <2>3, <2>4, <2>5, KeptStays
<1>6. NoPieceInTwoReturns'
  <2>1. \A x \in Returns : sreturn'[x].lines = sreturn[x].lines /\ (Active(x)' => Active(x))
    BY <1>1, <1>2 DEF Active, MayCancel
  <2>2. \A x, y \in Returns : Active(x) /\ Active(y) /\ x # y =>
           sreturn[x].lines \cap sreturn[y].lines = {}
    BY DEF Orderly, NoPieceInTwoReturns
  <2> QED
    BY <2>1, <2>2 DEF NoPieceInTwoReturns
<1>7. \A x \in Returns : sreturn[x].status = "PROCESSED" => sreturn'[x] = sreturn[x]
  BY <1>1, <1>2 DEF MayCancel
<1> QED
  BY <1>2, <1>4, <1>5, <1>6, <1>7

\* createReturn asks for what was sold.
LEMMA ReadForReturnSafe ==
    ASSUME SafetyInv, Remembers, NEW d \in Clerks, NEW v \in Invoices, NEW S \in SUBSET Items,
           ReadForReturn(d, v, S)
    PROVE  History' /\ (~crossed' => Orderly')
<1> DEFINE q == [Free EXCEPT !.op = "request", !.inv = v, !.lines = S,
                             !.branch = invoice[v].branch]
<1>1. q.op = "request" /\ q.inv = v /\ q.lines = S
  BY DEF Free
<1>2. /\ StockKept /\ PosKept /\ UNCHANGED <<sreturn, refund>> /\ desk' = [desk EXCEPT ![d] = q]
      /\ invoice[v].status = "CONFIRMED" /\ S # {} /\ S \subseteq invoice[v].lines
  BY DEF ReadForReturn, Take
<1> HIDE DEF q
<1>3. AskingHolds(q)
  BY <1>1, <1>2 DEF AskingHolds, Covers, SafetyInv, History
<1>4. ReadHolds(q)
  BY <1>1 DEF ReadHolds
<1> QED
  BY <1>2, <1>3, <1>4, LookKeeps

\* What createReturn has found returnable was not taken back since the sale.
LEMMA CheckReturnSafe ==
    ASSUME SafetyInv, Remembers, NEW d \in Clerks, CheckReturn(d)
    PROVE  History' /\ (~crossed' => Orderly')
<1> DEFINE q == [desk[d] EXCEPT !.op = "requestChecked"]
<1>0. desk[d] \in DeskRequest /\ StockTypeOK /\ desk \in [Clerks -> DeskRequest]
  BY DEF SafetyInv, ReturnsInv, ReturnsTypeOK, SalesTypeOK
<1>1. q.op = "requestChecked" /\ q.inv = desk[d].inv /\ q.lines = desk[d].lines
  BY <1>0 DEF DeskRequest
<1>2. /\ StockKept /\ PosKept /\ UNCHANGED <<sreturn, refund>> /\ desk' = [desk EXCEPT ![d] = q]
      /\ desk[d].op = "request"
      /\ \A i \in desk[d].lines : Returnable(i, desk[d].branch)
  BY <1>0 DEF CheckReturn
<1> HIDE DEF q
<1>3. AskingHolds(q) /\ \A i \in q.lines : SoldBy(i, q.inv)
  <2>1. AskingHolds(desk[d])
    BY DEF SafetyInv, History
  <2> QED
    BY <1>1, <1>2, <2>1 DEF AskingHolds
<1>4. ASSUME ~crossed, NEW i \in q.lines
      PROVE  Held(i, q.inv) /\ ~InActiveReturn(i)
  <2>1. i \in Items /\ stock[i] = "SOLD" /\ ~InActiveReturn(i) /\ SoldBy(i, q.inv)
    BY <1>0, <1>1, <1>2, <1>3, <1>4 DEF DeskRequest, Returnable
  <2>2. CameBackWell(i)
    BY <1>4, <2>1 DEF SafetyInv, Orderly
  <2>3. \A n \in 2..Len(ledger[i]) : ledger[i][n].kind # "SALE_RETURN"
    BY <2>1, <2>2 DEF CameBackWell, InActiveReturn
  <2>4. LastMovement(i) = Sale(q.inv)
    BY <1>0, <2>1, <2>3, SaleIsLast DEF SafetyInv, History
  <2> QED
    BY <2>1, <2>4 DEF Held
<1>5. ~crossed => ReadHolds(q)
  BY <1>1, <1>4 DEF ReadHolds
<1> QED
  BY <1>2, <1>3, <1>5, LookKeeps
\* A new return is of pieces no other return has.
LEMMA InsertReturnSafe ==
    ASSUME SafetyInv, Remembers, NEW d \in Clerks, NEW r \in Returns, NEW x \in Deductions,
           InsertReturn(d, r, x)
    PROVE  History' /\ (~crossed' => Orderly')
<1> DEFINE w == [status |-> "REQUESTED", inv |-> desk[d].inv, branch |-> desk[d].branch,
                 lines |-> desk[d].lines, amount |-> Cardinality(desk[d].lines) - x]
<1>0. /\ desk[d] \in DeskRequest /\ sreturn \in [Returns -> SalesReturn]
      /\ refund \in [Refunds -> SalesRefund] /\ StockTypeOK
      /\ \A f \in Refunds : RefundHolds(f)
  BY DEF SafetyInv, ReturnsInv, ReturnsTypeOK, SalesTypeOK, DeskHolds
<1>1. /\ desk[d].op = "requestChecked" /\ sreturn[r].status = "NONE"
      /\ x <= Cardinality(desk[d].lines)
      /\ Done(d) /\ StockKept /\ PosKept /\ UNCHANGED refund
      /\ sreturn' = [sreturn EXCEPT ![r] = w]
  BY DEF InsertReturn
<1>2. /\ w.status = "REQUESTED" /\ w.inv = desk[d].inv /\ w.lines = desk[d].lines
      /\ w.amount = Cardinality(desk[d].lines) - x
  OBVIOUS
<1> HIDE DEF w
<1>3. sreturn'[r] = w /\ \A y \in Returns : y # r => sreturn'[y] = sreturn[y]
  BY <1>0, <1>1
<1>4. \A i \in Items : Left(i)
  BY <1>1 DEF StockKept, stockVars, Left
<1>5. w.amount \in Nat /\ w.amount <= Cardinality(desk[d].lines)
  <2>1. Cardinality(desk[d].lines) \in Nat /\ x \in Nat
    BY <1>0, ReturnsAssumption, FS_Subset, FS_CardinalityType DEF DeskRequest
  <2> QED
    BY <1>1, <1>2, <2>1
<1>6. ASSUME NEW y \in Returns PROVE FormStays(y)
  <2>1. CASE y = r
    <3>1. Covers(desk[d].inv, desk[d].lines)
      BY <1>1 DEF SafetyInv, History, AskingHolds
    <3>2. FormHolds(r)'
      BY <1>1, <1>2, <1>3, <1>5, <3>1 DEF FormHolds, Covers, PosKept
    <3> QED
      BY <2>1, <3>2 DEF FormStays, FormHolds, Covers
  <2>2. CASE y # r
    BY <1>3, <2>2 DEF FormStays
  <2> QED
    BY <2>1, <2>2
<1>7. Refunded' = Refunded /\ \A y \in Returns : Refunded[y] \in Nat
  BY <1>0, <1>1, RefundedType DEF Refunded, RefundAmounts, CompletedOf
<1>8. OwnPieces(d) /\ OwnReturn(d)
  <2>1. \A y \in Returns : Refunded'[y] <= Refunded[y]
    BY <1>7
  <2> QED
    BY <1>1, <1>2, <1>3, <1>4, <2>1 DEF OwnPieces, OwnReturn, Active
<1>9. ASSUME ~crossed
      PROVE  /\ \A y \in Returns : ReturnKept(y)'
             /\ NoPieceInTwoReturns'
             /\ \A i \in Items : CameBackWell(i)'
  <2>0. Orderly /\ ReadHolds(desk[d]) /\ \A y \in Returns : ReturnKept(y)
    BY <1>9 DEF SafetyInv, Orderly
  <2>1. ReturnKept(r)'
    <3>1. PICK v : v = desk[d].inv
      OBVIOUS
    <3>2. ASSUME NEW i \in desk[d].lines PROVE Held(i, v)'
      <4>1. i \in Items /\ Held(i, v) /\ Left(i)
        BY <1>0, <1>1, <1>4, <2>0, <3>1 DEF DeskRequest, ReadHolds
      <4> QED
        BY <4>1, HeldStays
    <3>3. \A f \in Refunds : refund[f].status = "NONE" \/ refund[f].ret # r
      BY <1>0, <1>1 DEF RefundHolds
    <3>4. Refunded[r] = 0
      BY <3>3, NothingRefunded
    <3>5. Refunded'[r] <= sreturn'[r].amount
      BY <1>3, <1>5, <1>7, <3>4
    <3> QED
      BY <1>1, <1>2, <1>3, <3>1, <3>2, <3>3, <3>5 DEF ReturnKept, Held, LastMovement, Sale
  <2>2. ASSUME NEW y \in Returns, y # r PROVE ReturnKept(y)'
    <3>1. sreturn'[y] = sreturn[y] /\ ReturnKept(y) /\ \A i \in sreturn[y].lines : Left(i)
      BY <1>0, <1>3, <1>4, <2>0, <2>2 DEF SalesReturn
    <3>2. Refunded'[y] \in Nat /\ Refunded'[y] <= Refunded[y]
      BY <1>7
    <3>3. refund' = refund
      BY <1>1
    <3> QED
      BY <1>0, <3>1, <3>2, <3>3, KeptStays
  <2>3. NoPieceInTwoReturns'
    <3>1. ASSUME NEW y \in Returns, y # r, Active(y)
          PROVE  sreturn[y].lines \cap desk[d].lines = {}
      BY <1>1, <2>0, <3>1 DEF ReadHolds, InActiveReturn, Active
    <3>2. \A y, z \in Returns : Active(y) /\ Active(z) /\ y # z =>
             sreturn[y].lines \cap sreturn[z].lines = {}
      BY <2>0 DEF Orderly, NoPieceInTwoReturns
    <3>3. \A y \in Returns : y # r /\ Active(y)' => Active(y)
      BY <1>3 DEF Active
    <3> QED
      BY <1>2, <1>3, <3>1, <3>2, <3>3 DEF NoPieceInTwoReturns
  <2>4. ASSUME NEW i \in Items PROVE CameBackWell(i)'
    <3>1. \A y \in Returns : sreturn[y].status = "PROCESSED" => sreturn'[y] = sreturn[y]
      BY <1>1, <1>3
    <3>2. CameBackWell(i) /\ Left(i) /\ Len(ledger[i]) >= 1
      BY <1>4, <2>0 DEF Orderly, SafetyInv, History
    <3> QED
      BY <1>0, <3>1, <3>2, CameBackStays
  <2> QED
    BY <2>1, <2>2, <2>3, <2>4
<1>10. \A i \in Items : PieceStep(i)
  BY <1>4 DEF PieceStep
<1>11. refund' \in [Refunds -> SalesRefund]
  BY <1>0, <1>1
<1> QED
  BY <1>1, <1>6, <1>8, <1>9, <1>10, <1>11, WriteKeeps

\* A request that reads a return finds it as it reads it.
LEMMA ReadReturnSafe ==
    ASSUME SafetyInv, Remembers, NEW d \in Clerks, NEW r \in Returns,
           ReadForApprove(d, r) \/ ReadForProcess(d, r) \/ ReadForCancelReturn(d, r)
    PROVE  History' /\ (~crossed' => Orderly')
<1>1. ASSUME NEW op \in {"approve", "process", "cancel"}, ReadReturn(d, r, op),
             op = "approve" => sreturn[r].status = "REQUESTED",
             op = "process" => sreturn[r].status = "APPROVED",
             op = "cancel" => MayCancel(r)
      PROVE  History' /\ (~crossed' => Orderly')
  <2> DEFINE q == [Free EXCEPT !.op = op, !.ret = r, !.lines = sreturn[r].lines]
  <2>1. q.op = op /\ q.ret = r
    BY DEF Free
  <2>2. StockKept /\ PosKept /\ UNCHANGED <<sreturn, refund>> /\ desk' = [desk EXCEPT ![d] = q]
    BY <1>1 DEF ReadReturn, Take
  <2> HIDE DEF q
  <2>3. AskingHolds(q) /\ ReadHolds(q)
    BY <1>1, <2>1 DEF AskingHolds, ReadHolds
  <2> QED
    BY <2>2, <2>3, LookKeeps
<1>2. CASE ReadForApprove(d, r)
  BY <1>1, <1>2 DEF ReadForApprove
<1>3. CASE ReadForProcess(d, r)
  BY <1>1, <1>3 DEF ReadForProcess
<1>4. CASE ReadForCancelReturn(d, r)
  BY <1>1, <1>4 DEF ReadForCancelReturn
<1> QED
  BY <1>2, <1>3, <1>4

\* createRefund finds room for what it pays back.
LEMMA SumForRefundSafe ==
    ASSUME SafetyInv, Remembers, NEW d \in Clerks, NEW r \in Returns, NEW a \in Amounts,
           SumForRefund(d, r, a)
    PROVE  History' /\ (~crossed' => Orderly')
<1> DEFINE q == [Free EXCEPT !.op = "refund", !.ret = r, !.lines = sreturn[r].lines, !.amount = a]
<1>1. q.op = "refund" /\ q.ret = r /\ q.amount = a
  BY DEF Free
<1>2. /\ StockKept /\ PosKept /\ UNCHANGED <<sreturn, refund>> /\ desk' = [desk EXCEPT ![d] = q]
      /\ Refundable(r, a)
  BY DEF SumForRefund, Take
<1> HIDE DEF q
<1>3. AskingHolds(q) /\ ReadHolds(q)
  BY <1>1, <1>2 DEF AskingHolds, ReadHolds
<1> QED
  BY <1>2, <1>3, LookKeeps

\* Reading a refund, or giving up, changes nothing the others rely on.
LEMMA ReadForReverseSafe ==
    ASSUME SafetyInv, Remembers, NEW d \in Clerks, NEW f \in Refunds, ReadForReverse(d, f)
    PROVE  History' /\ (~crossed' => Orderly')
<1> DEFINE q == [Free EXCEPT !.op = "reverse", !.refund = f,
                             !.lines = sreturn[refund[f].ret].lines]
<1>1. q.op = "reverse"
  BY DEF Free
<1>2. StockKept /\ PosKept /\ UNCHANGED <<sreturn, refund>> /\ desk' = [desk EXCEPT ![d] = q]
  BY DEF ReadForReverse, Take
<1> HIDE DEF q
<1>3. AskingHolds(q) /\ ReadHolds(q)
  BY <1>1 DEF AskingHolds, ReadHolds
<1> QED
  BY <1>2, <1>3, LookKeeps

\* The handler throws.
LEMMA DeskFailSafe ==
    ASSUME SafetyInv, Remembers, NEW d \in Clerks, DeskFail(d)
    PROVE  History' /\ (~crossed' => Orderly')
<1>1. StockKept /\ PosKept /\ UNCHANGED <<sreturn, refund>> /\ desk' = [desk EXCEPT ![d] = Free]
  BY DEF DeskFail, Done
<1>2. AskingHolds(Free) /\ ReadHolds(Free)
  BY DEF AskingHolds, ReadHolds, Free
<1> QED
  BY <1>1, <1>2, LookKeeps

\* approveReturn and cancelReturn write the status they have tested.
LEMMA SettleReturnSafe ==
    ASSUME SafetyInv, Remembers, NEW d \in Clerks, ApproveReturn(d) \/ CancelReturn(d),
           refund' \in [Refunds -> SalesRefund]
    PROVE  History' /\ (~crossed' => Orderly')
<1>1. PICK s \in {"APPROVED", "CANCELLED"} :
         /\ desk[d].op \in {"approve", "process", "cancel"}
         /\ SetReturn(d, s) /\ Done(d) /\ StockKept /\ PosKept /\ UNCHANGED refund
  BY DEF ApproveReturn, CancelReturn
<1>2. PICK r : r = desk[d].ret
  OBVIOUS
<1>3. \A i \in Items : Left(i) /\ PieceStep(i)
  BY <1>1 DEF StockKept, stockVars, Left, PieceStep
<1>4. OwnPieces(d) /\ (\A x \in Returns : FormStays(x)) /\ OwnReturn(d)
  BY <1>1, <1>2, <1>3, StatusTouches DEF OwnPieces
<1>5. ASSUME ~crossed
      PROVE  /\ \A y \in Returns : ReturnKept(y)'
             /\ NoPieceInTwoReturns'
             /\ \A i \in Items : CameBackWell(i)'
  <2>0. Orderly
    BY <1>5 DEF SafetyInv
  <2>1. /\ \A y \in Returns : ReturnKept(y)'
        /\ NoPieceInTwoReturns'
        /\ \A x \in Returns : sreturn[x].status = "PROCESSED" => sreturn'[x] = sreturn[x]
    BY <1>1, <1>2, <1>3, <1>4, <2>0, StatusOrderly
  <2>2. ASSUME NEW i \in Items PROVE CameBackWell(i)'
    <3>1. CameBackWell(i) /\ Left(i) /\ Len(ledger[i]) >= 1 /\ StockTypeOK
      BY <1>3, <2>0 DEF Orderly, SafetyInv, History, ReturnsInv, ReturnsTypeOK, SalesTypeOK
    <3> QED
      BY <2>1, <3>1, CameBackStays
  <2> QED
    BY <2>1, <2>2
<1> QED
  BY <1>1, <1>3, <1>4, <1>5, WriteKeeps

\* processReturn takes back what the invoice of the return has sold.
LEMMA ProcessReturnSafe ==
    ASSUME SafetyInv, Remembers, NEW d \in Clerks, ProcessReturn(d),
           refund' \in [Refunds -> SalesRefund]
    PROVE  History' /\ (~crossed' => Orderly')
<1>1. PICK r : r = desk[d].ret
  OBVIOUS
<1>2. /\ desk[d].op \in {"approve", "process", "cancel"}
      /\ SetReturn(d, "PROCESSED") /\ Done(d) /\ PosKept /\ UNCHANGED refund
      /\ Claim(desk[d].lines, sreturn[r].branch, "SOLD", "AVAILABLE")
      /\ Book(desk[d].lines, "SALE_RETURN", r)
  BY <1>1 DEF ProcessReturn
<1>3. /\ r \in Returns /\ desk[d].lines = sreturn[r].lines
      /\ sreturn'[r].status = "PROCESSED" /\ sreturn'[r].lines = sreturn[r].lines
      /\ sreturn'[r].inv = sreturn[r].inv
      /\ \A x \in Returns : FormStays(x)
      /\ OwnReturn(d)
  BY <1>1, <1>2, StatusTouches
<1>4. StockTypeOK /\ sreturn[r].lines \in SUBSET Items /\ r \in Documents
  BY <1>3, ReturnsAssumption DEF SafetyInv, ReturnsInv, ReturnsTypeOK, SalesTypeOK, SalesReturn
<1>5. Moves(desk[d].lines, "SOLD", "AVAILABLE", "SALE_RETURN", r)
  BY <1>2, <1>3, <1>4, ClaimAndBook DEF StockStatus, MovementType
<1>6. \A i \in Items : IF i \in desk[d].lines THEN BackNow(i, r) ELSE Left(i)
  BY <1>5 DEF Moves, BackNow, Left
<1>7. OwnPieces(d) /\ \A i \in Items : PieceStep(i)
  BY <1>3, <1>6 DEF OwnPieces, PieceStep
<1>8. ASSUME ~crossed
      PROVE  /\ \A y \in Returns : ReturnKept(y)'
             /\ NoPieceInTwoReturns'
             /\ \A i \in Items : CameBackWell(i)'
  <2>0. Orderly
    BY <1>8 DEF SafetyInv
  <2>1. /\ MayCancel(r)
        /\ \A y \in Returns : ReturnKept(y)'
        /\ NoPieceInTwoReturns'
        /\ \A x \in Returns : sreturn[x].status = "PROCESSED" => sreturn'[x] = sreturn[x]
    BY <1>1, <1>2, <1>7, <2>0, StatusOrderly
  <2>2. ASSUME NEW i \in Items PROVE CameBackWell(i)'
    <3>1. CameBackWell(i) /\ Len(ledger[i]) >= 1
      BY <2>0 DEF Orderly, SafetyInv, History
    <3>2. CASE i \in desk[d].lines
      <4>1. BackNow(i, r) /\ Held(i, sreturn[r].inv)
        BY <1>3, <1>6, <2>0, <2>1, <3>2 DEF Orderly, ReturnKept
      <4>2. BackWell(i, r)
        BY <1>3, <3>2, <4>1 DEF BackWell, Held
      <4> QED
        BY <1>3, <1>4, <2>1, <3>1, <4>1, <4>2, CameBackStays
    <3>3. CASE i \notin desk[d].lines
      BY <1>4, <1>6, <2>1, <3>1, <3>3, CameBackStays
    <3> QED
      BY <3>2, <3>3
  <2> QED
    BY <2>1, <2>2
<1> QED
  BY <1>2, <1>3, <1>7, <1>8, WriteKeeps
\* createRefund pays back what its return has left.
LEMMA InsertRefundSafe ==
    ASSUME SafetyInv, Remembers, NEW d \in Clerks, NEW f \in Refunds, InsertRefund(d, f),
           refund' \in [Refunds -> SalesRefund]
    PROVE  History' /\ (~crossed' => Orderly')
<1>0. /\ desk[d] \in DeskRequest /\ sreturn \in [Returns -> SalesReturn]
      /\ refund \in [Refunds -> SalesRefund] /\ StockTypeOK
      /\ RequestHolds(desk[d])
  BY DEF SafetyInv, ReturnsInv, ReturnsTypeOK, SalesTypeOK, DeskHolds
<1>1. /\ desk[d].op = "refund" /\ refund[f].status = "NONE"
      /\ Done(d) /\ StockKept /\ PosKept /\ UNCHANGED sreturn
  BY DEF InsertRefund
<1>2. PICK r \in Returns : r = desk[d].ret
  BY <1>0, <1>1 DEF RequestHolds
<1>3. desk[d].lines = sreturn[r].lines /\ sreturn[r].status # "NONE"
  BY <1>0, <1>1, <1>2 DEF RequestHolds
<1>4. PICK a \in Nat : a = desk[d].amount
  BY <1>0 DEF DeskRequest
<1>5. refund' = [refund EXCEPT ![f] = [status |-> "COMPLETED", ret |-> r, amount |-> a]]
  BY <1>2, <1>4 DEF InsertRefund
<1>6. /\ refund'[f].status = "COMPLETED" /\ refund'[f].ret = r
      /\ \A g \in Refunds : g # f => refund'[g] = refund[g]
  BY <1>0, <1>5
<1>7. /\ Refunded'[r] = Refunded[r] + a
      /\ \A x \in Returns : x # r => Refunded'[x] = Refunded[x]
      /\ \A x \in Returns : Refunded[x] \in Nat
  BY <1>0, <1>1, <1>5, RefundAdds, RefundedType
<1>8. \A i \in Items : Left(i) /\ PieceStep(i)
  BY <1>1 DEF StockKept, stockVars, Left, PieceStep
<1>9. \A x \in Returns : FormStays(x)
  BY <1>1 DEF FormStays
<1>10. OwnPieces(d) /\ OwnReturn(d)
  <2>1. sreturn[r].lines # {}
    BY <1>3 DEF SafetyInv, History, FormHolds, Covers
  <2>2. ASSUME NEW x \in Returns, sreturn[x].lines \cap desk[d].lines = {} PROVE x # r
    BY <1>3, <2>1, <2>2
  <2>3. \A x \in Returns : x # r => Refunded'[x] <= Refunded[x]
    BY <1>7
  <2> QED
    BY <1>1, <1>8, <2>2, <2>3 DEF OwnPieces, OwnReturn, Active
<1>11. ASSUME ~crossed
       PROVE  /\ \A y \in Returns : ReturnKept(y)'
              /\ NoPieceInTwoReturns'
              /\ \A i \in Items : CameBackWell(i)'
  <2>0. Orderly /\ ReadHolds(desk[d]) /\ \A y \in Returns : ReturnKept(y)
    BY <1>11 DEF SafetyInv, Orderly
  <2>1. sreturn[r].status = "PROCESSED" /\ a + Refunded[r] <= sreturn[r].amount
    BY <1>1, <1>2, <1>4, <2>0 DEF ReadHolds, Refundable
  <2>2. ReturnKept(r)'
    <3>1. sreturn[r].amount \in Nat
      BY <1>0 DEF SalesReturn
    <3>2. Refunded'[r] <= sreturn'[r].amount
      BY <1>1, <1>7, <2>1, <3>1
    <3> QED
      BY <1>1, <2>1, <3>2 DEF ReturnKept, MayCancel
  <2>3. ASSUME NEW y \in Returns, y # r PROVE ReturnKept(y)'
    <3>1. sreturn'[y] = sreturn[y] /\ ReturnKept(y) /\ \A i \in sreturn[y].lines : Left(i)
      BY <1>0, <1>1, <1>8, <2>0 DEF SalesReturn
    <3>2. Refunded'[y] \in Nat /\ Refunded'[y] <= Refunded[y]
      BY <1>7, <2>3
    <3>3. \A g \in Refunds : \/ refund'[g].ret # y \/ refund'[g].status = "NONE"
                             \/ refund[g].status # "NONE" /\ refund'[g].ret = refund[g].ret
      BY <1>6, <2>3
    <3> QED
      BY <1>0, <3>1, <3>2, <3>3, KeptStays
  <2>4. NoPieceInTwoReturns'
    BY <1>1, <2>0 DEF Orderly, NoPieceInTwoReturns, Active
  <2>5. ASSUME NEW i \in Items PROVE CameBackWell(i)'
    <3>1. CameBackWell(i) /\ Left(i) /\ Len(ledger[i]) >= 1
      BY <1>8, <2>0 DEF Orderly, SafetyInv, History
    <3> QED
      BY <1>0, <1>1, <3>1, CameBackStays
  <2> QED
    BY <2>2, <2>3, <2>4, <2>5
<1> QED
  BY <1>1, <1>8, <1>9, <1>10, <1>11, WriteKeeps

\* reverseRefund takes a refund away.
LEMMA ReverseRefundSafe ==
    ASSUME SafetyInv, Remembers, NEW d \in Clerks, ReverseRefund(d),
           refund' \in [Refunds -> SalesRefund]
    PROVE  History' /\ (~crossed' => Orderly')
<1>0. /\ sreturn \in [Returns -> SalesReturn]
      /\ refund \in [Refunds -> SalesRefund] /\ StockTypeOK
      /\ RequestHolds(desk[d])
  BY DEF SafetyInv, ReturnsInv, ReturnsTypeOK, SalesTypeOK, DeskHolds
<1>1. /\ desk[d].op = "reverse" /\ Done(d) /\ StockKept /\ PosKept /\ UNCHANGED sreturn
  BY DEF ReverseRefund
<1>2. PICK f \in Refunds : f = desk[d].refund /\ refund[f].status # "NONE"
  BY <1>0, <1>1 DEF RequestHolds
<1>3. refund' = [refund EXCEPT ![f].status = "REVERSED"]
  BY <1>2 DEF ReverseRefund
<1>4. \A g \in Refunds : /\ refund'[g].ret = refund[g].ret
                         /\ refund'[g].status = "NONE" \/ refund[g].status # "NONE"
  BY <1>0, <1>2, <1>3 DEF SalesRefund
<1>5. \A x \in Returns : Refunded'[x] <= Refunded[x]
  BY <1>0, <1>3, ReverseTakes
<1>6. \A x \in Returns : Refunded'[x] \in Nat
  <2>1. ASSUME NEW x \in Returns
        PROVE  SumFunctionOnSet(RefundAmounts', CompletedOf(x)') \in Nat
    <3>1. \A g \in Refunds : RefundAmounts'[g] \in Nat
      BY DEF RefundAmounts, SalesRefund
    <3>2. IsFiniteSet(CompletedOf(x)') /\ \A g \in CompletedOf(x)' : RefundAmounts'[g] \in Nat
      BY <3>1, ReturnsAssumption, FS_Subset DEF CompletedOf
    <3> QED
      BY <3>2, SumNat
  <2> QED
    BY <2>1 DEF Refunded
<1>7. \A i \in Items : Left(i) /\ PieceStep(i)
  BY <1>1 DEF StockKept, stockVars, Left, PieceStep
<1>8. \A x \in Returns : FormStays(x)
  BY <1>1 DEF FormStays
<1>9. OwnPieces(d) /\ OwnReturn(d)
  BY <1>1, <1>5, <1>7 DEF OwnPieces, OwnReturn, Active
<1>10. ASSUME ~crossed
       PROVE  /\ \A y \in Returns : ReturnKept(y)'
              /\ NoPieceInTwoReturns'
              /\ \A i \in Items : CameBackWell(i)'
  <2>0. Orderly /\ \A y \in Returns : ReturnKept(y)
    BY <1>10 DEF SafetyInv, Orderly
  <2>1. ASSUME NEW y \in Returns PROVE ReturnKept(y)'
    <3>1. sreturn'[y] = sreturn[y] /\ ReturnKept(y) /\ \A i \in sreturn[y].lines : Left(i)
      BY <1>0, <1>1, <1>7, <2>0 DEF SalesReturn
    <3> QED
      BY <1>0, <1>4, <1>5, <1>6, <3>1, KeptStays
  <2>2. NoPieceInTwoReturns'
    BY <1>1, <2>0 DEF Orderly, NoPieceInTwoReturns, Active
  <2>3. ASSUME NEW i \in Items PROVE CameBackWell(i)'
    <3>1. CameBackWell(i) /\ Left(i) /\ Len(ledger[i]) >= 1
      BY <1>7, <2>0 DEF Orderly, SafetyInv, History
    <3> QED
      BY <1>0, <1>1, <3>1, CameBackStays
  <2> QED
    BY <2>1, <2>2, <2>3
<1> QED
  BY <1>1, <1>7, <1>8, <1>9, <1>10, WriteKeeps

\* So every step of the desk keeps the history, and order while there is any.
LEMMA DeskSafe ==
    ASSUME SafetyInv, Remembers, DeskNext, refund' \in [Refunds -> SalesRefund]
    PROVE  History' /\ (~crossed' => Orderly')
BY ReadForReturnSafe, CheckReturnSafe, InsertReturnSafe, ReadReturnSafe, SumForRefundSafe,
   ReadForReverseSafe, DeskFailSafe, SettleReturnSafe, ProcessReturnSafe, InsertRefundSafe,
   ReverseRefundSafe
   DEF DeskNext

\* So does every step of the POS counter: it sells pieces that are on the
\* shelf, and the desk is about pieces that are not.
LEMMA PosSafe ==
    ASSUME SafetyInv, Remembers, SalesNext, UNCHANGED <<sreturn, refund, desk>>
    PROVE  History' /\ (~crossed' => Orderly')
<1>0. /\ SalesTypeInv /\ StockTypeOK /\ sreturn \in [Returns -> SalesReturn]
      /\ desk \in [Clerks -> DeskRequest]
  BY DEF SafetyInv, ReturnsInv, ReturnsTypeOK, SalesTypeOK
<1>1. ASSUME NEW c \in Calls, Sells(c)
      PROVE  /\ \A i \in Items : i \in invoice[call[c].doc].lines \/ Left(i)
             /\ \A i \in invoice[call[c].doc].lines : SoldNow(i, call[c].doc)
  BY <1>1 DEF Sells, Moves, SoldNow, Sale, Left
<1>2. ASSUME NEW i \in Items PROVE Left(i) \/ \E v \in Invoices : SoldNow(i, v)
  BY <1>0, <1>1, SalesStockStep DEF Left, Sells
<1>3. \A i \in Items : PieceStep(i)
  BY <1>2 DEF PieceStep
<1>4. \A v \in Invoices : InvoiceStays(v)
  BY <1>0, <1>1, SalesKeepsInvoices DEF InvoiceKept, InvoiceStays
<1>5. (\A r \in Returns : FormStays(r)) /\ \A d \in Clerks : AskingStays(d)
  BY DEF FormStays, AskingStays
<1>6. History'
  BY <1>3, <1>4, <1>5, HistoryStays DEF SafetyInv
<1>7. ASSUME ~crossed' PROVE Orderly'
  <2>1. ~crossed /\ ~MeetOnAPiece' /\ Orderly
    BY <1>7 DEF Remembers, SafetyInv
  <2>2. ASSUME NEW i \in Items, NEW v, Held(i, v) PROVE Held(i, v)'
    <3>1. Left(i)
      BY <1>2, <2>2 DEF Held, SoldNow
    <3> QED
      BY <2>2, <3>1, HeldStays
  <2>3. ASSUME NEW e \in Clerks PROVE ReadHolds(desk[e])'
    <3>1. ReadHolds(desk[e]) /\ desk[e].lines \in SUBSET Items
      BY <1>0, <2>1 DEF Orderly, DeskRequest
    <3>2. PICK v : v = desk[e].inv
      OBVIOUS
    <3>3. desk[e].op = "requestChecked" => \A i \in desk[e].lines : Held(i, v)'
      BY <2>2, <3>1, <3>2 DEF ReadHolds
    <3> QED
      BY <3>1, <3>2, <3>3 DEF ReadHolds, Held, LastMovement, Sale, InActiveReturn, MayCancel,
                              Refundable, Refunded, RefundAmounts, CompletedOf
  <2>4. ASSUME NEW r \in Returns PROVE ReturnKept(r)'
    <3>1. ReturnKept(r) /\ sreturn[r].lines \in SUBSET Items
      BY <1>0, <2>1 DEF Orderly, SalesReturn
    <3>2. PICK v : v = sreturn[r].inv
      OBVIOUS
    <3>3. MayCancel(r) => \A i \in sreturn[r].lines : Held(i, v)'
      BY <2>2, <3>1, <3>2 DEF ReturnKept
    <3> QED
      BY <3>1, <3>2, <3>3 DEF ReturnKept, MayCancel, Held, LastMovement, Sale,
                              Refunded, RefundAmounts, CompletedOf
  <2>5. NoPieceInTwoReturns'
    BY <2>1 DEF Orderly, NoPieceInTwoReturns, Active
  <2>6. ASSUME NEW i \in Items PROVE CameBackWell(i)'
    <3>1. CameBackWell(i) /\ Len(ledger[i]) >= 1
      BY <2>1 DEF Orderly, SafetyInv, History
    <3> QED
      BY <1>0, <1>2, <3>1, CameBackStays
  <2> QED
    BY <2>1, <2>3, <2>4, <2>5, <2>6 DEF Orderly
<1> QED
  BY <1>6, <1>7
-----------------------------------------------------------------------------
(* The safety of the desk.                                                 *)

\* The shop opens with no return, and nobody at the desk.
LEMMA SafetyInit == ASSUME ReturnsInit PROVE SafetyInv
<1>0. /\ StockInit /\ \A v \in Invoices : invoice[v] = NoInvoice
      /\ \A r \in Returns : /\ sreturn[r].status = "NONE" /\ sreturn[r].amount = 0
      /\ \A f \in Refunds : refund[f].status = "NONE"
      /\ \A d \in Clerks : desk[d] = Free
  BY DEF ReturnsInit, SalesInit
<1>1. NoInvoice.status = "NONE" /\ Free.op = "free" /\ Free.lines = {}
  BY DEF NoInvoice, Free
<1>2. LedgerIsCustodyHistory /\ \A i \in Items : Len(ledger[i]) = 1
  BY <1>0, ChainBegins
<1>3. History
  <2>1. 1 >= 1
    OBVIOUS
  <2>2. \A i \in Items : Len(ledger[i]) >= 1
    BY <1>2, <2>1, Zenon
  <2> QED
    BY <1>0, <1>1, <1>2, <2>2 DEF History, FormHolds, AskingHolds
<1>4. Orderly
  <2>1. ~MeetOnAPiece
    BY <1>0, <1>1 DEF MeetOnAPiece
  <2>2. \A d \in Clerks : ReadHolds(desk[d])
    BY <1>0, <1>1 DEF ReadHolds
  <2>3. ASSUME NEW r \in Returns PROVE ReturnKept(r)
    <3>1. Refunded[r] = 0
      BY <1>0, NothingRefunded
    <3> QED
      BY <1>0, <3>1 DEF ReturnKept, MayCancel
  <2>4. NoPieceInTwoReturns
    BY <1>0 DEF NoPieceInTwoReturns, Active
  <2>5. ASSUME NEW i \in Items PROVE CameBackWell(i)
    <3>1. 2..1 = {}
      OBVIOUS
    <3>2. 2..Len(ledger[i]) = {}
      BY <1>2, <3>1, Zenon
    <3> QED
      BY <3>2 DEF CameBackWell
  <2> QED
    BY <2>1, <2>2, <2>3, <2>4, <2>5 DEF Orderly
<1> QED
  BY <1>3, <1>4, ReturnsInvInit DEF SafetyInv

\* Every step of the shop keeps it.
LEMMA SafetyStep ==
    ASSUME SafetyInv, [ReturnsNext]_returnVars
    PROVE  SafetyInv'
<1>1. ReturnsInv'
  BY ReturnsInvStep DEF SafetyInv
<1>2. refund' \in [Refunds -> SalesRefund]
  BY <1>1 DEF ReturnsInv, ReturnsTypeOK
<1>3. CASE ReturnsNext
  <2>1. Remembers
    BY <1>3 DEF ReturnsNext, Remembers
  <2> QED
    BY <1>1, <1>2, <1>3, <2>1, DeskSafe, PosSafe DEF ReturnsNext, SafetyInv
<1>4. CASE UNCHANGED returnVars
  <2>1. StockKept /\ PosKept /\ UNCHANGED <<sreturn, refund, desk, crossed>>
    BY <1>4 DEF returnVars, salesVars, StockKept, stockVars, PosKept
  <2>2. History'
    <3>1. \A i \in Items : PieceStep(i)
      BY <2>1 DEF StockKept, stockVars, PieceStep, Left
    <3>2. \A v \in Invoices : InvoiceStays(v)
      BY <2>1 DEF PosKept, InvoiceStays
    <3>3. (\A r \in Returns : FormStays(r)) /\ \A d \in Clerks : AskingStays(d)
      BY <2>1 DEF FormStays, AskingStays
    <3> QED
      BY <3>1, <3>2, <3>3, HistoryStays DEF SafetyInv
  <2>3. ASSUME ~crossed PROVE Orderly'
    <3> USE <2>1 DEF StockKept, stockVars, PosKept
    <3>0. Orderly
      BY <2>3 DEF SafetyInv
    <3>1. ~MeetOnAPiece'
      BY <3>0 DEF Orderly, MeetOnAPiece
    <3>2. ASSUME NEW d \in Clerks PROVE ReadHolds(desk[d])'
      <4>1. ReadHolds(desk[d])
        BY <3>0 DEF Orderly
      <4> QED
        BY <4>1 DEF ReadHolds, Held, LastMovement, Sale, InActiveReturn, MayCancel, Refundable,
                    Refunded, RefundAmounts, CompletedOf
    <3>3. ASSUME NEW r \in Returns PROVE ReturnKept(r)'
      <4>1. ReturnKept(r)
        BY <3>0 DEF Orderly
      <4> QED
        BY <4>1 DEF ReturnKept, MayCancel, Held, LastMovement, Sale,
                    Refunded, RefundAmounts, CompletedOf
    <3>4. NoPieceInTwoReturns'
      BY <3>0 DEF Orderly, NoPieceInTwoReturns, Active
    <3>5. ASSUME NEW i \in Items PROVE CameBackWell(i)'
      <4>1. CameBackWell(i)
        BY <3>0 DEF Orderly
      <4> QED
        BY <4>1 DEF CameBackWell, Sale
    <3> QED
      BY <3>1, <3>2, <3>3, <3>4, <3>5 DEF Orderly
  <2> QED
    BY <1>1, <2>1, <2>2, <2>3 DEF SafetyInv
<1> QED
  BY <1>3, <1>4

\* Unless two requests of the desk have met on a piece, what came back came
\* back right after the sale its return is for, and not after a later one:
\* createReturn finds a piece SOLD and in no return, and the chain of custody
\* leaves only a SALE_RETURN after a SALE.
THEOREM ReturnsUndoSales == ReturnsSpec => []ReturnsUndoTheirSale
<1>1. SafetyInv => ReturnsUndoTheirSale
  BY DEF SafetyInv, Orderly, CameBackWell, Sale, ReturnsUndoTheirSale
<1> QED
  BY <1>1, SafetyInit, SafetyStep, PTL DEF ReturnsSpec

\* In an orderly shop the refunds of an invoice are worth no more than its
\* lines: each is within its return, and no line is in two active returns.
LEMMA RefundsFit ==
    ASSUME SafetyInv, ~crossed, NEW v \in Invoices
    PROVE  SumFunctionOnSet(Refunded, {r \in Returns : sreturn[r].inv = v})
               <= Cardinality(invoice[v].lines)
<1> DEFINE S == {r \in Returns : sreturn[r].inv = v}
           part == [r \in Returns |-> IF sreturn[r].status = "PROCESSED"
                                      THEN sreturn[r].lines ELSE {}]
<1>0. /\ sreturn \in [Returns -> SalesReturn] /\ refund \in [Refunds -> SalesRefund]
      /\ invoice[v].lines \in SUBSET Items /\ Orderly /\ History
  BY DEF SafetyInv, ReturnsInv, ReturnsTypeOK, SalesTypeOK, Invoice
<1>1. IsFiniteSet(S) /\ IsFiniteSet(invoice[v].lines)
  BY <1>0, ReturnsAssumption, FS_Subset
<1>2. ASSUME NEW r \in S
      PROVE  /\ part[r] \subseteq invoice[v].lines
             /\ Refunded[r] \in Nat /\ Refunded[r] <= Cardinality(part[r])
  <2>1. r \in Returns /\ sreturn[r].inv = v /\ Refunded[r] \in Nat /\ ReturnKept(r) /\ FormHolds(r)
    BY <1>0, RefundedType DEF Orderly, History
  <2>2. CASE sreturn[r].status = "PROCESSED"
    <3>1. /\ part[r] = sreturn[r].lines /\ sreturn[r].lines \subseteq invoice[v].lines
          /\ sreturn[r].amount <= Cardinality(sreturn[r].lines)
          /\ Refunded[r] <= sreturn[r].amount
      BY <2>1, <2>2 DEF FormHolds, Covers, ReturnKept
    <3>2. sreturn[r].amount \in Nat /\ Cardinality(sreturn[r].lines) \in Nat
      <4>1. IsFiniteSet(sreturn[r].lines)
        BY <1>1, <3>1, FS_Subset
      <4> QED
        BY <1>0, <2>1, <4>1, FS_CardinalityType DEF SalesReturn
    <3> HIDE DEF part
    <3> QED
      BY <2>1, <3>1, <3>2
  <2>3. CASE sreturn[r].status # "PROCESSED"
    <3>1. part[r] = {} /\ Refunded[r] = 0
      BY <2>1, <2>3, NothingRefunded DEF ReturnKept
    <3>2. Cardinality({}) = 0
      BY FS_EmptySet
    <3> HIDE DEF part
    <3> QED
      BY <3>1, <3>2
  <2> QED
    BY <2>2, <2>3
<1>3. \A r, s \in S : r # s => part[r] \cap part[s] = {}
  BY <1>0 DEF Orderly, NoPieceInTwoReturns, Active
<1> HIDE DEF S, part
<1>4. SumFunctionOnSet(Refunded, S) <= Cardinality(invoice[v].lines)
  BY <1>1, <1>2, <1>3, SumWithin
<1> QED
  BY <1>4 DEF S

\* Unless two requests of the desk have met on a piece, no more is refunded
\* on an invoice, over all of its returns, than its lines are worth.
THEOREM RefundsStayWithinSale == ReturnsSpec => []NeverRefundedTwice
<1>1. SafetyInv => NeverRefundedTwice
  BY RefundsFit DEF NeverRefundedTwice
<1> QED
  BY <1>1, SafetyInit, SafetyStep, PTL DEF ReturnsSpec
=============================================================================
