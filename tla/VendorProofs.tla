---------------------------- MODULE VendorProofs ----------------------------
(***************************************************************************)
(* Proofs about buying, for an order of any quantity, any number of bills, *)
(* payments, returns and overlapping requests, and without the bound of    *)
(* Next.  What is proved is about an order and bills on which no two       *)
(* requests have met: while one request has a bill in hand, what it has    *)
(* read of it stays true, and what the order can still take is what the    *)
(* one request that has the order in hand has been promised.               *)
(***************************************************************************)
EXTENDS VendorBills, SumTheorems

Moving == {"SUBMITTED", "APPROVED", "CANCELLED"}
Payable == {"APPROVED", "PARTIALLY_PAID", "PAID"}

There(b) == b \in Bills /\ bill[b].status # "NONE"

\* A payment refers to a bill, as its foreign key says.
RowsOK == \A p \in Payments : payment[p].status # "NONE" => There(payment[p].bill)

\* What a request knows whatever the others do.
Holds(r) ==
    /\ r.op = "idle" => r.doc = None
    /\ r.op \in {"idle", "receive", "bill", "pay"} \cup Moving => r.on = None
    /\ r.op \in {"receive", "bill"} => r.doc = Order
    /\ r.op \in {"bill", "edit", "pay"} => r.n > 0
    /\ r.op = "edit" => There(r.doc) /\ r.on = Order
    /\ r.op = "pay" => There(r.doc)
    /\ r.op \in {"reverse", "summed"} => /\ r.doc \in Payments /\ payment[r.doc].status # "NONE"
                                         /\ r.on = payment[r.doc].bill
    /\ r.op \in {"debit", "noted"} => /\ r.doc \in Returns /\ r.on = vreturn[r.doc].bill
                                      /\ There(r.on)
    /\ r.op = "noted" => r.doc \notin notes
    /\ r.op \in Moving => There(r.doc) \/ (r.doc = Order /\ r.op = "CANCELLED")

\* The unique index on the debit notes lets one transaction through.
NotedOnce ==
    \A c, d \in Clerks :
        slot[c].op = "noted" /\ slot[d].op = "noted" /\ slot[c].doc = slot[d].doc => c = d

\* A request has a document in hand.
On(r, d) == r.doc = d \/ r.on = d

Alone(d) == \A c, e \in Clerks : On(slot[c], d) /\ On(slot[e], d) => c = e

Unpaid(b) == bill[b].qty - Completed(b, {})

\* BillFollowsPayments, of one bill, and that a bill is paid only when it is due.
Books(b) ==
    /\ bill[b].paid = Completed(b, {}) /\ Unpaid(b) >= 0
    /\ Unpaid(b) - Debited(b) <= bill[b].owed /\ bill[b].owed <= Unpaid(b)
    /\ bill[b].status \in {"PARTIALLY_PAID", "PAID"} =>
           bill[b].status = StatusFor(bill[b].paid, bill[b].qty)
    /\ CompletedOf(b) # {} => bill[b].status \in Payable

\* What a request has read of the bill b that nobody else has in hand.
Mine(r, b) ==
    /\ r.op = "pay" => /\ bill[b].status \in {"APPROVED", "PARTIALLY_PAID"}
                       /\ r.read = Completed(b, {}) /\ r.n <= bill[b].qty - r.read
    /\ r.op \in {"reverse", "summed"} => r.doc \in CompletedOf(b)
    /\ r.op = "summed" => r.read = Completed(b, {r.doc})
    /\ r.op = "noted" => r.read = bill[b].owed
    /\ r.op = "edit" => bill[b].status = "DRAFT"
    /\ r.op \in Moving => bill[b].status \in From(b, r.op)

\* What it has been promised of the order.
Asked(r) ==
    /\ r.op = "receive" => r.n <= Ordered - order.received
    /\ r.op = "bill" => r.n <= order.received - Billed(Bills)
    /\ r.op = "edit" => r.n <= order.received - Billed(Bills \ {r.doc})

Supplied == Billed(Bills) <= order.received /\ order.received <= Ordered

VendorInv ==
    /\ VendorTypeOK /\ RowsOK /\ NotedOnce
    /\ \A c \in Clerks : Holds(slot[c])
    /\ \A d \in ({Order} \cup Bills) \ met : Alone(d)
    /\ \A b \in Bills \ met :
          Books(b) /\ \A c \in Clerks : On(slot[c], b) => Mine(slot[c], b)
    /\ met = {} => Supplied /\ \A c \in Clerks : Asked(slot[c])

Meets == met' = met \cup Meetings'

-----------------------------------------------------------------------------
(* The sums.                                                               *)

LEMMA SumsAreNumbers ==
    ASSUME VendorTypeOK
    PROVE  /\ \A S \in SUBSET Bills : IsFiniteSet(S) /\ SumFunctionOnSet(QuantityOf, S) \in Nat
           /\ \A S \in SUBSET Payments : IsFiniteSet(S) /\ SumFunctionOnSet(AmountOf, S) \in Nat
           /\ \A S \in SUBSET Returns : IsFiniteSet(S) /\ SumFunctionOnSet(WorthOf, S) \in Nat
<1>1. /\ \A S \in SUBSET Bills : IsFiniteSet(S)
      /\ \A S \in SUBSET Payments : IsFiniteSet(S)
      /\ \A S \in SUBSET Returns : IsFiniteSet(S)
  BY VendorAssumption, FS_Subset
<1>2. \A b \in Bills : QuantityOf[b] \in Nat
  BY DEF VendorTypeOK, Bill, QuantityOf
<1>3. \A p \in Payments : AmountOf[p] \in Nat
  BY DEF VendorTypeOK, VendorPayment, AmountOf
<1>4. \A r \in Returns : WorthOf[r] \in Nat
  BY VendorAssumption DEF VendorTypeOK, WorthOf
<1>5. \A S \in SUBSET Bills : SumFunctionOnSet(QuantityOf, S) \in Nat
  BY <1>1, <1>2, SumNat
<1>6. \A S \in SUBSET Payments : SumFunctionOnSet(AmountOf, S) \in Nat
  BY <1>1, <1>3, SumNat
<1>7. \A S \in SUBSET Returns : SumFunctionOnSet(WorthOf, S) \in Nat
  BY <1>1, <1>4, SumNat
<1> QED
  BY <1>1, <1>5, <1>6, <1>7

LEMMA TotalsAreNumbers ==
    ASSUME VendorTypeOK
    PROVE  /\ \A B \in SUBSET Bills : Billed(B) \in Nat
           /\ \A b, P : Completed(b, P) \in Nat
           /\ \A b : Debited(b) \in Nat
<1>1. \A B \in SUBSET Bills : StandingOf(B) \in SUBSET Bills
  BY DEF StandingOf
<1>2. \A b, P : CompletedOf(b) \ P \in SUBSET Payments
  BY DEF CompletedOf
<1>3. \A b : {r \in notes : vreturn[r].bill = b} \in SUBSET Returns
  BY DEF VendorTypeOK
<1> QED
  BY <1>1, <1>2, <1>3, SumsAreNumbers DEF Billed, Completed, Debited

LEMMA TotalsStayNumbers ==
    ASSUME VendorTypeOK'
    PROVE  /\ \A B \in SUBSET Bills : Billed(B)' \in Nat
           /\ \A b, P : Completed(b, P)' \in Nat
           /\ \A b : Debited(b)' \in Nat
<1>1. \A B \in SUBSET Bills : StandingOf(B)' \in SUBSET Bills
  BY DEF StandingOf
<1>2. \A b, P : CompletedOf(b)' \ P \in SUBSET Payments
  BY DEF CompletedOf
<1>3. \A b : {r \in notes' : vreturn'[r].bill = b} \in SUBSET Returns
  BY DEF VendorTypeOK
<1>4. /\ \A S \in SUBSET Bills : IsFiniteSet(S)
      /\ \A S \in SUBSET Payments : IsFiniteSet(S)
      /\ \A S \in SUBSET Returns : IsFiniteSet(S)
  BY VendorAssumption, FS_Subset
<1>5. \A b \in Bills : QuantityOf'[b] \in Nat
  BY DEF VendorTypeOK, Bill, QuantityOf
<1>6. \A p \in Payments : AmountOf'[p] \in Nat
  BY DEF VendorTypeOK, VendorPayment, AmountOf
<1>7. \A r \in Returns : WorthOf'[r] \in Nat
  BY VendorAssumption DEF VendorTypeOK, WorthOf
<1>8. \A S \in SUBSET Bills : SumFunctionOnSet(QuantityOf', S) \in Nat
  BY <1>4, <1>5, SumNat
<1>9. \A S \in SUBSET Payments : SumFunctionOnSet(AmountOf', S) \in Nat
  BY <1>4, <1>6, SumNat
<1>10. \A S \in SUBSET Returns : SumFunctionOnSet(WorthOf', S) \in Nat
  BY <1>4, <1>7, SumNat
<1>11. \A B \in SUBSET Bills : Billed(B)' \in Nat
  BY <1>1, <1>8 DEF Billed
<1>12. \A b, P : Completed(b, P)' \in Nat
  BY <1>2, <1>9 DEF Completed
<1>13. \A b : Debited(b)' \in Nat
  BY <1>3, <1>10 DEF Debited
<1> QED
  BY <1>11, <1>12, <1>13

\* Two requests that have a document in hand have met on it.
LEMMA OneInHand ==
    ASSUME Meets, NEW d \in ({Order} \cup Bills) \ met'
    PROVE  d \notin met /\ Alone(d)'
<1>1. d \notin met /\ d \notin Meetings'
  BY DEF Meets
<1>2. ASSUME NEW c \in Clerks, NEW e \in Clerks, c # e, On(slot'[c], d), On(slot'[e], d)
      PROVE  FALSE
  <2>1. d \in {slot'[c].doc, slot'[c].on} \cap {slot'[e].doc, slot'[e].on}
    BY <1>2 DEF On
  <2> QED
    BY <1>1, <1>2, <2>1 DEF Meetings
<1> QED
  BY <1>1, <1>2 DEF Alone

-----------------------------------------------------------------------------
(* A bill that a step leaves alone.                                        *)

NotesOf(b) == {r \in notes : vreturn[r].bill = b}

Same(b) ==
    /\ bill'[b] = bill[b]
    /\ \A p \in Payments : p \in CompletedOf(b) \/ p \in CompletedOf(b)' =>
                               payment'[p] = payment[p]
    /\ vreturn' = vreturn /\ NotesOf(b)' = NotesOf(b)

LEMMA SameSums ==
    ASSUME VendorTypeOK, NEW b \in Bills, Same(b)
    PROVE  /\ CompletedOf(b)' = CompletedOf(b) /\ Debited(b)' = Debited(b)
           /\ \A P : Completed(b, P)' = Completed(b, P)
<1>1. CompletedOf(b)' = CompletedOf(b)
  BY DEF Same, CompletedOf
<1>2. WorthOf' = WorthOf
  BY DEF Same, WorthOf
<1>3. Debited(b)' = Debited(b)
  BY <1>2 DEF Same, Debited, NotesOf
<1>4. ASSUME NEW P PROVE Completed(b, P)' = Completed(b, P)
  <2> DEFINE S == CompletedOf(b) \ P
  <2>1. IsFiniteSet(S) /\ \A p \in S : AmountOf[p] = AmountOf'[p]
    <3>1. S \in SUBSET Payments /\ \A p \in S : payment'[p] = payment[p]
      BY DEF CompletedOf, Same
    <3> HIDE DEF S
    <3> QED
      BY <3>1, SumsAreNumbers DEF AmountOf
  <2>2. S = CompletedOf(b)' \ P
    BY <1>1
  <2> HIDE DEF S
  <2>3. SumFunctionOnSet(AmountOf, S) = SumFunctionOnSet(AmountOf', S)
    BY <2>1, SumSame
  <2> QED
    BY <2>2, <2>3 DEF Completed, S
<1> QED
  BY <1>1, <1>3, <1>4

\* Its books are in order if they were, and what was read of it is still true.
LEMMA SameBooks ==
    ASSUME VendorTypeOK, NEW b \in Bills, Same(b)
    PROVE  /\ Books(b) => Books(b)'
           /\ \A c \in Clerks : slot'[c] = slot[c] /\ Mine(slot[c], b) => Mine(slot[c], b)'
<1>1. Books(b) => Books(b)'
  BY SameSums DEF Books, Unpaid, Same
<1>2. ASSUME NEW c \in Clerks, slot'[c] = slot[c], Mine(slot[c], b)
      PROVE  Mine(slot[c], b)'
  BY <1>2, SameSums DEF Mine, Same
<1> QED
  BY <1>1, <1>2

\* Nothing goes back to what it was before the row was there.
Grows ==
    /\ \A b \in Bills : There(b) => There(b)'
    /\ \A p \in Payments : payment[p].status # "NONE" =>
          payment'[p].status # "NONE" /\ payment'[p].bill = payment[p].bill
    /\ vreturn' = vreturn

LEMMA HoldsOn ==
    ASSUME Grows, NEW c \in Clerks, slot'[c] = slot[c], Holds(slot[c]),
           slot[c].op = "noted" => slot[c].doc \notin notes'
    PROVE  Holds(slot[c])'
BY DEF Grows, Holds, There, Moving

LEMMA IdleIsAReading ==
    /\ Idle \in Reading /\ Idle.op = "idle"
    /\ Idle.doc = None /\ Idle.on = None
    /\ \A d \in Documents : ~On(Idle, d)
<1>1. Idle \in Reading /\ Idle.op = "idle" /\ Idle.doc = None /\ Idle.on = None
  BY DEF Idle, Reading
<1> QED
  BY <1>1, VendorAssumption DEF On

\* A request that is over has nothing to keep.
LEMMA IdleHolds ==
    ASSUME NEW c \in Clerks, slot'[c] = Idle
    PROVE  /\ Holds(slot[c])' /\ Asked(slot[c])' /\ slot'[c].op = "idle"
           /\ \A d \in {Order} \cup Bills : ~On(slot'[c], d)
<1>1. \A d \in {Order} \cup Bills : d \in Documents
  BY DEF Documents
<1> QED
  BY <1>1, IdleIsAReading DEF Holds, Asked, Moving
-----------------------------------------------------------------------------
(* Steps in general: one that writes nothing, and one that ends a request. *)

\* With the rows, everything read from them stays.
LEMMA SameTables ==
    ASSUME VendorTypeOK, UNCHANGED rows
    PROVE  /\ Grows /\ (RowsOK => RowsOK') /\ (Supplied => Supplied')
           /\ \A b \in Bills : Same(b)
           /\ \A c \in Clerks : \A r : slot'[c] = r =>
                 /\ Holds(r) => Holds(slot[c])'
                 /\ Asked(r) => Asked(slot[c])'
                 /\ \A b \in Bills : Mine(r, b) => Mine(slot[c], b)'
<1>1. /\ order' = order /\ bill' = bill /\ payment' = payment
      /\ vreturn' = vreturn /\ notes' = notes
  BY DEF rows
<1>2. \A b \in Bills : Same(b)
  BY <1>1 DEF Same, CompletedOf, NotesOf
<1>3. Grows /\ (RowsOK => RowsOK')
  BY <1>1 DEF Grows, RowsOK, There
<1>4. QuantityOf' = QuantityOf /\ AmountOf' = AmountOf
  BY <1>1 DEF QuantityOf, AmountOf
<1>5. \A B : Billed(B)' = Billed(B)
  BY <1>1, <1>4 DEF Billed, StandingOf
<1>6. Supplied => Supplied'
  BY <1>1, <1>5 DEF Supplied
<1>7. ASSUME NEW c \in Clerks, NEW r, slot'[c] = r
      PROVE  /\ Holds(r) => Holds(slot[c])'
             /\ Asked(r) => Asked(slot[c])'
             /\ \A b \in Bills : Mine(r, b) => Mine(slot[c], b)'
  <2>1. Holds(r) => Holds(slot[c])'
    BY <1>1, <1>7 DEF Holds, There
  <2>2. Asked(r) => Asked(slot[c])'
    BY <1>1, <1>5, <1>7 DEF Asked
  <2>3. ASSUME NEW b \in Bills, Mine(r, b) PROVE Mine(slot[c], b)'
    <3>1. CompletedOf(b)' = CompletedOf(b) /\ \A P : Completed(b, P)' = Completed(b, P)
      BY <1>2, SameSums
    <3> QED
      BY <1>1, <1>7, <2>3, <3>1 DEF Mine
  <2> QED
    BY <2>1, <2>2, <2>3
<1> QED
  BY <1>2, <1>3, <1>6, <1>7

\* A request reads: what it reads is true, of its bill and of the order.
LEMMA TurnStep ==
    ASSUME VendorInv, UNCHANGED rows, Meets, NEW c \in Clerks, NEW r \in Reading,
           slot' = [slot EXCEPT ![c] = r], Holds(r),
           r.op = "noted" => NoteIsNew(r.doc),
           \A b \in Bills \ met : On(r, b) => Mine(r, b),
           met = {} /\ met' = {} => Asked(r)
    PROVE  VendorInv'
<1>0. /\ VendorTypeOK /\ RowsOK /\ NotedOnce /\ \A e \in Clerks : Holds(slot[e])
      /\ slot'[c] = r /\ \A e \in Clerks \ {c} : slot'[e] = slot[e]
  BY DEF VendorInv, VendorTypeOK
<1>1. VendorTypeOK'
  <2>1. slot' \in [Clerks -> Reading]
    BY <1>0 DEF VendorTypeOK
  <2>2. met' \subseteq {Order} \cup Bills
    BY <1>0 DEF VendorTypeOK, Meets, Meetings, SelfMet
  <2> QED
    BY <1>0, <2>1, <2>2 DEF VendorTypeOK, rows
<1>2. RowsOK' /\ \A e \in Clerks : Holds(slot[e])'
  BY <1>0, SameTables
<1>3. NotedOnce'
  BY <1>0 DEF NotedOnce, NoteIsNew
<1>4. \A d \in ({Order} \cup Bills) \ met' : d \notin met /\ Alone(d)'
  BY OneInHand
<1>5. ASSUME NEW b \in Bills \ met'
      PROVE  Books(b)' /\ \A e \in Clerks : On(slot'[e], b) => Mine(slot[e], b)'
  <2>1. b \in Bills \ met /\ Same(b)
    BY <1>0, <1>4, SameTables
  <2>2. Books(b)'
    BY <1>0, <2>1, SameBooks DEF VendorInv
  <2>3. ASSUME NEW e \in Clerks, On(slot'[e], b) PROVE Mine(slot[e], b)'
    <3>1. CASE e = c
      BY <1>0, <2>1, <2>3, <3>1, SameTables
    <3>2. CASE e # c
      <4>1. slot'[e] = slot[e] /\ Mine(slot[e], b)
        BY <1>0, <2>1, <2>3, <3>2 DEF VendorInv
      <4> QED
        BY <1>0, <2>1, <4>1, SameBooks
    <3> QED
      BY <3>1, <3>2
  <2> QED
    BY <2>2, <2>3
<1>6. ASSUME met' = {} PROVE Supplied' /\ \A e \in Clerks : Asked(slot[e])'
  <2>1. met = {}
    BY <1>6 DEF Meets
  <2>2. Supplied /\ Asked(r) /\ \A e \in Clerks : Asked(slot[e])
    BY <1>6, <2>1 DEF VendorInv
  <2>3. \A e \in Clerks : Asked(slot[e])'
    BY <1>0, <2>2, SameTables
  <2> QED
    BY <1>0, <2>2, <2>3, SameTables
<1> QED
  BY <1>1, <1>2, <1>3, <1>4, <1>5, <1>6 DEF VendorInv

\* A request ends, after it has written the bill it has in hand, a new bill,
\* or the order it has in hand.
LEMMA WriteStep ==
    ASSUME VendorInv, Meets, NEW c \in Clerks, Finish(c),
           order' \in [status : {"APPROVED", "RECEIVING", "COMPLETED", "CANCELLED"},
                       received : Nat],
           bill' \in [Bills -> Bill], payment' \in [Payments -> VendorPayment],
           RowsOK', Grows,
           notes' = notes \/ (slot[c].op = "noted" /\ notes' = notes \cup {slot[c].doc}),
           \A b \in Bills :
              \/ Same(b)
              \/ On(slot[c], b) /\ (b \notin met /\ Mine(slot[c], b) /\ Books(b) => Books(b)')
              \/ bill[b].status = "NONE" /\ (b \notin met /\ Books(b) => Books(b)'),
           met = {} /\ Supplied /\ Asked(slot[c]) => Supplied',
           \/ On(slot[c], Order)
           \/ /\ order'.received = order.received
              /\ met = {} => \A B \in SUBSET Bills : Billed(B)' <= Billed(B)
    PROVE  VendorInv'
<1>0. /\ VendorTypeOK /\ RowsOK /\ NotedOnce /\ \A e \in Clerks : Holds(slot[e])
      /\ slot'[c] = Idle /\ \A e \in Clerks \ {c} : slot'[e] = slot[e]
      /\ \A e \in Clerks : slot[e] \in Reading
  BY DEF VendorInv, VendorTypeOK, Finish
<1>1. VendorTypeOK'
  <2>1. slot' \in [Clerks -> Reading]
    BY <1>0, IdleIsAReading DEF VendorTypeOK, Finish
  <2>2. met' \subseteq {Order} \cup Bills
    BY <1>0 DEF VendorTypeOK, Meets, Meetings, SelfMet
  <2>3. notes' \subseteq Returns
    BY <1>0 DEF VendorTypeOK, Holds
  <2>4. vreturn' = vreturn
    BY DEF Grows
  <2> QED
    BY <1>0, <2>1, <2>2, <2>3, <2>4 DEF VendorTypeOK
<1>2. ASSUME NEW e \in Clerks PROVE Holds(slot[e])'
  <2>1. CASE e = c
    BY <1>0, <2>1, IdleHolds
  <2>2. CASE e # c
    <3>1. slot[e].op = "noted" => slot[e].doc \notin notes'
      BY <1>0, <2>2 DEF Holds, NotedOnce
    <3> QED
      BY <1>0, <2>2, <3>1, HoldsOn
  <2> QED
    BY <2>1, <2>2
<1>3. NotedOnce'
  BY <1>0, IdleIsAReading DEF NotedOnce
<1>4. \A d \in ({Order} \cup Bills) \ met' : d \notin met /\ Alone(d)'
  BY OneInHand
<1>5. ASSUME NEW b \in Bills \ met'
      PROVE  Books(b)' /\ \A e \in Clerks : On(slot'[e], b) => Mine(slot[e], b)'
  <2>1. /\ b \in Bills \ met /\ Books(b) /\ Alone(b)
        /\ \A e \in Clerks : On(slot[e], b) => Mine(slot[e], b)
    BY <1>4 DEF VendorInv
  <2>2. \A e \in Clerks : On(slot'[e], b) => e # c /\ slot'[e] = slot[e] /\ On(slot[e], b)
    BY <1>0, IdleHolds
  <2>3. CASE Same(b)
    BY <1>0, <2>1, <2>2, <2>3, SameBooks
  <2>4. CASE On(slot[c], b) /\ (b \notin met /\ Mine(slot[c], b) /\ Books(b) => Books(b)')
    BY <2>1, <2>2, <2>4 DEF Alone
  <2>5. CASE bill[b].status = "NONE" /\ (b \notin met /\ Books(b) => Books(b)')
    <3>1. ASSUME NEW e \in Clerks, On(slot[e], b) PROVE FALSE
      <4>1. slot[e] \in Reading /\ Holds(slot[e]) /\ (slot[e].doc = b \/ slot[e].on = b)
        BY <1>0, <3>1 DEF On
      <4>2. b \in Documents /\ b # None /\ b # Order /\ b \notin Payments /\ b \notin Returns
            /\ ~There(b)
        BY <2>5, VendorAssumption DEF Documents, There
      <4>3. CASE slot[e].op \in {"idle", "receive", "bill", "edit", "pay"} \cup Moving
        BY <4>1, <4>2, <4>3 DEF Holds
      <4>4. CASE slot[e].op \in {"reverse", "summed"}
        BY <1>0, <4>1, <4>2, <4>4 DEF Holds, RowsOK
      <4>5. CASE slot[e].op \in {"debit", "noted"}
        BY <4>1, <4>2, <4>5 DEF Holds
      <4>6. slot[e].op \in {"idle", "receive", "bill", "edit", "pay"} \cup Moving
                            \cup {"reverse", "summed"} \cup {"debit", "noted"}
        BY <4>1 DEF Reading, Moving
      <4> QED
        BY <4>3, <4>4, <4>5, <4>6
    <3> QED
      BY <2>1, <2>2, <2>5, <3>1
  <2> QED
    BY <2>3, <2>4, <2>5
<1>6. ASSUME met' = {} PROVE Supplied' /\ \A e \in Clerks : Asked(slot[e])'
  <2>1. met = {} /\ Order \notin met'
    BY <1>6 DEF Meets
  <2>2. Supplied /\ (\A e \in Clerks : Asked(slot[e])) /\ Alone(Order)
    BY <1>6, <2>1 DEF VendorInv
  <2>3. ASSUME NEW e \in Clerks PROVE Asked(slot[e])'
    <3>1. CASE e = c
      BY <1>0, <3>1, IdleHolds
    <3>2. CASE e # c /\ On(slot[e], Order)
      <4>1. ~On(slot[c], Order)
        BY <2>2, <3>2 DEF Alone
      <4>2. order'.received = order.received /\ \A B \in SUBSET Bills : Billed(B)' <= Billed(B)
        BY <2>1, <4>1
      <4>3. slot'[e] = slot[e] /\ Asked(slot[e]) /\ slot[e].n \in Nat
            /\ (slot[e].op = "edit" => slot[e].doc \in Bills)
        BY <1>0, <2>2, <3>2 DEF Reading, Holds, There
      <4>4. /\ Billed(Bills)' <= Billed(Bills)
            /\ Billed(Bills \ {slot[e].doc})' <= Billed(Bills \ {slot[e].doc})
        <5>1. \A x : Bills \ {x} \in SUBSET Bills
          OBVIOUS
        <5>2. \A x : Billed(Bills \ {x})' <= Billed(Bills \ {x})
          BY <4>2, <5>1
        <5> QED
          BY <4>2, <4>3, <5>2
      <4>5. /\ order.received \in Nat /\ Ordered \in Nat
            /\ Billed(Bills) \in Nat /\ Billed(Bills)' \in Nat
            /\ \A x : Billed(Bills \ {x}) \in Nat /\ Billed(Bills \ {x})' \in Nat
        <5>1. \A x : Bills \ {x} \in SUBSET Bills
          OBVIOUS
        <5>2. VendorTypeOK'
          BY <1>1
        <5>3. \A B \in SUBSET Bills : Billed(B)' \in Nat
          BY <5>2, TotalsStayNumbers
        <5> QED
          BY <1>0, <5>1, <5>3, TotalsAreNumbers, VendorAssumption DEF VendorTypeOK
      <4>6. slot[e].op = "receive" => slot'[e].n <= Ordered - order'.received
        BY <4>2, <4>3 DEF Asked
      <4>7. slot[e].op = "bill" => slot'[e].n <= order'.received - Billed(Bills)'
        BY <4>2, <4>3, <4>4, <4>5 DEF Asked
      <4>8. slot[e].op = "edit" =>
               slot'[e].n <= order'.received - Billed(Bills \ {slot[e].doc})'
        <5> DEFINE D == slot[e].doc
        <5>1. ASSUME slot[e].op = "edit" PROVE slot[e].n <= order.received - Billed(Bills \ {D})
          BY <4>3, <5>1 DEF Asked
        <5>2. Billed(Bills \ {D})' <= Billed(Bills \ {D}) /\ Billed(Bills \ {D}) \in Nat
              /\ Billed(Bills \ {D})' \in Nat
          BY <4>4, <4>5
        <5> HIDE DEF D
        <5> QED
          BY <4>2, <4>3, <4>5, <5>1, <5>2 DEF D
      <4> QED
        BY <4>3, <4>6, <4>7, <4>8 DEF Asked
    <3>3. CASE e # c /\ ~On(slot[e], Order)
      <4>1. slot'[e] = slot[e] /\ Holds(slot[e])
        BY <1>0, <3>3
      <4> QED
        BY <3>3, <4>1 DEF Asked, Holds, On
    <3> QED
      BY <3>1, <3>2, <3>3
  <2> QED
    BY <2>1, <2>2, <2>3
<1> QED
  BY <1>1, <1>2, <1>3, <1>4, <1>5, <1>6 DEF VendorInv
-----------------------------------------------------------------------------
(* The reads.                                                              *)

\* A request that reads only is a turn of its clerk.
LEMMA Begins ==
    ASSUME NEW c, NEW r, Begin(c, r)
    PROVE  slot' = [slot EXCEPT ![c] = r] /\ UNCHANGED rows /\ slot[c] = Idle
BY DEF Begin

\* The identities of the tables.
LEMMA Tables ==
    /\ Order \notin Bills /\ None \notin Bills /\ None # Order
    /\ \A b \in Bills : b \notin Payments /\ b \notin Returns
    /\ \A d : d \in Documents <=> d = Order \/ d \in Bills \/ d \in Payments \/ d \in Returns
    /\ \A n \in Quantities : n \in Nat /\ n > 0
BY VendorAssumption DEF Documents

LEMMA ReadForMoveStep ==
    ASSUME VendorInv, Meets, NEW c \in Clerks, NEW d \in {Order} \cup Bills, NEW to \in Moving,
           ReadForMove(c, d, to)
    PROVE  VendorInv'
<1> DEFINE r == [Idle EXCEPT !.op = to, !.doc = d]
<1>1. slot' = [slot EXCEPT ![c] = r] /\ UNCHANGED rows
  BY Begins DEF ReadForMove
<1>2. r.op = to /\ r.doc = d /\ r.on = None /\ r.n = 0 /\ r.read = 0 /\ r \in Reading
  BY Tables DEF Idle, Reading, Moving
<1> HIDE DEF r
<1>3. d \in Bills => bill[d].status \in From(d, to)
  BY Tables DEF ReadForMove
<1>4. Holds(r)
  <2>1. CASE d = Order
    <3>1. to = "CANCELLED"
      BY <2>1 DEF ReadForMove, From
    <3> QED
      BY <1>2, <2>1, <3>1 DEF Holds, Moving
  <2>2. CASE d \in Bills
    <3>1. d # Order /\ There(d)
      BY <1>3, <2>2, Tables DEF From, Moving, There
    <3> QED
      BY <1>2, <3>1 DEF Holds, Moving
  <2> QED
    BY <2>1, <2>2
<1>5. \A b \in Bills : On(r, b) => Mine(r, b)
  BY <1>2, <1>3, Tables DEF On, Mine, Moving
<1>6. Asked(r) /\ r.op # "noted"
  BY <1>2 DEF Asked, Moving
<1> QED
  BY <1>1, <1>2, <1>4, <1>5, <1>6, TurnStep

LEMMA ReadForReceiveStep ==
    ASSUME VendorInv, Meets, NEW c \in Clerks, NEW n \in Quantities,
           NEW m \in {0} \cup Quantities, ReadForReceive(c, n, m)
    PROVE  VendorInv'
<1> DEFINE k == IF m > 0 THEN 1 ELSE 0
           q == n + m
           r == [Idle EXCEPT !.op = "receive", !.doc = Order, !.n = q, !.read = k]
<1>1. slot' = [slot EXCEPT ![c] = r] /\ UNCHANGED rows
  BY Begins DEF ReadForReceive
<1>2. m \in Nat /\ n \in Nat /\ k \in Nat /\ (m > 0 => k = 1) /\ q \in Nat /\ (m = 0 => q = n)
  BY Tables
<1> HIDE DEF k, q
<1>3. r.op = "receive" /\ r.doc = Order /\ r.on = None /\ r.n = q /\ r.read = k
      /\ r \in Reading
  BY <1>2, Tables DEF Idle, Reading
<1> HIDE DEF r
<1>4. Holds(r)
  BY <1>3 DEF Holds, Moving
<1>5. \A b \in Bills : ~On(r, b)
  BY <1>3, Tables DEF On
<1>6. ASSUME met' = {} PROVE Asked(r)
  <2>1. slot'[c] = r
    BY <1>1 DEF VendorInv, VendorTypeOK
  <2>2. m = 0
    <3>1. CASE m > 0
      <4>1. Order \in SelfMet'
        BY <1>2, <1>3, <2>1, <3>1 DEF SelfMet
      <4> QED
        BY <1>6, <4>1 DEF Meets, Meetings
    <3> QED
      BY <1>2, <3>1
  <2>3. r.n = n
    BY <1>2, <1>3, <2>2
  <2> QED
    BY <1>3, <2>3 DEF Asked, ReadForReceive
<1> QED
  BY <1>1, <1>3, <1>4, <1>5, <1>6, TurnStep

\* A positive quantity within what can be billed is within the difference.
LEMMA BillableIsLeft ==
    ASSUME VendorTypeOK, NEW n \in Quantities, NEW B \in SUBSET Bills, Billable(n, B)
    PROVE  n <= order.received - Billed(B)
<1>1. order.received \in Nat /\ Billed(B) \in Nat
  BY TotalsAreNumbers DEF VendorTypeOK
<1> QED
  BY <1>1, Tables DEF Billable, AtLeast0

LEMMA ReadForBillStep ==
    ASSUME VendorInv, Meets, NEW c \in Clerks, NEW n \in Quantities, ReadForBill(c, n)
    PROVE  VendorInv'
<1> DEFINE r == [Idle EXCEPT !.op = "bill", !.doc = Order, !.n = n]
<1>1. slot' = [slot EXCEPT ![c] = r] /\ UNCHANGED rows
  BY Begins DEF ReadForBill
<1>2. r.op = "bill" /\ r.doc = Order /\ r.on = None /\ r.n = n /\ r \in Reading
  BY Tables DEF Idle, Reading
<1> HIDE DEF r
<1>3. Holds(r)
  BY <1>2, Tables DEF Holds, Moving
<1>4. \A b \in Bills : ~On(r, b)
  BY <1>2, Tables DEF On
<1>5. Asked(r)
  <2>1. n <= order.received - Billed(Bills)
    BY BillableIsLeft DEF VendorInv, ReadForBill
  <2> QED
    BY <1>2, <2>1 DEF Asked
<1> QED
  BY <1>1, <1>2, <1>3, <1>4, <1>5, TurnStep

LEMMA ReadForEditStep ==
    ASSUME VendorInv, Meets, NEW c \in Clerks, NEW b \in Bills, NEW n \in Quantities,
           ReadForEdit(c, b, n)
    PROVE  VendorInv'
<1> DEFINE r == [Idle EXCEPT !.op = "edit", !.doc = b, !.on = Order, !.n = n]
<1>1. slot' = [slot EXCEPT ![c] = r] /\ UNCHANGED rows /\ bill[b].status = "DRAFT"
  BY Begins DEF ReadForEdit
<1>2. r.op = "edit" /\ r.doc = b /\ r.on = Order /\ r.n = n /\ r \in Reading
  BY Tables DEF Idle, Reading
<1> HIDE DEF r
<1>3. Holds(r)
  BY <1>1, <1>2, Tables DEF Holds, Moving, There
<1>4. \A a \in Bills : On(r, a) => Mine(r, a)
  BY <1>1, <1>2, Tables DEF On, Mine, Moving
<1>5. Asked(r)
  <2>1. n <= order.received - Billed(Bills \ {b})
    BY BillableIsLeft DEF VendorInv, ReadForEdit
  <2> QED
    BY <1>2, <2>1 DEF Asked
<1> QED
  BY <1>1, <1>2, <1>3, <1>4, <1>5, TurnStep

LEMMA ReadForPaymentStep ==
    ASSUME VendorInv, Meets, NEW c \in Clerks, NEW b \in Bills, NEW n \in Quantities,
           ReadForPayment(c, b, n)
    PROVE  VendorInv'
<1> DEFINE r == [Idle EXCEPT !.op = "pay", !.doc = b, !.n = n, !.read = Completed(b, {})]
<1>1. slot' = [slot EXCEPT ![c] = r] /\ UNCHANGED rows
      /\ bill[b].status \in {"APPROVED", "PARTIALLY_PAID"} /\ n <= bill[b].qty - Completed(b, {})
  BY Begins DEF ReadForPayment
<1>2. r.op = "pay" /\ r.doc = b /\ r.on = None /\ r.n = n /\ r.read = Completed(b, {})
      /\ r \in Reading
  BY Tables, TotalsAreNumbers DEF Idle, Reading, VendorInv
<1> HIDE DEF r
<1>3. Holds(r)
  BY <1>1, <1>2, Tables DEF Holds, Moving, There
<1>4. \A a \in Bills : On(r, a) => Mine(r, a)
  BY <1>1, <1>2, Tables DEF On, Mine, Moving
<1>5. Asked(r)
  BY <1>2 DEF Asked
<1> QED
  BY <1>1, <1>2, <1>3, <1>4, <1>5, TurnStep

LEMMA ReadForReversalStep ==
    ASSUME VendorInv, Meets, NEW c \in Clerks, NEW p \in Payments, ReadForReversal(c, p)
    PROVE  VendorInv'
<1> DEFINE r == [Idle EXCEPT !.op = "reverse", !.doc = p, !.on = payment[p].bill]
<1>1. slot' = [slot EXCEPT ![c] = r] /\ UNCHANGED rows /\ payment[p].status = "COMPLETED"
  BY Begins DEF ReadForReversal
<1>2. r.op = "reverse" /\ r.doc = p /\ r.on = payment[p].bill /\ r \in Reading
  <2>1. payment[p].bill \in Documents \cup {None}
    BY Tables DEF VendorInv, VendorTypeOK, VendorPayment
  <2> QED
    BY <2>1, Tables DEF Idle, Reading
<1> HIDE DEF r
<1>3. Holds(r)
  BY <1>1, <1>2 DEF Holds, Moving
<1>4. \A a \in Bills : On(r, a) => Mine(r, a)
  BY <1>1, <1>2, Tables DEF On, Mine, Moving, CompletedOf
<1>5. Asked(r)
  BY <1>2 DEF Asked
<1> QED
  BY <1>1, <1>2, <1>3, <1>4, <1>5, TurnStep

LEMMA ReadForDebitStep ==
    ASSUME VendorInv, Meets, NEW c \in Clerks, NEW t \in Returns, ReadForDebit(c, t)
    PROVE  VendorInv'
<1> DEFINE r == [Idle EXCEPT !.op = "debit", !.doc = t, !.on = vreturn[t].bill]
<1>1. slot' = [slot EXCEPT ![c] = r] /\ UNCHANGED rows /\ There(vreturn[t].bill)
  BY Begins DEF ReadForDebit, There, VendorInv, VendorTypeOK
<1>2. r.op = "debit" /\ r.doc = t /\ r.on = vreturn[t].bill /\ r \in Reading
  BY <1>1, Tables DEF Idle, Reading, There
<1> HIDE DEF r
<1>3. Holds(r)
  BY <1>1, <1>2 DEF Holds, Moving
<1>4. Asked(r) /\ \A b : Mine(r, b)
  BY <1>2 DEF Asked, Mine, Moving
<1> QED
  BY <1>1, <1>2, <1>3, <1>4, TurnStep

LEMMA SumForReversalStep ==
    ASSUME VendorInv, Meets, NEW c \in Clerks, SumForReversal(c)
    PROVE  VendorInv'
<1> DEFINE s == slot[c]
           r == [s EXCEPT !.op = "summed", !.read = SumAfter(s.doc)]
<1>1. /\ s \in Reading /\ s.op = "reverse" /\ Holds(s) /\ UNCHANGED rows
      /\ \A b \in Bills \ met : On(s, b) => Mine(s, b)
  BY DEF SumForReversal, VendorInv, VendorTypeOK
<1>2. slot' = [slot EXCEPT ![c] = r]
  BY DEF SumForReversal
<1>3. s.doc \in Payments /\ s.on = payment[s.doc].bill /\ payment[s.doc].status # "NONE"
  BY <1>1 DEF Holds
<1>4. SumAfter(s.doc) \in Nat
  BY TotalsAreNumbers DEF VendorInv, SumAfter
<1>5. r.op = "summed" /\ r.doc = s.doc /\ r.on = s.on /\ r.read = SumAfter(s.doc)
      /\ r \in Reading
  BY <1>1, <1>4 DEF Reading
<1> HIDE DEF s, r
<1>6. Holds(r) /\ Asked(r)
  BY <1>3, <1>5 DEF Holds, Asked, Moving
<1>7. ASSUME NEW b \in Bills \ met, On(r, b) PROVE Mine(r, b)
  <2>1. b = s.on /\ s.doc \in CompletedOf(b)
    BY <1>1, <1>3, <1>5, <1>7, Tables DEF On, Mine
  <2>2. r.read = Completed(b, {r.doc})
    BY <1>3, <1>5, <2>1 DEF SumAfter
  <2> QED
    BY <1>5, <2>1, <2>2 DEF Mine, Moving
<1> QED
  BY <1>1, <1>2, <1>5, <1>6, <1>7, TurnStep

LEMMA IssueNoteStep ==
    ASSUME VendorInv, Meets, NEW c \in Clerks, IssueNote(c)
    PROVE  VendorInv'
<1> DEFINE s == slot[c]
           r == [s EXCEPT !.op = "noted", !.read = bill[s.on].owed]
<1>1. s \in Reading /\ s.op = "debit" /\ Holds(s) /\ UNCHANGED rows /\ NoteIsNew(s.doc)
  BY DEF IssueNote, VendorInv, VendorTypeOK
<1>2. slot' = [slot EXCEPT ![c] = r]
  BY DEF IssueNote
<1>3. s.doc \in Returns /\ s.on = vreturn[s.doc].bill /\ There(s.on)
  BY <1>1 DEF Holds
<1>4. bill[s.on].owed \in Nat
  BY <1>3 DEF VendorInv, VendorTypeOK, Bill, There
<1>5. r.op = "noted" /\ r.doc = s.doc /\ r.on = s.on /\ r.read = bill[s.on].owed
      /\ r \in Reading
  BY <1>1, <1>4 DEF Reading
<1> HIDE DEF s, r
<1>6. Holds(r) /\ Asked(r)
  BY <1>1, <1>3, <1>5 DEF Holds, Asked, Moving, NoteIsNew
<1>7. ASSUME NEW b \in Bills, On(r, b) PROVE Mine(r, b)
  <2>1. b = s.on
    BY <1>3, <1>5, <1>7, Tables DEF On
  <2> QED
    BY <1>5, <2>1 DEF Mine, Moving
<1> QED
  BY <1>1, <1>2, <1>5, <1>6, <1>7, TurnStep

LEMMA FailStep ==
    ASSUME VendorInv, Meets, NEW c \in Clerks, Fail(c)
    PROVE  VendorInv'
<1>1. slot' = [slot EXCEPT ![c] = Idle] /\ UNCHANGED rows
  BY DEF Fail, Finish
<1>2. Holds(Idle) /\ Asked(Idle)
  BY IdleIsAReading DEF Holds, Asked, Moving
<1>3. \A b \in Bills : ~On(Idle, b)
  BY IdleIsAReading, Tables
<1> QED
  BY <1>1, <1>2, <1>3, IdleIsAReading, TurnStep
-----------------------------------------------------------------------------
(* What a write does to the sums.                                          *)

\* What is true of the request that writes.
LEMMA InHand ==
    ASSUME VendorInv, NEW c \in Clerks
    PROVE  /\ VendorTypeOK /\ RowsOK /\ slot[c] \in Reading /\ Holds(slot[c])
           /\ slot[c].n \in Nat /\ slot[c].read \in Nat
           /\ \A b \in Bills : b \notin met => Books(b) /\ (On(slot[c], b) => Mine(slot[c], b))
           /\ met = {} => Asked(slot[c])
BY DEF VendorInv, VendorTypeOK, Reading

LEMMA SamePayments ==
    ASSUME payment' = payment
    PROVE  \A b : /\ CompletedOf(b)' = CompletedOf(b)
                  /\ \A P : Completed(b, P)' = Completed(b, P)
BY DEF CompletedOf, Completed, AmountOf

LEMMA SameNotes ==
    ASSUME vreturn' = vreturn, notes' = notes
    PROVE  \A b : Debited(b)' = Debited(b) /\ NotesOf(b)' = NotesOf(b)
BY DEF Debited, NotesOf, WorthOf

\* Payments and notes as they were: so is a bill that is not written.
LEMMA SameIfUnwritten ==
    ASSUME payment' = payment, vreturn' = vreturn, notes' = notes
    PROVE  \A b : bill'[b] = bill[b] => Same(b)
BY SameNotes DEF Same

LEMMA BilledShrinks ==
    ASSUME VendorTypeOK, bill' \in [Bills -> Bill],
           \A b \in Bills : bill'[b].status \notin {"NONE", "CANCELLED"} =>
               bill[b].status \notin {"NONE", "CANCELLED"} /\ bill'[b].qty <= bill[b].qty
    PROVE  \A B \in SUBSET Bills : Billed(B)' <= Billed(B)
<1> TAKE B \in SUBSET Bills
<1> DEFINE S == StandingOf(B)
           T == StandingOf(B)'
<1>1. T \subseteq S /\ IsFiniteSet(S) /\ S \subseteq Bills
  BY SumsAreNumbers DEF StandingOf
<1>2. \A b \in S : QuantityOf[b] \in Nat
  BY <1>1 DEF QuantityOf, VendorTypeOK, Bill
<1>3. \A b \in T : QuantityOf'[b] \in Nat /\ QuantityOf'[b] <= QuantityOf[b]
  BY <1>1 DEF QuantityOf, Bill, StandingOf
<1> HIDE DEF S, T
<1>4. SumFunctionOnSet(QuantityOf', T) <= SumFunctionOnSet(QuantityOf, S)
  BY <1>1, <1>2, <1>3, SumMonotone
<1> QED
  BY <1>4 DEF Billed, S, T

\* A bill is written for n pieces, whatever it was for before.
LEMMA BilledPlus ==
    ASSUME VendorTypeOK, NEW b \in Bills, NEW n \in Nat, bill' \in [Bills -> Bill],
           \A a \in Bills \ {b} : bill'[a] = bill[a],
           bill'[b].status \notin {"NONE", "CANCELLED"}, bill'[b].qty = n
    PROVE  Billed(Bills)' = Billed(Bills \ {b}) + n
<1> DEFINE S == StandingOf(Bills \ {b})
<1>1. IsFiniteSet(S) /\ S \subseteq Bills /\ b \notin S
  BY SumsAreNumbers DEF StandingOf
<1>2. StandingOf(Bills)' = S \cup {b}
  BY DEF StandingOf
<1>3. \A a \in S : QuantityOf'[a] = QuantityOf[a]
  BY <1>1 DEF QuantityOf
<1>4. QuantityOf'[b] = n /\ \A a \in S \cup {b} : QuantityOf'[a] \in Nat
  BY <1>1 DEF QuantityOf, Bill
<1> HIDE DEF S
<1>5. SumFunctionOnSet(QuantityOf', S) = SumFunctionOnSet(QuantityOf, S)
  BY <1>1, <1>3, SumSame
<1>6. SumFunctionOnSet(QuantityOf', S \cup {b}) = SumFunctionOnSet(QuantityOf', S) + QuantityOf'[b]
  BY <1>1, <1>4, SumAdd
<1> QED
  BY <1>2, <1>4, <1>5, <1>6 DEF Billed, S

\* A bill without payments and its new columns.
LEMMA UnpaidBooks ==
    ASSUME VendorTypeOK, bill' \in [Bills -> Bill],
           payment' = payment, vreturn' = vreturn, notes' = notes,
           NEW b \in Bills, CompletedOf(b) = {}, bill'[b].paid = 0,
           bill'[b].owed = bill'[b].qty, bill'[b].status \notin {"PARTIALLY_PAID", "PAID"}
    PROVE  Books(b)'
<1>1. CompletedOf(b)' = {} /\ Completed(b, {})' = Completed(b, {}) /\ Debited(b)' = Debited(b)
  BY SamePayments, SameNotes
<1>2. Completed(b, {}) = 0
  BY SumEmpty DEF Completed
<1>3. Debited(b) \in Nat /\ bill'[b].qty \in Nat
  BY TotalsAreNumbers DEF Bill
<1>4. Unpaid(b)' = bill'[b].qty
  BY <1>1, <1>2, <1>3 DEF Unpaid
<1>5. Unpaid(b)' - Debited(b)' <= bill'[b].owed /\ bill'[b].owed <= Unpaid(b)' /\ Unpaid(b)' >= 0
  BY <1>1, <1>3, <1>4
<1> QED
  BY <1>1, <1>2, <1>5 DEF Books

-----------------------------------------------------------------------------
(* The writes.                                                             *)

LEMMA MoveOrderStep ==
    ASSUME VendorInv, Meets, NEW c \in Clerks, Move(c), slot[c].doc = Order
    PROVE  VendorInv'
<1>1. /\ VendorTypeOK /\ RowsOK /\ slot[c].op = "CANCELLED"
      /\ order' = [order EXCEPT !.status = "CANCELLED"]
      /\ UNCHANGED <<bill, payment, vreturn, notes>> /\ Finish(c)
  BY InHand, Tables DEF Move, Holds, There, Moving
<1>2. order'.received = order.received
      /\ order' \in [status : {"APPROVED", "RECEIVING", "COMPLETED", "CANCELLED"}, received : Nat]
  BY <1>1 DEF VendorTypeOK
<1>3. RowsOK' /\ Grows
  BY <1>1 DEF RowsOK, Grows, There
<1>4. \A b \in Bills : Same(b)
  BY <1>1, SameIfUnwritten
<1>5. Billed(Bills)' = Billed(Bills)
  BY <1>1 DEF Billed, StandingOf, QuantityOf
<1>6. Supplied => Supplied'
  BY <1>2, <1>5 DEF Supplied
<1>7. On(slot[c], Order)
  BY DEF On
<1>8. bill' \in [Bills -> Bill] /\ payment' \in [Payments -> VendorPayment]
  BY <1>1 DEF VendorTypeOK
<1> QED
  BY <1>1, <1>2, <1>3, <1>4, <1>6, <1>7, <1>8, WriteStep

\* A step that leaves the payments' rows alone and writes one bill that is there.
LEMMA BillOnlyStep ==
    ASSUME VendorInv, Meets, NEW c \in Clerks, Finish(c), NEW b \in Bills, There(b),
           On(slot[c], b), NEW new \in Bill, new.status # "NONE",
           bill' = [bill EXCEPT ![b] = new],
           payment' \in [Payments -> VendorPayment],
           \A p \in Payments :
               \/ payment'[p] = payment[p]
               \/ payment[p].bill = b /\ payment'[p].bill = b /\ payment'[p].status # "NONE"
               \/ /\ payment[p].status = "NONE" /\ payment'[p].bill = b
                  /\ payment'[p].status # "NONE",
           order' = order, vreturn' = vreturn,
           notes' = notes \/ (slot[c].op = "noted" /\ notes' = notes \cup {slot[c].doc}
                              /\ vreturn[slot[c].doc].bill = b),
           b \notin met /\ Mine(slot[c], b) /\ Books(b) => Books(b)',
           \/ On(slot[c], Order) /\ (met = {} /\ Supplied /\ Asked(slot[c]) => Supplied')
           \/ new.status \notin {"NONE", "CANCELLED"} /\ b \notin met =>
                  bill[b].status \notin {"NONE", "CANCELLED"} /\ new.qty <= bill[b].qty
    PROVE  VendorInv'
<1>1. /\ VendorTypeOK /\ RowsOK /\ bill' \in [Bills -> Bill] /\ bill'[b] = new
      /\ \A a \in Bills \ {b} : bill'[a] = bill[a]
  BY InHand DEF VendorTypeOK
<1>2. order' \in [status : {"APPROVED", "RECEIVING", "COMPLETED", "CANCELLED"}, received : Nat]
  BY <1>1 DEF VendorTypeOK
<1>3. Grows
  BY <1>1 DEF Grows, There, RowsOK
<1>4. RowsOK'
  BY <1>1 DEF RowsOK, There
<1>5. \A a \in Bills \ {b} : Same(a)
  <2> TAKE a \in Bills \ {b}
  <2>1. \A p \in Payments : p \in CompletedOf(a) \/ p \in CompletedOf(a)' =>
           payment'[p] = payment[p]
    BY <1>1 DEF CompletedOf, RowsOK
  <2>2. NotesOf(a)' = NotesOf(a)
    BY DEF NotesOf
  <2> QED
    BY <1>1, <2>1, <2>2 DEF Same
<1>6. ASSUME new.status \notin {"NONE", "CANCELLED"} /\ b \notin met =>
                bill[b].status \notin {"NONE", "CANCELLED"} /\ new.qty <= bill[b].qty,
             met = {}
      PROVE  \A B \in SUBSET Bills : Billed(B)' <= Billed(B)
  <2>1. ASSUME NEW a \in Bills, bill'[a].status \notin {"NONE", "CANCELLED"}
        PROVE  bill[a].status \notin {"NONE", "CANCELLED"} /\ bill'[a].qty <= bill[a].qty
    <3>1. CASE a = b
      BY <1>1, <1>6, <2>1, <3>1
    <3>2. CASE a # b
      <4>1. bill'[a] = bill[a] /\ bill[a].qty \in Nat
        BY <1>1, <3>2 DEF VendorTypeOK, Bill
      <4> QED
        BY <2>1, <4>1
    <3> QED
      BY <3>1, <3>2
  <2> QED
    BY <1>1, <2>1, BilledShrinks
<1>7. met = {} /\ Supplied /\ Asked(slot[c]) => Supplied'
  <2>1. CASE On(slot[c], Order) /\ (met = {} /\ Supplied /\ Asked(slot[c]) => Supplied')
    BY <2>1
  <2>2. CASE new.status \notin {"NONE", "CANCELLED"} /\ b \notin met =>
                bill[b].status \notin {"NONE", "CANCELLED"} /\ new.qty <= bill[b].qty
    <3>1. met = {} => Billed(Bills)' <= Billed(Bills)
      BY <1>6, <2>2
    <3>2. order.received \in Nat /\ Billed(Bills) \in Nat
      BY <1>1, TotalsAreNumbers DEF VendorTypeOK
    <3>3. Billed(Bills)' \in Nat
      <4>1. \A a \in Bills : QuantityOf'[a] \in Nat
        BY <1>1 DEF QuantityOf, Bill
      <4>2. IsFiniteSet(StandingOf(Bills)') /\ StandingOf(Bills)' \subseteq Bills
        BY VendorAssumption, FS_Subset DEF StandingOf
      <4> QED
        BY <4>1, <4>2, SumNat DEF Billed
    <3> QED
      BY <3>1, <3>2, <3>3 DEF Supplied
  <2> QED
    BY <2>1, <2>2
<1>8. \A a \in Bills :
         \/ Same(a)
         \/ On(slot[c], a) /\ (a \notin met /\ Mine(slot[c], a) /\ Books(a) => Books(a)')
         \/ bill[a].status = "NONE" /\ (a \notin met /\ Books(a) => Books(a)')
  <2> TAKE a \in Bills
  <2>1. CASE a = b
    BY <2>1
  <2>2. CASE a # b
    BY <1>5, <2>2
  <2> QED
    BY <2>1, <2>2
<1>9. \/ On(slot[c], Order)
      \/ /\ order'.received = order.received
         /\ met = {} => \A B \in SUBSET Bills : Billed(B)' <= Billed(B)
  BY <1>6
<1>10. notes' = notes \/ (slot[c].op = "noted" /\ notes' = notes \cup {slot[c].doc})
  OBVIOUS
<1> QED
  BY <1>1, <1>2, <1>3, <1>4, <1>7, <1>8, <1>9, <1>10, WriteStep
LEMMA MoveBillStep ==
    ASSUME VendorInv, Meets, NEW c \in Clerks, Move(c), slot[c].doc # Order
    PROVE  VendorInv'
<1>0. PICK b, to : b = slot[c].doc /\ to = slot[c].op
  OBVIOUS
<1>0a. PICK new : new = [bill[b] EXCEPT !.status = to]
  OBVIOUS
<1>1. /\ VendorTypeOK /\ to \in Moving /\ b \in Bills /\ There(b)
      /\ UNCHANGED <<order, payment, vreturn, notes>> /\ Finish(c)
      /\ b \notin met => Books(b) /\ Mine(slot[c], b)
  BY <1>0, InHand DEF Move, Holds, There, Moving, On
<1>2. bill' = [bill EXCEPT ![b] = new] /\ bill[b] \in Bill
  BY <1>0, <1>1, <1>0a DEF Move, VendorTypeOK
<1>3. /\ new \in Bill /\ new.status = to /\ new.qty = bill[b].qty /\ new.paid = bill[b].paid
      /\ new.owed = bill[b].owed
  BY <1>1, <1>2, <1>0a DEF Bill, Moving
<1>4. bill'[b] = new /\ On(slot[c], b) /\ slot[c].op = to /\ bill[b].qty \in Nat
  BY <1>0, <1>1, <1>2 DEF VendorTypeOK, On, Bill
<1>5. b \notin met => bill[b].status \in {"DRAFT", "SUBMITTED"}
  BY <1>0, <1>1, <1>4, Tables DEF Mine, From, Moving
<1>6. b \notin met /\ Books(b) => Books(b)'
  <2> SUFFICES ASSUME b \notin met, Books(b) PROVE Books(b)'
    OBVIOUS
  <2>1. CompletedOf(b)' = CompletedOf(b) /\ Completed(b, {})' = Completed(b, {})
        /\ Debited(b)' = Debited(b)
    BY <1>1, SamePayments, SameNotes
  <2>2. CompletedOf(b) = {}
    BY <1>5 DEF Books, Payable
  <2>3. Unpaid(b)' = Unpaid(b)
    BY <1>3, <1>4, <2>1 DEF Unpaid
  <2> QED
    BY <1>1, <1>3, <1>4, <2>1, <2>2, <2>3 DEF Books, Moving
<1>7. new.status \notin {"NONE", "CANCELLED"} /\ b \notin met =>
         bill[b].status \notin {"NONE", "CANCELLED"} /\ new.qty <= bill[b].qty
  BY <1>3, <1>4, <1>5
<1>8. payment' \in [Payments -> VendorPayment] /\ new.status # "NONE"
  BY <1>1, <1>3 DEF VendorTypeOK, Moving
<1> QED
  BY <1>1, <1>2, <1>3, <1>4, <1>6, <1>7, <1>8, BillOnlyStep

LEMMA ReceiveStep ==
    ASSUME VendorInv, Meets, NEW c \in Clerks, Receive(c)
    PROVE  VendorInv'
<1> DEFINE received == order.received + slot[c].n
<1>1. /\ VendorTypeOK /\ RowsOK /\ slot[c].op = "receive" /\ slot[c].n \in Nat
      /\ order.received \in Nat /\ Ordered \in Nat
      /\ UNCHANGED <<bill, payment, vreturn, notes>> /\ Finish(c)
      /\ On(slot[c], Order)
  BY InHand, VendorAssumption DEF Receive, Holds, VendorTypeOK, On
<1>2. PICK s \in {"COMPLETED", "RECEIVING"} : order' = [received |-> received, status |-> s]
  BY DEF Receive
<1>3. received \in Nat
  BY <1>1
<1>4. order' \in [status : {"APPROVED", "RECEIVING", "COMPLETED", "CANCELLED"}, received : Nat]
      /\ order'.received = received
  <2> HIDE DEF received
  <2> QED
    BY <1>2, <1>3
<1>5. RowsOK' /\ Grows
  BY <1>1 DEF RowsOK, Grows, There
<1>6. \A b \in Bills : Same(b)
  BY <1>1, SameIfUnwritten
<1>7. Billed(Bills)' = Billed(Bills) /\ Billed(Bills) \in Nat
  BY <1>1, TotalsAreNumbers DEF Billed, StandingOf, QuantityOf
<1>8. Supplied /\ Asked(slot[c]) => Supplied'
  BY <1>1, <1>4, <1>7 DEF Supplied, Asked
<1>9. bill' \in [Bills -> Bill] /\ payment' \in [Payments -> VendorPayment]
  BY <1>1 DEF VendorTypeOK
<1> QED
  BY <1>1, <1>4, <1>5, <1>6, <1>8, <1>9, WriteStep

LEMMA CreateBillStep ==
    ASSUME VendorInv, Meets, NEW c \in Clerks, NEW b \in Bills, CreateBill(c, b)
    PROVE  VendorInv'
<1> DEFINE n == slot[c].n
           new == [status |-> "DRAFT", qty |-> n, paid |-> 0, owed |-> n]
<1>1. /\ VendorTypeOK /\ RowsOK /\ slot[c].op = "bill" /\ n \in Nat /\ bill[b].status = "NONE"
      /\ UNCHANGED <<order, payment, vreturn, notes>> /\ Finish(c) /\ On(slot[c], Order)
      /\ bill' = [bill EXCEPT ![b] = new]
  BY InHand DEF CreateBill, Holds, On
<1>2. new \in Bill /\ new.status = "DRAFT" /\ new.qty = n /\ new.paid = 0 /\ new.owed = n
  BY <1>1 DEF Bill
<1> HIDE DEF n, new
<1>3. /\ bill' \in [Bills -> Bill] /\ bill'[b] = new /\ \A a \in Bills \ {b} : bill'[a] = bill[a]
  BY <1>1, <1>2 DEF VendorTypeOK
<1>4. RowsOK' /\ Grows
  BY <1>1, <1>2, <1>3 DEF RowsOK, Grows, There
<1>5. b \notin met /\ Books(b) => Books(b)'
  <2> SUFFICES ASSUME Books(b) PROVE Books(b)'
    OBVIOUS
  <2>1. CompletedOf(b) = {}
    BY <1>1 DEF Books, Payable
  <2> QED
    BY <1>1, <1>2, <1>3, <2>1, UnpaidBooks
<1>6. \A a \in Bills :
         \/ Same(a)
         \/ On(slot[c], a) /\ (a \notin met /\ Mine(slot[c], a) /\ Books(a) => Books(a)')
         \/ bill[a].status = "NONE" /\ (a \notin met /\ Books(a) => Books(a)')
  <2> TAKE a \in Bills
  <2>1. CASE a = b
    BY <1>1, <1>5, <2>1
  <2>2. CASE a # b
    BY <1>1, <1>3, <2>2, SameIfUnwritten
  <2> QED
    BY <2>1, <2>2
<1>7. Supplied /\ Asked(slot[c]) => Supplied'
  <2>1. Billed(Bills)' = Billed(Bills \ {b}) + n
    BY <1>1, <1>2, <1>3, BilledPlus
  <2>2. StandingOf(Bills \ {b}) = StandingOf(Bills)
    BY <1>1 DEF StandingOf
  <2>3. Billed(Bills)' = Billed(Bills) + n
    BY <2>1, <2>2 DEF Billed
  <2>4. Billed(Bills) \in Nat /\ order.received \in Nat /\ slot[c].n = n
    BY <1>1, TotalsAreNumbers DEF VendorTypeOK, n
  <2> QED
    BY <1>1, <2>3, <2>4 DEF Supplied, Asked
<1>8. /\ payment' \in [Payments -> VendorPayment]
      /\ order' \in [status : {"APPROVED", "RECEIVING", "COMPLETED", "CANCELLED"}, received : Nat]
  BY <1>1 DEF VendorTypeOK
<1> QED
  BY <1>1, <1>3, <1>4, <1>6, <1>7, <1>8, WriteStep

LEMMA EditBillStep ==
    ASSUME VendorInv, Meets, NEW c \in Clerks, EditBill(c)
    PROVE  VendorInv'
<1>0. PICK b, n : b = slot[c].doc /\ n = slot[c].n
  OBVIOUS
<1>0a. PICK new : new = [bill[b] EXCEPT !.qty = n, !.owed = n]
  OBVIOUS
<1>1. /\ VendorTypeOK /\ slot[c].op = "edit" /\ n \in Nat /\ b \in Bills /\ There(b)
      /\ UNCHANGED <<order, payment, vreturn, notes>> /\ Finish(c)
      /\ On(slot[c], Order) /\ On(slot[c], b)
      /\ b \notin met => Books(b) /\ Mine(slot[c], b)
  BY <1>0, InHand DEF EditBill, Holds, There, On
<1>2. bill' = [bill EXCEPT ![b] = new] /\ bill[b] \in Bill
  BY <1>0, <1>1, <1>0a DEF EditBill, VendorTypeOK
<1>3. /\ new \in Bill /\ new.status = bill[b].status /\ new.qty = n /\ new.paid = bill[b].paid
      /\ new.owed = n
  BY <1>1, <1>2, <1>0a DEF Bill
<1>4. /\ bill' \in [Bills -> Bill] /\ bill'[b] = new /\ \A a \in Bills \ {b} : bill'[a] = bill[a]
  BY <1>1, <1>2, <1>3 DEF VendorTypeOK
<1>5. b \notin met => bill[b].status = "DRAFT"
  BY <1>1 DEF Mine
<1>7. b \notin met /\ Mine(slot[c], b) /\ Books(b) => Books(b)'
  <2> SUFFICES ASSUME b \notin met, Books(b) PROVE Books(b)'
    OBVIOUS
  <2>1. CompletedOf(b) = {}
    BY <1>5 DEF Books, Payable
  <2>2. bill[b].paid = 0
    BY <2>1, SumEmpty DEF Books, Completed
  <2> QED
    BY <1>1, <1>3, <1>4, <1>5, <2>1, <2>2, UnpaidBooks
<1>8. met = {} /\ Supplied /\ Asked(slot[c]) => Supplied'
  <2> SUFFICES ASSUME met = {}, Supplied, Asked(slot[c]) PROVE Supplied'
    OBVIOUS
  <2>1. Billed(Bills)' = Billed(Bills \ {b}) + n
    BY <1>1, <1>3, <1>4, <1>5, BilledPlus
  <2>2. Bills \ {b} \in SUBSET Bills
    OBVIOUS
  <2>3. Billed(Bills \ {b}) \in Nat /\ order.received \in Nat
    BY <1>1, <2>2, TotalsAreNumbers DEF VendorTypeOK
  <2>4. n <= order.received - Billed(Bills \ {b})
    BY <1>0, <1>1 DEF Asked
  <2> QED
    BY <1>1, <2>1, <2>3, <2>4 DEF Supplied
<1>9. payment' \in [Payments -> VendorPayment] /\ new.status # "NONE"
  BY <1>1, <1>3 DEF VendorTypeOK, There
<1> QED
  BY <1>1, <1>2, <1>3, <1>7, <1>8, <1>9, BillOnlyStep
\* What the columns say once the payments add up to paid.
LEMMA SettledBooks ==
    ASSUME NEW b \in Bills, NEW paid \in Nat, NEW qty \in Nat, NEW debits \in Nat,
           paid <= qty, Completed(b, {})' = paid, Debited(b)' = debits,
           bill'[b].qty = qty, bill'[b].paid = paid, bill'[b].owed = AtLeast0(qty - paid),
           bill'[b].status = StatusFor(paid, qty)
    PROVE  Books(b)'
<1>1. Unpaid(b)' = qty - paid /\ AtLeast0(qty - paid) = qty - paid
  BY DEF Unpaid, AtLeast0
<1>2. /\ Unpaid(b)' >= 0 /\ bill'[b].owed = Unpaid(b)' /\ Unpaid(b)' - debits <= bill'[b].owed
      /\ bill'[b].owed <= Unpaid(b)'
  BY <1>1
<1>3. StatusFor(paid, qty) \in Payable
  BY DEF StatusFor, Payable
<1> QED
  BY <1>2, <1>3 DEF Books

LEMMA RecordPaymentStep ==
    ASSUME VendorInv, Meets, NEW c \in Clerks, NEW p \in Payments, RecordPayment(c, p)
    PROVE  VendorInv'
<1>0. PICK b, n, read : b = slot[c].doc /\ n = slot[c].n /\ read = slot[c].read
  OBVIOUS
<1>0a. PICK paid, new :
           /\ paid = read + n
           /\ new = [bill[b] EXCEPT !.paid = paid, !.owed = AtLeast0(bill[b].qty - paid),
                                    !.status = StatusFor(paid, bill[b].qty)]
  OBVIOUS
<1>1. /\ VendorTypeOK /\ RowsOK /\ slot[c].op = "pay" /\ n \in Nat /\ read \in Nat /\ paid \in Nat
      /\ b \in Bills /\ There(b) /\ payment[p].status = "NONE"
      /\ UNCHANGED <<order, vreturn, notes>> /\ Finish(c) /\ On(slot[c], b)
      /\ b \notin met => Books(b) /\ Mine(slot[c], b)
  BY <1>0, <1>0a, InHand DEF RecordPayment, Holds, There, On
<1>2. /\ bill' = [bill EXCEPT ![b] = new] /\ bill[b] \in Bill
      /\ payment' = [payment EXCEPT ![p] = [status |-> "COMPLETED", bill |-> b, amount |-> n]]
  BY <1>0, <1>1, <1>0a DEF RecordPayment, Settle, VendorTypeOK
<1>3. PICK qty \in Nat : qty = bill[b].qty
  BY <1>2 DEF Bill
<1>4. StatusFor(paid, qty) \in Payable /\ AtLeast0(qty - paid) \in Nat
  BY <1>1, <1>3 DEF StatusFor, Payable, AtLeast0
<1>5. /\ new \in Bill /\ new.status = StatusFor(paid, qty) /\ new.qty = qty /\ new.paid = paid
      /\ new.owed = AtLeast0(qty - paid) /\ new.status \notin {"NONE", "CANCELLED"}
  BY <1>1, <1>2, <1>3, <1>4, <1>0a DEF Bill, Payable
<1>6. /\ payment' \in [Payments -> VendorPayment] /\ bill'[b] = new
      /\ payment'[p] = [status |-> "COMPLETED", bill |-> b, amount |-> n]
      /\ \A q \in Payments \ {p} : payment'[q] = payment[q]
  BY <1>1, <1>2 DEF VendorTypeOK, VendorPayment
<1>7. b \notin met =>
         bill[b].status \in {"APPROVED", "PARTIALLY_PAID"} /\ read = Completed(b, {}) /\ paid <= qty
  BY <1>0, <1>1, <1>3, <1>0a DEF Mine
<1>8. Completed(b, {})' = Completed(b, {}) + n
  <2> DEFINE S == CompletedOf(b)
  <2>1. IsFiniteSet(S) /\ S \subseteq Payments /\ p \notin S
    BY <1>1, SumsAreNumbers DEF CompletedOf
  <2>2. CompletedOf(b)' = S \cup {p}
    BY <1>1, <1>6 DEF CompletedOf
  <2>3. \A q \in S : AmountOf[q] = AmountOf'[q]
    BY <1>6, <2>1 DEF AmountOf
  <2>4. AmountOf'[p] = n /\ \A q \in S \cup {p} : AmountOf'[q] \in Nat
    BY <1>6, <2>1 DEF AmountOf, VendorPayment
  <2> HIDE DEF S
  <2>5. SumFunctionOnSet(AmountOf, S) = SumFunctionOnSet(AmountOf', S)
    BY <2>1, <2>3, SumSame
  <2>6. SumFunctionOnSet(AmountOf', S \cup {p}) = SumFunctionOnSet(AmountOf', S) + AmountOf'[p]
    BY <2>1, <2>4, SumAdd
  <2>7. S \ {} = S /\ (S \cup {p}) \ {} = S \cup {p}
    OBVIOUS
  <2> QED
    BY <2>2, <2>4, <2>5, <2>6, <2>7 DEF Completed, S
<1>9. b \notin met => Books(b)'
  <2> SUFFICES ASSUME b \notin met PROVE Books(b)'
    OBVIOUS
  <2>1. PICK debits \in Nat : debits = Debited(b)'
    BY <1>1, TotalsAreNumbers, SameNotes
  <2>2. Completed(b, {})' = paid
    BY <1>7, <1>8, <1>0a
  <2> QED
    BY <1>1, <1>5, <1>6, <1>7, <2>1, <2>2, SettledBooks
<1>10. new.status \notin {"NONE", "CANCELLED"} /\ b \notin met =>
         bill[b].status \notin {"NONE", "CANCELLED"} /\ new.qty <= bill[b].qty
  BY <1>3, <1>5, <1>7
<1>11. \A q \in Payments :
           \/ payment'[q] = payment[q]
           \/ payment[q].bill = b /\ payment'[q].bill = b /\ payment'[q].status # "NONE"
           \/ payment[q].status = "NONE" /\ payment'[q].bill = b /\ payment'[q].status # "NONE"
  BY <1>1, <1>6
<1> QED
  BY <1>1, <1>2, <1>5, <1>6, <1>9, <1>10, <1>11, BillOnlyStep

LEMMA RecordReversalStep ==
    ASSUME VendorInv, Meets, NEW c \in Clerks, RecordReversal(c)
    PROVE  VendorInv'
<1>0. PICK b, p, paid : b = slot[c].on /\ p = slot[c].doc /\ paid = slot[c].read
  OBVIOUS
<1>0a. PICK new : new = [bill[b] EXCEPT !.paid = paid, !.owed = AtLeast0(bill[b].qty - paid),
                                         !.status = StatusFor(paid, bill[b].qty)]
  OBVIOUS
<1>1. /\ VendorTypeOK /\ RowsOK /\ slot[c].op = "summed" /\ paid \in Nat
      /\ p \in Payments /\ payment[p].status # "NONE" /\ payment[p].bill = b
      /\ UNCHANGED <<order, vreturn, notes>> /\ Finish(c) /\ On(slot[c], b)
  BY <1>0, InHand DEF RecordReversal, Holds, On
<1>1a. b \in Bills /\ There(b) /\ (b \notin met => Books(b) /\ Mine(slot[c], b))
  BY <1>1, InHand DEF RowsOK, There
<1>2. /\ bill' = [bill EXCEPT ![b] = new] /\ bill[b] \in Bill
      /\ payment' = [payment EXCEPT ![p].status = "REVERSED"]
  BY <1>0, <1>1, <1>1a, <1>0a DEF RecordReversal, Settle, VendorTypeOK
<1>3. PICK qty \in Nat : qty = bill[b].qty
  BY <1>2 DEF Bill
<1>4. StatusFor(paid, qty) \in Payable /\ AtLeast0(qty - paid) \in Nat
  BY <1>1, <1>3 DEF StatusFor, Payable, AtLeast0
<1>5. /\ new \in Bill /\ new.status = StatusFor(paid, qty) /\ new.qty = qty /\ new.paid = paid
      /\ new.owed = AtLeast0(qty - paid) /\ new.status \notin {"NONE", "CANCELLED"}
  BY <1>1, <1>2, <1>3, <1>4, <1>0a DEF Bill, Payable
<1>6. /\ payment' \in [Payments -> VendorPayment] /\ bill'[b] = new
      /\ payment'[p].status = "REVERSED" /\ payment'[p].bill = b
      /\ \A q \in Payments \ {p} : payment'[q] = payment[q]
  BY <1>1, <1>1a, <1>2 DEF VendorTypeOK, VendorPayment
<1>7. b \notin met => p \in CompletedOf(b) /\ paid = Completed(b, {p})
  BY <1>0, <1>1, <1>1a DEF Mine
<1>8. b \notin met => Completed(b, {})' = paid /\ paid <= qty
  <2> SUFFICES ASSUME b \notin met PROVE Completed(b, {})' = paid /\ paid <= qty
    OBVIOUS
  <2> DEFINE S == CompletedOf(b)
             T == S \ {p}
  <2>1. IsFiniteSet(S) /\ S \subseteq Payments /\ IsFiniteSet(T) /\ T \subseteq S /\ p \in S
    BY <1>1, <1>7, SumsAreNumbers DEF CompletedOf
  <2>2. CompletedOf(b)' = T
    BY <1>6 DEF CompletedOf
  <2>3. \A q \in T : AmountOf[q] = AmountOf'[q]
    BY <1>6, <2>1 DEF AmountOf
  <2>4. \A q \in S : AmountOf[q] \in Nat /\ AmountOf[q] <= AmountOf[q]
    BY <1>1, <2>1 DEF AmountOf, VendorTypeOK, VendorPayment
  <2>5. paid = SumFunctionOnSet(AmountOf, T) /\ Completed(b, {}) = SumFunctionOnSet(AmountOf, S)
    <3>1. S \ {} = S
      OBVIOUS
    <3> QED
      BY <1>7, <3>1 DEF Completed
  <2>6. T \ {} = T
    OBVIOUS
  <2> HIDE DEF S, T
  <2>7. SumFunctionOnSet(AmountOf, T) = SumFunctionOnSet(AmountOf', T)
    BY <2>1, <2>3, SumSame
  <2>8. SumFunctionOnSet(AmountOf, T) <= SumFunctionOnSet(AmountOf, S)
    BY <2>1, <2>4, SumMonotone
  <2>9. Completed(b, {})' = paid
    BY <2>2, <2>5, <2>6, <2>7 DEF Completed
  <2>10. Completed(b, {}) <= qty /\ Completed(b, {}) \in Nat
    BY <1>1, <1>1a, <1>3, TotalsAreNumbers DEF Books, Unpaid
  <2> QED
    BY <1>1, <2>5, <2>8, <2>9, <2>10
<1>9. b \notin met => Books(b)'
  <2> SUFFICES ASSUME b \notin met PROVE Books(b)'
    OBVIOUS
  <2>1. PICK debits \in Nat : debits = Debited(b)'
    BY <1>1, TotalsAreNumbers, SameNotes
  <2> QED
    BY <1>1, <1>1a, <1>5, <1>6, <1>8, <2>1, SettledBooks
<1>10. new.status \notin {"NONE", "CANCELLED"} /\ b \notin met =>
         bill[b].status \notin {"NONE", "CANCELLED"} /\ new.qty <= bill[b].qty
  <2> SUFFICES ASSUME b \notin met
               PROVE  bill[b].status \notin {"NONE", "CANCELLED"} /\ new.qty <= bill[b].qty
    OBVIOUS
  <2>1. bill[b].status \in Payable
    BY <1>1a, <1>7 DEF Books
  <2> QED
    BY <1>3, <1>5, <2>1 DEF Payable
<1>11. \A q \in Payments :
           \/ payment'[q] = payment[q]
           \/ payment[q].bill = b /\ payment'[q].bill = b /\ payment'[q].status # "NONE"
           \/ payment[q].status = "NONE" /\ payment'[q].bill = b /\ payment'[q].status # "NONE"
  BY <1>1, <1>6
<1> QED
  BY <1>1, <1>1a, <1>2, <1>5, <1>6, <1>9, <1>10, <1>11, BillOnlyStep

LEMMA ProcessReturnStep ==
    ASSUME VendorInv, Meets, NEW c \in Clerks, ProcessReturn(c)
    PROVE  VendorInv'
<1>0. PICK b, t, read : b = slot[c].on /\ t = slot[c].doc /\ read = slot[c].read
  OBVIOUS
<1>1. /\ VendorTypeOK /\ slot[c].op = "noted" /\ read \in Nat /\ b \in Bills /\ There(b)
      /\ t \in Returns /\ t \notin notes /\ vreturn[t].bill = b
      /\ UNCHANGED <<order, payment, vreturn>> /\ Finish(c) /\ On(slot[c], b)
      /\ notes' = notes \cup {t}
      /\ b \notin met => Books(b) /\ Mine(slot[c], b)
  BY <1>0, InHand DEF ProcessReturn, Holds, There, On
<1>2. PICK worth \in Nat : worth = vreturn[t].amount
  BY <1>1, VendorAssumption DEF VendorTypeOK
<1>3. PICK owed, new : owed = AtLeast0(read - worth) /\ new = [bill[b] EXCEPT !.owed = owed]
  OBVIOUS
<1>4. owed \in Nat /\ owed >= read - worth /\ (owed = read - worth \/ owed = 0)
  BY <1>1, <1>2, <1>3 DEF AtLeast0
<1>5. bill' = [bill EXCEPT ![b] = new] /\ bill[b] \in Bill
  BY <1>0, <1>1, <1>2, <1>3 DEF ProcessReturn, VendorTypeOK
<1>6. /\ new \in Bill /\ new.status = bill[b].status /\ new.qty = bill[b].qty
      /\ new.paid = bill[b].paid /\ new.owed = owed
  BY <1>3, <1>4, <1>5 DEF Bill
<1>7. bill'[b] = new /\ bill[b].qty \in Nat /\ bill[b].owed \in Nat
  BY <1>1, <1>5 DEF VendorTypeOK, Bill
<1>8. Debited(b)' = Debited(b) + worth
  <2> DEFINE S == {r \in notes : vreturn[r].bill = b}
  <2>1. IsFiniteSet(S) /\ S \subseteq Returns /\ t \notin S
    BY <1>1, SumsAreNumbers DEF VendorTypeOK
  <2>2. {r \in notes' : vreturn'[r].bill = b} = S \cup {t}
    BY <1>1
  <2>3. WorthOf' = WorthOf
    BY <1>1 DEF WorthOf
  <2>4. WorthOf[t] = worth /\ \A r \in S \cup {t} : WorthOf[r] \in Nat
    BY <1>1, <1>2, <2>1, VendorAssumption DEF WorthOf, VendorTypeOK
  <2>5. Debited(b) = SumFunctionOnSet(WorthOf, S)
        /\ Debited(b)' = SumFunctionOnSet(WorthOf, S \cup {t})
    BY <2>2, <2>3 DEF Debited
  <2> HIDE DEF S
  <2>6. SumFunctionOnSet(WorthOf, S \cup {t}) = SumFunctionOnSet(WorthOf, S) + WorthOf[t]
    BY <2>1, <2>4, SumAdd
  <2> QED
    BY <2>4, <2>5, <2>6
<1>9. b \notin met => Books(b)'
  <2> SUFFICES ASSUME b \notin met, Books(b) PROVE Books(b)'
    BY <1>1
  <2>1. CompletedOf(b)' = CompletedOf(b) /\ Completed(b, {})' = Completed(b, {})
    BY <1>1, SamePayments
  <2>2. Unpaid(b)' = Unpaid(b) /\ Unpaid(b) \in Int
    BY <1>1, <1>6, <1>7, <2>1, TotalsAreNumbers DEF Unpaid
  <2>3. read = bill[b].owed
    BY <1>0, <1>1 DEF Mine
  <2>4. Debited(b) \in Nat
    BY <1>1, TotalsAreNumbers
  <2>5. Unpaid(b) >= 0 /\ Unpaid(b) - Debited(b) <= read /\ read <= Unpaid(b)
    BY <2>3 DEF Books
  <2>6. Unpaid(b)' - Debited(b)' <= owed /\ owed <= Unpaid(b)'
    BY <1>1, <1>2, <1>4, <1>8, <2>2, <2>4, <2>5
  <2> QED
    BY <1>6, <1>7, <2>1, <2>2, <2>5, <2>6 DEF Books
<1>10. /\ payment' \in [Payments -> VendorPayment] /\ new.status # "NONE"
       /\ vreturn[slot[c].doc].bill = b /\ notes' = notes \cup {slot[c].doc}
       /\ bill[b].qty <= bill[b].qty
  BY <1>0, <1>1, <1>6, <1>7 DEF VendorTypeOK, There
<1> QED
  BY <1>1, <1>5, <1>6, <1>9, <1>10, BillOnlyStep
-----------------------------------------------------------------------------
(* The specification.                                                      *)

\* In the beginning there is no bill and no payment, so all sums are zero.
LEMMA VendorInit == Init => VendorInv
<1> SUFFICES ASSUME Init PROVE VendorInv
  OBVIOUS
<1>1. /\ order = [status |-> "APPROVED", received |-> 0]
      /\ bill = [b \in Bills |-> [status |-> "NONE", qty |-> 0, paid |-> 0, owed |-> 0]]
      /\ payment = [p \in Payments |-> [status |-> "NONE", bill |-> None, amount |-> 0]]
      /\ vreturn \in [Returns -> [bill : Bills, amount : Amounts]]
      /\ notes = {} /\ met = {} /\ slot = [c \in Clerks |-> Idle]
  BY DEF Init
<1>2. VendorTypeOK
  <2>1. order \in [status : {"APPROVED", "RECEIVING", "COMPLETED", "CANCELLED"}, received : Nat]
    BY <1>1
  <2>2. bill \in [Bills -> Bill]
    BY <1>1 DEF Bill
  <2>3. payment \in [Payments -> VendorPayment]
    BY <1>1 DEF VendorPayment
  <2>4. slot \in [Clerks -> Reading]
    BY <1>1, IdleIsAReading
  <2> QED
    BY <1>1, <2>1, <2>2, <2>3, <2>4 DEF VendorTypeOK
<1>3. \A c \in Clerks : slot[c] = Idle
  BY <1>1
<1>4. RowsOK /\ NotedOnce /\ \A c \in Clerks : Holds(slot[c]) /\ Asked(slot[c])
  BY <1>1, <1>3, IdleIsAReading DEF RowsOK, NotedOnce, Holds, Asked, Moving
<1>5. \A d \in {Order} \cup Bills, c \in Clerks : ~On(slot[c], d)
  BY <1>3, IdleIsAReading, Tables
<1>6. ASSUME NEW b \in Bills PROVE Books(b)
  <2>1. CompletedOf(b) = {} /\ {r \in notes : vreturn[r].bill = b} = {}
    BY <1>1 DEF CompletedOf
  <2>2. Completed(b, {}) = 0
    <3>1. CompletedOf(b) \ {} = {}
      BY <2>1
    <3> QED
      BY <3>1, SumEmpty DEF Completed
  <2>3. Debited(b) = 0
    BY <2>1, SumEmpty DEF Debited
  <2>4. bill[b] = [status |-> "NONE", qty |-> 0, paid |-> 0, owed |-> 0]
    BY <1>1
  <2>5. Unpaid(b) = 0
    BY <2>2, <2>4 DEF Unpaid
  <2> QED
    BY <2>1, <2>2, <2>3, <2>4, <2>5 DEF Books
<1>7. Supplied
  <2>1. StandingOf(Bills) = {}
    BY <1>1 DEF StandingOf
  <2>2. Billed(Bills) = 0
    BY <2>1, SumEmpty DEF Billed
  <2> QED
    BY <1>1, <2>2, VendorAssumption DEF Supplied
<1> QED
  BY <1>2, <1>4, <1>5, <1>6, <1>7 DEF VendorInv, Alone

LEMMA VendorStep == VendorInv /\ [Step]_vars => VendorInv'
<1> SUFFICES ASSUME VendorInv, [Step]_vars PROVE VendorInv'
  OBVIOUS
<1>1. CASE UNCHANGED vars
  <2>1. UNCHANGED rows /\ slot' = slot /\ met' = met
    BY <1>1 DEF vars
  <2>2. VendorTypeOK' /\ NotedOnce' /\ \A d : Alone(d)' = Alone(d)
    BY <2>1 DEF VendorInv, VendorTypeOK, NotedOnce, Alone, On, rows
  <2>3. VendorTypeOK
    BY DEF VendorInv
  <2>4. /\ RowsOK' /\ (Supplied => Supplied')
        /\ \A c \in Clerks : Holds(slot[c])' /\ (Asked(slot[c]) => Asked(slot[c])')
    BY <2>1, <2>3, SameTables DEF VendorInv
  <2>5. ASSUME NEW b \in Bills \ met
        PROVE  Books(b)' /\ \A c \in Clerks : On(slot'[c], b) => Mine(slot[c], b)'
    BY <2>1, <2>3, SameTables, SameBooks DEF VendorInv
  <2> QED
    BY <2>1, <2>2, <2>4, <2>5 DEF VendorInv
<1>2. CASE Step
  <2>1. Meets
    BY <1>2 DEF Step, Meets
  <2>2. PICK c \in Clerks :
           \/ \E d \in {Order} \cup Bills, to \in {"SUBMITTED", "APPROVED", "CANCELLED"} :
                 ReadForMove(c, d, to)
           \/ \E n \in Quantities :
                 \/ ReadForBill(c, n)
                 \/ \E b \in Bills : ReadForEdit(c, b, n) \/ ReadForPayment(c, b, n)
           \/ \E b \in Bills : CreateBill(c, b)
           \/ \E p \in Payments : RecordPayment(c, p) \/ ReadForReversal(c, p)
           \/ \E r \in Returns : ReadForDebit(c, r)
           \/ \E n \in Quantities, m \in {0} \cup Quantities : ReadForReceive(c, n, m)
           \/ Move(c) \/ Receive(c) \/ EditBill(c) \/ SumForReversal(c) \/ RecordReversal(c)
           \/ IssueNote(c) \/ ProcessReturn(c) \/ Fail(c)
    BY <1>2 DEF Step, Request
  <2>3. CASE \E d \in {Order} \cup Bills, to \in {"SUBMITTED", "APPROVED", "CANCELLED"} :
                ReadForMove(c, d, to)
    BY <2>1, <2>3, ReadForMoveStep DEF Moving
  <2>4. CASE \E n \in Quantities : ReadForBill(c, n)
    BY <2>1, <2>4, ReadForBillStep
  <2>5. CASE \E n \in Quantities, b \in Bills : ReadForEdit(c, b, n)
    BY <2>1, <2>5, ReadForEditStep
  <2>6. CASE \E n \in Quantities, b \in Bills : ReadForPayment(c, b, n)
    BY <2>1, <2>6, ReadForPaymentStep
  <2>7. CASE \E b \in Bills : CreateBill(c, b)
    BY <2>1, <2>7, CreateBillStep
  <2>8. CASE \E p \in Payments : RecordPayment(c, p)
    BY <2>1, <2>8, RecordPaymentStep
  <2>9. CASE \E p \in Payments : ReadForReversal(c, p)
    BY <2>1, <2>9, ReadForReversalStep
  <2>10. CASE \E r \in Returns : ReadForDebit(c, r)
    BY <2>1, <2>10, ReadForDebitStep
  <2>11. CASE \E n \in Quantities, m \in {0} \cup Quantities : ReadForReceive(c, n, m)
    BY <2>1, <2>11, ReadForReceiveStep
  <2>12. CASE Move(c)
    BY <2>1, <2>12, MoveOrderStep, MoveBillStep
  <2>13. CASE Receive(c)
    BY <2>1, <2>13, ReceiveStep
  <2>14. CASE EditBill(c)
    BY <2>1, <2>14, EditBillStep
  <2>15. CASE SumForReversal(c)
    BY <2>1, <2>15, SumForReversalStep
  <2>16. CASE RecordReversal(c)
    BY <2>1, <2>16, RecordReversalStep
  <2>17. CASE IssueNote(c)
    BY <2>1, <2>17, IssueNoteStep
  <2>18. CASE ProcessReturn(c)
    BY <2>1, <2>18, ProcessReturnStep
  <2>19. CASE Fail(c)
    BY <2>1, <2>19, FailStep
  <2> QED
    BY <2>2, <2>3, <2>4, <2>5, <2>6, <2>7, <2>8, <2>9, <2>10, <2>11, <2>12, <2>13, <2>14,
       <2>15, <2>16, <2>17, <2>18, <2>19
<1> QED
  BY <1>1, <1>2

LEMMA ShopKeepsInv == Shop => []VendorInv
BY VendorInit, VendorStep, PTL DEF Shop

\* What TLC explores is a part of what may happen in the shop: the bound of Next
\* on meetings only forbids steps.
LEMMA PartOfTheShop == Spec => Shop
<1>1. [Next]_vars => [Step]_vars
  BY DEF Next
<1> QED
  BY <1>1, PTL DEF Spec, Shop

\* The rows of the purchase order, its bills, payments and debit notes, and what
\* the requests have read of them, have the types the schema and the handlers
\* give them, whatever overlaps.
THEOREM VendorTypes == Shop => []VendorTypeOK
<1>1. VendorInv => VendorTypeOK
  BY DEF VendorInv
<1> QED
  BY <1>1, ShopKeepsInv, PTL

\* No order is billed for more than was received of it, nor received beyond
\* what was ordered, until two requests meet on the order or one of its bills,
\* or a receipt names its line twice (validateBillableItems and
\* receivePurchaseOrder, for any quantities and any number of bills).
THEOREM BillsFollowReceipts == Shop => []BilledIsReceived
<1>1. VendorInv => BilledIsReceived
  BY DEF VendorInv, Supplied, BilledIsReceived
<1> QED
  BY <1>1, ShopKeepsInv, PTL

\* The paid and outstanding columns and the status of a bill agree with its
\* payments and its debit notes, and it is never overpaid, as long as no two
\* requests have met on that bill; what meets elsewhere does no harm.
THEOREM BillsFollowPayments == Shop => []BillFollowsPayments
<1>1. VendorInv => BillFollowsPayments
  <2> SUFFICES ASSUME VendorInv, NEW b \in Bills \ met, Books(b)
               PROVE  LET unpaid == bill[b].qty - Completed(b, {}) IN
                      /\ bill[b].paid = Completed(b, {}) /\ unpaid >= 0
                      /\ unpaid - Debited(b) <= bill[b].owed /\ bill[b].owed <= unpaid
                      /\ bill[b].status \in {"PARTIALLY_PAID", "PAID"} =>
                             bill[b].status = StatusFor(bill[b].paid, bill[b].qty)
    BY DEF VendorInv, BillFollowsPayments
  <2> QED
    BY DEF Books, Unpaid
<1> QED
  BY <1>1, ShopKeepsInv, PTL
=============================================================================
