--------------------------- MODULE PaymentsProofs ---------------------------
(***************************************************************************)
(* The books of SalesPayments, proved for any number of invoices, rows and *)
(* overlapping requests, and without the bounds of Next.  What is proved   *)
(* is about an invoice on which no two requests have met: while one        *)
(* request has it in hand, what that request has read of it stays true.    *)
(* The payment number is a count read earlier, so two payments may compete *)
(* for it; what matters, raced or not, is that the count of the rows never *)
(* falls behind the numbers in use.                                        *)
(***************************************************************************)
EXTENDS SalesPayments, SumTheorems

Made == {d \in Deposits : deposit[d].status # "NONE"}

Sold(v) == invoice[v].status \in {"CONFIRMED", "CANCELLED"}

\* Every number in use is one that was counted before, or that of a deposit.
Counted == \A p \in Recorded : payment[p].number \in 0..Cardinality(Recorded)

\* The rows refer to each other the way foreign keys and the handlers' order say.
RowsOK ==
    /\ IsFiniteSet(Recorded) /\ IsFiniteSet(Made) /\ Counted
    /\ \A p \in Recorded : /\ payment[p].inv \in Invoices /\ Sold(payment[p].inv)
                           /\ payment[p].amount > 0
    /\ \A e \in Exchanges : exchange[e].status # "NONE" =>
          exchange[e].inv \in Invoices /\ invoice[exchange[e].inv].status # "NONE"
    /\ \A d \in Made : deposit[d].inv \in Converted
    /\ \A d \in Made : deposit[d].status = "LATE" => ~SlipIsOut(deposit[d].inv)

\* What a request knows whatever the others do.
Holds(r) ==
    /\ r.op \in {"pay", "payNumbered"} => r.inv \in Invoices /\ Sold(r.inv) /\ r.amount > 0
    /\ r.op = "payNumbered" => r.number \in 1..NextNumber
    /\ r.op \in {"reverse", "reversing"} => r.row \in Recorded /\ payment[r.row].inv = r.inv
    /\ r.op = "request" => r.inv \in Invoices /\ invoice[r.inv].status # "NONE"
    /\ r.op \in {"value", "apply", "drop"} =>
          /\ r.row \in Exchanges /\ exchange[r.row].status # "NONE"
          /\ exchange[r.row].inv = r.inv
    /\ r.op \in {"value", "apply"} => r.amount \in Values \cup {0}
    /\ r.op \in {"deposit", "depositing", "purchase"} => r.inv \in Converted
    /\ r.op = "undo" => r.row \in Made /\ deposit[r.row].inv = r.inv

PaidOf(v) == {p \in Recorded : payment[p].inv = v}

\* What it has read of its invoice, which nobody else has in hand.
Mine(r) ==
    /\ r.op \in {"pay", "payNumbered"} => /\ r.sum = CompletedTotal(r.inv) /\ r.net = Payable(r.inv)
                                          /\ r.sum + r.amount <= r.net
    /\ r.op \in {"reverse", "reversing"} => r.row \in CompletedOf(r.inv) /\ r.net = Payable(r.inv)
    /\ r.op = "reversing" => r.sum = SumAmounts(CompletedOf(r.inv) \ {r.row})
    /\ r.op = "apply" => /\ exchange[r.row].value = r.amount /\ AppliedTo(r.inv) = {}
                         /\ PaidOf(r.inv) = {}
    /\ r.op \in {"value", "drop"} => exchange[r.row].status # "APPLIED"
    /\ r.op \in {"deposit", "depositing"} => SlipIsOut(r.inv)
    /\ r.op = "depositing" => DepositFits(r.inv, r.amount)
    /\ r.op = "undo" => deposit[r.row].status = "COMPLETED"
    /\ r.op = "purchase" => r.sum = DepositTotal(r.inv)

\* The properties, of one invoice, and that one that has been paid on is worth something.
Settled(v) ==
    PaidOf(v) # {} =>
        /\ 0 < Payable(v) /\ CompletedTotal(v) <= Payable(v)
        /\ invoice[v].totalPaid = CompletedTotal(v)
        /\ invoice[v].outstanding = Outstanding(Payable(v), CompletedTotal(v))
        /\ invoice[v].paymentStatus = "PAID" <=> CompletedTotal(v) = Payable(v)

Credited(v) ==
    IF AppliedTo(v) = {} THEN invoice[v].credit = 0
    ELSE \E e \in AppliedTo(v) : AppliedTo(v) = {e} /\ invoice[v].credit = exchange[e].value

Booked(v) ==
    v \in Converted /\ invoice[v].status # "NONE" =>
        LET kept == SumDeposits(KeptDeposits(v))
        IN  SumAmounts(DepositPayments(v)) = IF kept < Total[v] THEN kept ELSE Total[v]

Covered(v) == v \in Converted /\ Required[v] > 0 => DepositTotal(v) <= Required[v]

Books(v) == Settled(v) /\ Credited(v) /\ Booked(v) /\ Covered(v)

Alone(v) == \A c, d \in InHand(v) : c = d

PaymentsInv ==
    /\ TypeOK /\ RowsOK
    /\ \A c \in Calls : Holds(call[c])
    /\ \A v \in Invoices \ raced : Alone(v) /\ Books(v) /\ \A c \in InHand(v) : Mine(call[c])

Races == raced' = raced \cup {v \in Invoices : Cardinality(InHand(v)') > 1}

-----------------------------------------------------------------------------

\* The sums are sums of numbers.
LEMMA SumsAreNumbers ==
    ASSUME TypeOK, RowsOK
    PROVE  /\ \A S \in SUBSET Recorded : IsFiniteSet(S) /\ SumAmounts(S) \in Nat
           /\ \A S \in SUBSET Made : IsFiniteSet(S) /\ SumDeposits(S) \in Nat
<1>1. \A p \in Payments : PaymentAmounts[p] \in Nat
  BY DEF TypeOK, PaymentAmounts
<1>2. \A d \in Deposits : DepositAmounts[d] \in Nat
  BY DEF TypeOK, DepositAmounts
<1>3. ASSUME NEW S \in SUBSET Recorded PROVE IsFiniteSet(S) /\ SumAmounts(S) \in Nat
  <2>1. IsFiniteSet(S) /\ \A p \in S : PaymentAmounts[p] \in Nat
    BY <1>1, FS_Subset DEF RowsOK, Recorded
  <2> QED
    BY <2>1, SumNat DEF SumAmounts
<1>4. ASSUME NEW S \in SUBSET Made PROVE IsFiniteSet(S) /\ SumDeposits(S) \in Nat
  <2>1. IsFiniteSet(S) /\ \A d \in S : DepositAmounts[d] \in Nat
    BY <1>2, FS_Subset DEF RowsOK, Made
  <2> QED
    BY <2>1, SumNat DEF SumDeposits
<1> QED
  BY <1>3, <1>4

LEMMA PartsOfTheTables ==
    /\ \A v : /\ CompletedOf(v) \subseteq PaidOf(v) /\ PaidOf(v) \subseteq Recorded
              /\ DepositPayments(v) \subseteq PaidOf(v)
    /\ TypeOK /\ RowsOK => \A v : DepositsOf(v) \subseteq Made /\ KeptDeposits(v) \subseteq Made
BY DEF CompletedOf, PaidOf, Recorded, DepositPayments, DepositsOf, KeptDeposits, Made, RowsOK

\* Two requests that have an invoice in hand have met on it.
LEMMA OneInHand ==
    ASSUME Races, NEW v \in Invoices \ raced'
    PROVE  v \notin raced /\ Alone(v)'
<1> DEFINE S == InHand(v)'
<1>1. v \notin raced /\ ~ (Cardinality(S) > 1)
  BY DEF Races
<1>2. IsFiniteSet(S)
  <2> S \subseteq Calls
    BY DEF InHand
  <2> HIDE DEF S
  <2> QED
    BY FS_Subset, PaymentsAssumption
<1>3. ASSUME NEW c \in S, NEW d \in S, c # d PROVE FALSE
  <2> DEFINE T == {c} \cup {d}
  <2>1. IsFiniteSet({c}) /\ Cardinality({c}) = 1 /\ d \notin {c}
    BY <1>3, FS_Singleton
  <2>2. Cardinality(T) = 2
    BY <2>1, FS_AddElement
  <2> T \in SUBSET S
    OBVIOUS
  <2> HIDE DEF S, T
  <2>3. Cardinality(T) <= Cardinality(S) /\ Cardinality(S) \in Nat
    BY <1>2, FS_Subset, FS_CardinalityType
  <2> QED
    BY <1>1, <2>2, <2>3
<1> QED
  BY <1>1, <1>3 DEF Alone

-----------------------------------------------------------------------------
(* An invoice that a step leaves alone.                                    *)

Same(v) ==
    /\ invoice'[v].credit = invoice[v].credit /\ invoice'[v].totalPaid = invoice[v].totalPaid
    /\ invoice'[v].outstanding = invoice[v].outstanding
    /\ invoice'[v].paymentStatus = invoice[v].paymentStatus
    /\ invoice'[v].status = "NONE" <=> invoice[v].status = "NONE"
    /\ \A p \in Payments : p \in PaidOf(v) \/ p \in PaidOf(v)' => payment'[p] = payment[p]
    /\ \A e \in Exchanges : /\ exchange[e].status # "NONE" /\ exchange[e].inv = v =>
                                 exchange'[e] = exchange[e]
                            /\ e \in AppliedTo(v)' => exchange'[e] = exchange[e]
    /\ \A d \in Deposits : d \in DepositsEver(v) \/ d \in DepositsEver(v)' =>
                              deposit'[d] = deposit[d]

\* Its rows, and what they add up to, are what they were.
LEMMA SameRows ==
    ASSUME TypeOK, RowsOK, RowsOK', NEW v \in Invoices, Same(v)
    PROVE  /\ PaidOf(v)' = PaidOf(v) /\ CompletedOf(v)' = CompletedOf(v)
           /\ AppliedTo(v)' = AppliedTo(v) /\ DepositsEver(v)' = DepositsEver(v)
           /\ DepositsOf(v)' = DepositsOf(v) /\ KeptDeposits(v)' = KeptDeposits(v)
           /\ DepositPayments(v)' = DepositPayments(v)
           /\ Payable(v)' = Payable(v)
<1>1. PaidOf(v)' = PaidOf(v)
  BY DEF Same, PaidOf, Recorded
<1>2. CompletedOf(v)' = CompletedOf(v) /\ DepositPayments(v)' = DepositPayments(v)
  BY DEF Same, PaidOf, Recorded, CompletedOf, DepositPayments
<1>3. AppliedTo(v)' = AppliedTo(v)
  BY DEF Same, AppliedTo
<1>4. DepositsEver(v)' = DepositsEver(v) /\ DepositsOf(v)' = DepositsOf(v)
  BY DEF Same, DepositsEver, DepositsOf
<1>5. KeptDeposits(v)' = KeptDeposits(v)
  BY DEF Same, DepositsEver, KeptDeposits, RowsOK, Made
<1>6. Payable(v)' = Payable(v)
  BY DEF Same, Payable
<1> QED
  BY <1>1, <1>2, <1>3, <1>4, <1>5, <1>6

LEMMA SameSums ==
    ASSUME TypeOK, RowsOK, RowsOK', NEW v \in Invoices, Same(v)
    PROVE  /\ \A S \in SUBSET PaidOf(v) : SumFunctionOnSet(PaymentAmounts', S) = SumAmounts(S)
           /\ \A S \in SUBSET DepositsEver(v) : SumFunctionOnSet(DepositAmounts', S) = SumDeposits(S)
<1>1. ASSUME NEW S \in SUBSET PaidOf(v)
      PROVE  SumFunctionOnSet(PaymentAmounts', S) = SumAmounts(S)
  <2>1. IsFiniteSet(S)
    BY SumsAreNumbers, PartsOfTheTables
  <2>2. \A p \in S : PaymentAmounts'[p] = PaymentAmounts[p]
    BY DEF Same, PaidOf, Recorded, PaymentAmounts
  <2> QED
    BY <2>1, <2>2, SumSame DEF SumAmounts
<1>2. ASSUME NEW S \in SUBSET DepositsEver(v)
      PROVE  SumFunctionOnSet(DepositAmounts', S) = SumDeposits(S)
  <2>1. IsFiniteSet(S)
    BY SumsAreNumbers DEF DepositsEver, Made
  <2>2. \A d \in S : DepositAmounts'[d] = DepositAmounts[d]
    BY DEF Same, DepositsEver, DepositAmounts
  <2> QED
    BY <2>1, <2>2, SumSame DEF SumDeposits
<1> QED
  BY <1>1, <1>2

LEMMA SameTotals ==
    ASSUME TypeOK, RowsOK, RowsOK', NEW v \in Invoices, Same(v)
    PROVE  /\ CompletedTotal(v)' = CompletedTotal(v) /\ DepositTotal(v)' = DepositTotal(v)
           /\ SumDeposits(KeptDeposits(v))' = SumDeposits(KeptDeposits(v))
           /\ SumAmounts(DepositPayments(v))' = SumAmounts(DepositPayments(v))
           /\ \A p : SumFunctionOnSet(PaymentAmounts', CompletedOf(v) \ {p})
                         = SumAmounts(CompletedOf(v) \ {p})
<1>1. /\ CompletedOf(v) \in SUBSET PaidOf(v) /\ DepositPayments(v) \in SUBSET PaidOf(v)
      /\ \A p : CompletedOf(v) \ {p} \in SUBSET PaidOf(v)
  BY PartsOfTheTables
<1>2. DepositsOf(v) \in SUBSET DepositsEver(v) /\ KeptDeposits(v) \in SUBSET DepositsEver(v)
  BY DEF DepositsOf, DepositsEver, KeptDeposits, RowsOK, Made
<1> QED
  BY <1>1, <1>2, SameRows, SameSums DEF CompletedTotal, DepositTotal, SumAmounts, SumDeposits

\* So its books are in order if they were, ...
LEMMA SameBooks ==
    ASSUME TypeOK, RowsOK, RowsOK', NEW v \in Invoices, Same(v), Books(v)
    PROVE  Books(v)'
<1>1. Settled(v)'
  BY SameRows, SameTotals DEF Books, Settled, Same, Outstanding
<1>2. Credited(v)'
  BY SameRows DEF Books, Credited, Same, AppliedTo
<1>3. Booked(v)'
  BY SameTotals DEF Books, Booked, Same
<1>4. Covered(v)'
  BY SameTotals DEF Books, Covered
<1> QED
  BY <1>1, <1>2, <1>3, <1>4 DEF Books

\* ... and whoever has it in hand has read what is still true.
LEMMA SameMine ==
    ASSUME TypeOK, RowsOK, RowsOK', NEW v \in Invoices, Same(v),
           NEW c \in Calls, call[c].inv = v, call'[c] = call[c], Holds(call[c]), Mine(call[c])
    PROVE  Mine(call[c])'
<1> DEFINE r == call[c]
<1>1. r.op \in {"pay", "payNumbered", "purchase", "depositing"} => Mine(r)'
  BY SameTotals, SameRows DEF Mine, DepositFits, SlipIsOut, Same
<1>2. r.op \in {"reverse", "reversing"} => Mine(r)'
  BY SameTotals, SameRows DEF Mine, SumAmounts
<1>3. r.op \in {"value", "apply", "drop"} => Mine(r)'
  BY SameRows DEF Mine, Holds, Same
<1>4. r.op \in {"deposit", "undo"} => Mine(r)'
  BY SameRows DEF Mine, Holds, Same, SlipIsOut, Made, DepositsEver
<1>5. r.op \in {"idle", "request"} => Mine(r)'
  BY DEF Mine
<1> QED
  BY <1>1, <1>2, <1>3, <1>4, <1>5 DEF TypeOK, Reading

-----------------------------------------------------------------------------
(* Steps in general: one that writes nothing, and one that ends a request. *)

\* Nothing goes back to what it was before the row was there.
Grows ==
    /\ \A v \in Invoices : /\ invoice[v].status # "NONE" => invoice'[v].status # "NONE"
                           /\ Sold(v) => Sold(v)'
    /\ \A p \in Recorded : p \in Recorded' /\ payment'[p].inv = payment[p].inv
    /\ \A e \in Exchanges : exchange[e].status # "NONE" =>
          exchange'[e].status # "NONE" /\ exchange'[e].inv = exchange[e].inv
    /\ \A d \in Made : d \in Made' /\ deposit'[d].inv = deposit[d].inv

LEMMA HoldsOn ==
    ASSUME RowsOK, RowsOK', Grows, NEW c \in Calls, call'[c] = call[c], Holds(call[c])
    PROVE  Holds(call[c])'
<1>1. NextNumber \in Nat /\ NextNumber' \in Nat /\ NextNumber <= NextNumber'
  <2>1. Recorded \subseteq Recorded' /\ IsFiniteSet(Recorded) /\ IsFiniteSet(Recorded')
    BY DEF Grows, RowsOK
  <2> QED
    BY <2>1, FS_Subset, FS_CardinalityType DEF NextNumber
<1> QED
  BY <1>1 DEF Grows, Holds

\* What a request that is over, or one about nothing, has to keep: nothing.
LEMMA IdleHolds ==
    ASSUME NEW c \in Calls, call'[c] = Idle
    PROVE  Holds(call[c])' /\ \A v \in Invoices : c \notin InHand(v)'
BY PaymentsAssumption DEF Holds, Idle, InHand

LEMMA WriteStep ==
    ASSUME PaymentsInv, TypeOK', RowsOK', Grows, Races, NEW c,
           \A d \in Calls \ {c} : call'[d] = call[d],
           call'[c] = Idle \/ call'[c] = call[c],
           \A v \in Invoices :
              \/ Same(v)
              \/ /\ c \in Calls /\ call'[c] = Idle /\ v = call[c].inv /\ call[c].op # "request"
                 /\ v \notin raced /\ Mine(call[c]) /\ Books(v) => Books(v)'
    PROVE  PaymentsInv'
<1>1. ASSUME NEW d \in Calls PROVE Holds(call[d])'
  BY HoldsOn, IdleHolds DEF PaymentsInv
<1>2. ASSUME NEW v \in Invoices \ raced'
      PROVE  Alone(v)' /\ Books(v)' /\ \A d \in InHand(v)' : Mine(call[d])'
  <2>1. v \in Invoices \ raced /\ Alone(v)'
    BY OneInHand
  <2>2. /\ Alone(v) /\ Books(v) /\ \A d \in InHand(v) : Mine(call[d])
        /\ TypeOK /\ RowsOK /\ \A d \in Calls : Holds(call[d])
    BY <2>1 DEF PaymentsInv
  <2>3. CASE Same(v)
    <3>1. Books(v)'
      BY <2>1, <2>2, <2>3, SameBooks
    <3>2. ASSUME NEW d \in InHand(v)' PROVE Mine(call[d])'
      <4>1. d \in Calls /\ call'[d] = call[d] /\ d \in InHand(v) /\ call[d].inv = v
        BY IdleHolds DEF InHand
      <4> QED
        BY <4>1, <2>1, <2>2, <2>3, SameMine
    <3> QED
      BY <2>1, <3>1, <3>2
  <2>4. CASE /\ c \in Calls /\ call'[c] = Idle /\ v = call[c].inv /\ call[c].op # "request"
             /\ v \notin raced /\ Mine(call[c]) /\ Books(v) => Books(v)'
    <3>1. c \in InHand(v)
      BY <2>4 DEF InHand
    <3>2. Books(v)'
      BY <2>1, <2>2, <2>4, <3>1
    <3>3. InHand(v)' \subseteq InHand(v) \ {c}
      BY <2>1, <2>4, IdleHolds DEF InHand
    <3>4. InHand(v)' = {}
      BY <2>2, <3>1, <3>3 DEF Alone
    <3> QED
      BY <2>1, <3>2, <3>4
  <2> QED
    BY <2>1, <2>3, <2>4
<1> QED
  BY <1>1, <1>2 DEF PaymentsInv

\* With the rows, everything read from them stays.
LEMMA SameTables ==
    ASSUME UNCHANGED rows, TypeOK
    PROVE  /\ RowsOK => RowsOK'
           /\ Grows /\ \A v \in Invoices : Same(v)
<1>1. Recorded' = Recorded /\ Made' = Made /\ \A v : PaidOf(v)' = PaidOf(v)
  BY DEF rows, Recorded, Made, PaidOf
<1>2. RowsOK => RowsOK'
  BY <1>1 DEF rows, RowsOK, Counted, Sold, SlipIsOut
<1> QED
  BY <1>1, <1>2 DEF rows, Grows, Same, Sold

LEMMA SameReading ==
    ASSUME UNCHANGED rows, NEW c \in Calls, NEW r, call'[c] = r
    PROVE  /\ Holds(r) => Holds(call[c])'
           /\ Mine(r) => Mine(call[c])'
<1>1. /\ Recorded' = Recorded /\ Made' = Made
      /\ \A v : /\ PaidOf(v)' = PaidOf(v) /\ CompletedOf(v)' = CompletedOf(v)
                /\ AppliedTo(v)' = AppliedTo(v) /\ DepositsOf(v)' = DepositsOf(v)
  BY DEF rows, Recorded, Made, PaidOf, CompletedOf, AppliedTo, DepositsOf
<1>2. PaymentAmounts' = PaymentAmounts /\ DepositAmounts' = DepositAmounts
  BY DEF rows, PaymentAmounts, DepositAmounts
<1>3. /\ CompletedTotal(r.inv)' = CompletedTotal(r.inv) /\ DepositTotal(r.inv)' = DepositTotal(r.inv)
      /\ SumAmounts(CompletedOf(r.inv) \ {r.row})' = SumAmounts(CompletedOf(r.inv) \ {r.row})
      /\ Payable(r.inv)' = Payable(r.inv)
  BY <1>1, <1>2 DEF CompletedTotal, DepositTotal, SumAmounts, SumDeposits, rows, Payable
<1>4. Holds(r) => Holds(call[c])'
  BY <1>1 DEF rows, Holds, NextNumber, Sold
<1>5. Mine(r) => Mine(call[c])'
  BY <1>1, <1>3 DEF rows, Mine, DepositFits, SlipIsOut
<1> QED
  BY <1>4, <1>5

LEMMA TurnStep ==
    ASSUME PaymentsInv, UNCHANGED rows, Races, NEW c \in Calls, NEW r \in Reading,
           call' = [call EXCEPT ![c] = r], Holds(r),
           r.op # "request" /\ r.inv \in Invoices \ raced => Mine(r)
    PROVE  PaymentsInv'
<1>1. call'[c] = r /\ \A d \in Calls \ {c} : call'[d] = call[d]
  BY DEF PaymentsInv, TypeOK
<1>2. TypeOK' /\ RowsOK'
  BY SameTables DEF PaymentsInv, TypeOK, rows, Races
<1>3. \A d \in Calls : Holds(call[d])'
  BY <1>1, HoldsOn, SameTables, SameReading DEF PaymentsInv
<1>4. ASSUME NEW v \in Invoices \ raced'
      PROVE  Alone(v)' /\ Books(v)' /\ \A d \in InHand(v)' : Mine(call[d])'
  <2>1. v \in Invoices \ raced /\ Alone(v)'
    BY OneInHand
  <2>2. /\ Books(v) /\ \A d \in InHand(v) : Mine(call[d])
        /\ TypeOK /\ RowsOK /\ \A d \in Calls : Holds(call[d])
    BY <2>1 DEF PaymentsInv
  <2>3. Same(v)
    BY <2>1, <2>2, SameTables
  <2>4. Books(v)'
    BY <1>2, <2>1, <2>2, <2>3, SameBooks
  <2>5. ASSUME NEW d \in InHand(v)' PROVE Mine(call[d])'
    <3>1. CASE d = c
      <4>1. r.op # "request" /\ r.inv = v
        BY <1>1, <3>1 DEF InHand
      <4> QED
        BY <1>1, <2>1, <3>1, <4>1, SameReading
    <3>2. CASE d # c
      <4>1. d \in Calls /\ call'[d] = call[d] /\ d \in InHand(v) /\ call[d].inv = v
        BY <1>1, <3>2 DEF InHand
      <4> QED
        BY <4>1, <1>2, <2>1, <2>2, <2>3, SameMine
    <3> QED
      BY <3>1, <3>2
  <2> QED
    BY <2>1, <2>4, <2>5
<1> QED
  BY <1>2, <1>3, <1>4 DEF PaymentsInv

-----------------------------------------------------------------------------
(* What becomes of the tables.                                             *)

LEMMA TotalsAreNumbers ==
    ASSUME TypeOK, RowsOK
    PROVE  \A v \in Invoices : /\ CompletedTotal(v) \in Nat /\ DepositTotal(v) \in Nat
                               /\ Payable(v) \in Int
<1>1. \A v : CompletedOf(v) \in SUBSET Recorded /\ DepositsOf(v) \in SUBSET Made
  BY PartsOfTheTables
<1>2. ASSUME NEW v \in Invoices PROVE Payable(v) \in Int
  <2>1. Total[v] \in Nat
    BY PaymentsAssumption
  <2>2. invoice[v].credit \in Values \cup {0}
    BY DEF TypeOK
  <2>3. invoice[v].credit \in Nat
    <3> HIDE DEF TypeOK
    <3>1. Values \cup {0} \subseteq Nat
      BY PaymentsAssumption
    <3> QED
      BY <2>2, <3>1
  <2> QED
    BY <2>1, <2>3 DEF Payable
<1> QED
  BY <1>1, <1>2, SumsAreNumbers DEF CompletedTotal, DepositTotal

LEMMA SamePayments ==
    ASSUME UNCHANGED payment
    PROVE  /\ Recorded' = Recorded /\ (Counted => Counted')
           /\ \A v : /\ PaidOf(v)' = PaidOf(v) /\ CompletedOf(v)' = CompletedOf(v)
                     /\ CompletedTotal(v)' = CompletedTotal(v)
                     /\ DepositPayments(v)' = DepositPayments(v)
                     /\ SumAmounts(DepositPayments(v))' = SumAmounts(DepositPayments(v))
<1>1. Recorded' = Recorded /\ PaymentAmounts' = PaymentAmounts
  BY DEF Recorded, PaymentAmounts
<1>2. \A v : /\ PaidOf(v)' = PaidOf(v) /\ CompletedOf(v)' = CompletedOf(v)
             /\ DepositPayments(v)' = DepositPayments(v)
  BY <1>1 DEF PaidOf, CompletedOf, DepositPayments
<1>3. Counted => Counted'
  BY <1>1 DEF Counted
<1> QED
  BY <1>1, <1>2, <1>3 DEF CompletedTotal, SumAmounts

LEMMA SameDeposits ==
    ASSUME UNCHANGED deposit
    PROVE  /\ Made' = Made
           /\ \A v : /\ DepositsOf(v)' = DepositsOf(v) /\ DepositTotal(v)' = DepositTotal(v)
                     /\ SumDeposits(KeptDeposits(v))' = SumDeposits(KeptDeposits(v))
<1>1. Made' = Made /\ DepositAmounts' = DepositAmounts
  BY DEF Made, DepositAmounts
<1>2. \A v : DepositsOf(v)' = DepositsOf(v) /\ KeptDeposits(v)' = KeptDeposits(v)
  BY DEF DepositsOf, KeptDeposits
<1> QED
  BY <1>1, <1>2 DEF DepositTotal, SumDeposits

\* A payment of an amount is inserted, and what that makes of the table.
Insert(p, v, a, n) ==
    /\ payment[p].status = "NONE"
    /\ payment' = [payment EXCEPT ![p] = [status |-> "COMPLETED", inv |-> v,
                                          amount |-> a, number |-> n]]

Inserted(p, v, a, n) ==
    /\ Recorded' = Recorded \cup {p} /\ p \notin Recorded
    /\ \A q \in Payments \ {p} : payment'[q] = payment[q]
    /\ payment'[p] = [status |-> "COMPLETED", inv |-> v, amount |-> a, number |-> n]
    /\ CompletedTotal(v)' = CompletedTotal(v) + a
    /\ n = 0 => SumAmounts(DepositPayments(v))' = SumAmounts(DepositPayments(v)) + a
    /\ n # 0 => SumAmounts(DepositPayments(v))' = SumAmounts(DepositPayments(v))

LEMMA NewPayment ==
    ASSUME TypeOK, RowsOK, NEW p \in Payments, NEW v, NEW a \in Nat, NEW n, Insert(p, v, a, n)
    PROVE  Inserted(p, v, a, n)
<1> USE DEF Insert
<1>1. /\ \A q \in Payments \ {p} : payment'[q] = payment[q]
      /\ payment'[p] = [status |-> "COMPLETED", inv |-> v, amount |-> a, number |-> n]
  BY DEF TypeOK
<1>2. Recorded' = Recorded \cup {p} /\ p \notin Recorded
  BY <1>1 DEF Recorded
<1>3. /\ CompletedOf(v)' = CompletedOf(v) \cup {p}
      /\ DepositPayments(v)' = IF n = 0 THEN DepositPayments(v) \cup {p} ELSE DepositPayments(v)
  BY <1>1, <1>2 DEF CompletedOf, DepositPayments, Recorded
<1>4. ASSUME NEW S \in SUBSET Recorded
      PROVE  /\ SumFunctionOnSet(PaymentAmounts', S) = SumAmounts(S)
             /\ SumFunctionOnSet(PaymentAmounts', S \cup {p}) = SumAmounts(S) + a
  <2>1. IsFiniteSet(S) /\ p \notin S /\ S \subseteq Payments
    BY <1>2, SumsAreNumbers DEF Recorded
  <2>2. /\ \A q \in S : PaymentAmounts'[q] = PaymentAmounts[q]
        /\ \A q \in S \cup {p} : PaymentAmounts'[q] \in Nat
        /\ PaymentAmounts'[p] = a
    BY <1>1, <2>1 DEF TypeOK, PaymentAmounts
  <2>3. SumFunctionOnSet(PaymentAmounts', S) = SumAmounts(S)
    BY <2>1, <2>2, SumSame DEF SumAmounts
  <2> QED
    BY <2>1, <2>2, <2>3, SumAdd
<1>5. CompletedOf(v) \in SUBSET Recorded /\ DepositPayments(v) \in SUBSET Recorded
  BY PartsOfTheTables
<1>6. CompletedTotal(v)' = CompletedTotal(v) + a
  BY <1>3, <1>4, <1>5 DEF CompletedTotal, SumAmounts
<1>7. SumAmounts(DepositPayments(v)) \in Nat
  BY <1>5, SumsAreNumbers
<1>8. /\ n = 0 => SumAmounts(DepositPayments(v))' = SumAmounts(DepositPayments(v)) + a
      /\ n # 0 => SumAmounts(DepositPayments(v))' = SumAmounts(DepositPayments(v))
  BY <1>3, <1>4, <1>5, <1>7 DEF SumAmounts
<1> QED
  BY <1>1, <1>2, <1>6, <1>8 DEF Inserted

\* A payment is reversed.
LEMMA OldPayment ==
    ASSUME TypeOK, RowsOK, NEW p \in Recorded, NEW v, p \in CompletedOf(v),
           payment' = [payment EXCEPT ![p].status = "REVERSED"]
    PROVE  /\ \A q \in Payments \ {p} : payment'[q] = payment[q]
           /\ payment'[p] = [payment[p] EXCEPT !.status = "REVERSED"]
           /\ Recorded' = Recorded /\ PaidOf(v)' = PaidOf(v)
           /\ CompletedTotal(v)' = SumAmounts(CompletedOf(v) \ {p})
           /\ CompletedTotal(v)' <= CompletedTotal(v)
           /\ SumAmounts(DepositPayments(v))' = SumAmounts(DepositPayments(v))
<1>0. p \in Payments
  BY DEF Recorded
<1>1. /\ \A q \in Payments \ {p} : payment'[q] = payment[q]
      /\ payment'[p] = [payment[p] EXCEPT !.status = "REVERSED"]
      /\ payment'[p].status = "REVERSED" /\ payment'[p].inv = payment[p].inv
      /\ payment'[p].amount = payment[p].amount /\ payment'[p].number = payment[p].number
  BY <1>0 DEF TypeOK
<1>2. Recorded' = Recorded
  BY <1>1 DEF Recorded
<1>3. PaymentAmounts' = PaymentAmounts
  BY <1>1 DEF PaymentAmounts
<1>4. /\ CompletedOf(v)' = CompletedOf(v) \ {p} /\ DepositPayments(v)' = DepositPayments(v)
      /\ PaidOf(v)' = PaidOf(v)
  BY <1>0, <1>1, <1>2 DEF CompletedOf, DepositPayments, Recorded, PaidOf
<1>5. /\ IsFiniteSet(CompletedOf(v)) /\ \A q \in CompletedOf(v) : PaymentAmounts[q] \in Nat
      /\ SumAmounts(CompletedOf(v) \ {p}) \in Nat /\ CompletedTotal(v) \in Nat
  <2>1. CompletedOf(v) \in SUBSET Recorded /\ CompletedOf(v) \ {p} \in SUBSET Recorded
    BY PartsOfTheTables
  <2> QED
    BY <2>1, SumsAreNumbers DEF CompletedTotal, Recorded, PaymentAmounts, TypeOK
<1>6. CompletedTotal(v) = PaymentAmounts[p] + SumAmounts(CompletedOf(v) \ {p})
  BY <1>5, SumRemove DEF CompletedTotal, SumAmounts
<1>7. CompletedTotal(v)' = SumAmounts(CompletedOf(v) \ {p})
  BY <1>3, <1>4 DEF CompletedTotal, SumAmounts
<1>8. SumAmounts(DepositPayments(v))' = SumAmounts(DepositPayments(v))
  BY <1>3, <1>4 DEF SumAmounts
<1> QED
  BY <1>1, <1>2, <1>4, <1>5, <1>6, <1>7, <1>8

\* The same for a deposit.
InsertDeposit(d, v, a) ==
    /\ deposit[d].status = "NONE"
    /\ deposit' = [deposit EXCEPT ![d] = [status |-> "COMPLETED", inv |-> v, amount |-> a]]

DepositInserted(d, v, a) ==
    /\ Made' = Made \cup {d} /\ d \notin Made
    /\ \A e \in Deposits \ {d} : deposit'[e] = deposit[e]
    /\ deposit'[d] = [status |-> "COMPLETED", inv |-> v, amount |-> a]
    /\ DepositTotal(v)' = DepositTotal(v) + a

LEMMA NewDeposit ==
    ASSUME TypeOK, RowsOK, NEW d \in Deposits, NEW v, NEW a \in Nat, InsertDeposit(d, v, a)
    PROVE  DepositInserted(d, v, a)
<1> USE DEF InsertDeposit
<1>1. /\ \A e \in Deposits \ {d} : deposit'[e] = deposit[e]
      /\ deposit'[d] = [status |-> "COMPLETED", inv |-> v, amount |-> a]
  BY DEF TypeOK
<1>2. Made' = Made \cup {d} /\ d \notin Made
  BY <1>1 DEF Made
<1>3. DepositsOf(v)' = DepositsOf(v) \cup {d} /\ d \notin DepositsOf(v)
  BY <1>1 DEF DepositsOf
<1> DEFINE S == DepositsOf(v)
<1>4. IsFiniteSet(S) /\ S \subseteq Deposits
  BY SumsAreNumbers, PartsOfTheTables DEF DepositsOf
<1>5. /\ \A e \in S : DepositAmounts'[e] = DepositAmounts[e]
      /\ \A e \in S \cup {d} : DepositAmounts'[e] \in Nat
      /\ DepositAmounts'[d] = a
  BY <1>1, <1>3, <1>4 DEF TypeOK, DepositAmounts
<1> HIDE DEF S
<1>6. SumFunctionOnSet(DepositAmounts', S) = SumDeposits(S)
  BY <1>4, <1>5, SumSame DEF SumDeposits
<1>7. SumFunctionOnSet(DepositAmounts', S \cup {d}) = SumDeposits(S) + a
  BY <1>3, <1>4, <1>5, <1>6, SumAdd DEF S
<1>8. DepositTotal(v)' = DepositTotal(v) + a
  BY <1>3, <1>7 DEF DepositTotal, SumDeposits, S
<1> QED
  BY <1>1, <1>2, <1>8 DEF DepositInserted

\* A deposit is reversed.
LEMMA OldDeposit ==
    ASSUME TypeOK, RowsOK, NEW d \in Made, NEW v, d \in DepositsOf(v),
           NEW s \in {"REVERSED", "LATE"}, deposit' = [deposit EXCEPT ![d].status = s]
    PROVE  /\ \A e \in Deposits \ {d} : deposit'[e] = deposit[e]
           /\ Made' = Made /\ DepositTotal(v)' \in Nat /\ DepositTotal(v)' <= DepositTotal(v)
           /\ s = "LATE" => SumDeposits(KeptDeposits(v))' = SumDeposits(KeptDeposits(v))
<1>0. d \in Deposits
  BY DEF Made
<1>1. /\ \A e \in Deposits \ {d} : deposit'[e] = deposit[e]
      /\ deposit'[d] = [deposit[d] EXCEPT !.status = s]
  BY <1>0 DEF TypeOK
<1>2. /\ deposit'[d].status = s /\ deposit'[d].inv = deposit[d].inv
      /\ deposit'[d].amount = deposit[d].amount
  BY <1>0, <1>1 DEF TypeOK
<1>3. Made' = Made
  BY <1>0, <1>1, <1>2 DEF Made
<1>4. DepositAmounts' = DepositAmounts
  <2>1. \A e \in Deposits : deposit'[e].amount = deposit[e].amount
    BY <1>1, <1>2
  <2> QED
    BY <2>1 DEF DepositAmounts
<1>5. DepositsOf(v)' = DepositsOf(v) \ {d}
  BY <1>0, <1>1, <1>2 DEF DepositsOf
<1>6. ASSUME s = "LATE"
      PROVE  SumDeposits(KeptDeposits(v))' = SumDeposits(KeptDeposits(v))
  <2>2. \A e \in Deposits : e \in KeptDeposits(v)' <=> e \in KeptDeposits(v)
    BY <1>0, <1>1, <1>2, <1>6 DEF KeptDeposits, DepositsOf
  <2>3. KeptDeposits(v)' = KeptDeposits(v)
    BY <2>2 DEF KeptDeposits
  <2> QED
    BY <1>4, <2>3 DEF SumDeposits
<1>7. /\ IsFiniteSet(DepositsOf(v)) /\ \A e \in DepositsOf(v) : DepositAmounts[e] \in Nat
      /\ SumDeposits(DepositsOf(v) \ {d}) \in Nat /\ DepositTotal(v) \in Nat
  <2>1. DepositsOf(v) \in SUBSET Made /\ DepositsOf(v) \ {d} \in SUBSET Made
    BY PartsOfTheTables
  <2> QED
    BY <2>1, SumsAreNumbers DEF DepositTotal, Made, DepositAmounts, TypeOK
<1>8. DepositTotal(v) = DepositAmounts[d] + SumDeposits(DepositsOf(v) \ {d})
  BY <1>7, SumRemove DEF DepositTotal, SumDeposits
<1>9. DepositTotal(v)' = SumDeposits(DepositsOf(v) \ {d})
  BY <1>4, <1>5 DEF DepositTotal, SumDeposits
<1>10. DepositTotal(v)' \in Nat /\ DepositTotal(v)' <= DepositTotal(v)
  BY <1>7, <1>8, <1>9
<1> QED
  BY <1>1, <1>3, <1>6, <1>10

-----------------------------------------------------------------------------
(* Requests that read.                                                     *)

\* The slot of a request as it starts, with what the request fills in.
LEMMA IdleIsAReading == Idle \in Reading /\ Holds(Idle) /\ Idle.inv \notin Invoices
<1>1. 0 \in Nat /\ 0 \in Int
  OBVIOUS
<1> QED
  BY <1>1, PaymentsAssumption DEF Idle, Reading, Holds

LEMMA BeginStep ==
    ASSUME PaymentsInv, Races, NEW c \in Calls, NEW r \in Reading, Begin(c, r), Holds(r),
           r.op # "request" /\ r.inv \in Invoices \ raced => Mine(r)
    PROVE  PaymentsInv'
BY TurnStep DEF Begin

LEMMA SumForPaymentStep ==
    ASSUME PaymentsInv, Races, NEW c \in Calls, NEW v \in Invoices, NEW a \in Amounts,
           SumForPayment(c, v, a)
    PROVE  PaymentsInv'
<1> DEFINE total == CompletedTotal(v)
           open == Payable(v)
           r == [Idle EXCEPT !.op = "pay", !.inv = v, !.amount = a, !.sum = total, !.net = open]
<1>1. Begin(c, r) /\ Sold(v) /\ total + a <= open
  BY DEF SumForPayment, Fits, Sold
<1>2. total \in Nat /\ open \in Int /\ a \in Nat /\ a > 0
  BY TotalsAreNumbers, PaymentsAssumption DEF PaymentsInv
<1>3. total = CompletedTotal(v) /\ open = Payable(v)
  OBVIOUS
<1> HIDE DEF total, open
<1>4. /\ r \in Reading /\ r.op = "pay" /\ r.inv = v /\ r.amount = a
      /\ r.sum = total /\ r.net = open
  BY <1>2, IdleIsAReading DEF Reading
<1> HIDE DEF r
<1>5. Holds(r) /\ Mine(r)
  BY <1>1, <1>2, <1>3, <1>4 DEF Holds, Mine
<1> QED
  BY <1>1, <1>4, <1>5, BeginStep

LEMMA ReadForReverseStep ==
    ASSUME PaymentsInv, Races, NEW c \in Calls, NEW p \in Payments, ReadForReverse(c, p)
    PROVE  PaymentsInv'
<1> DEFINE v == payment[p].inv
           open == Payable(v)
           r == [Idle EXCEPT !.op = "reverse", !.row = p, !.inv = v, !.net = open]
<1>1. Begin(c, r) /\ p \in Recorded /\ p \in CompletedOf(v)
  BY DEF ReadForReverse, Recorded, CompletedOf
<1>2. v \in Invoices /\ open \in Int
  BY <1>1, TotalsAreNumbers DEF PaymentsInv, RowsOK
<1>3. open = Payable(v) /\ v = payment[p].inv
  OBVIOUS
<1> HIDE DEF v, open
<1>4. r \in Reading /\ r.op = "reverse" /\ r.inv = v /\ r.row = p /\ r.net = open
  BY <1>2, IdleIsAReading DEF Reading
<1> HIDE DEF r
<1>5. Holds(r) /\ Mine(r)
  BY <1>1, <1>2, <1>3, <1>4 DEF Holds, Mine
<1> QED
  BY <1>1, <1>4, <1>5, BeginStep

LEMMA ReadForDepositStep ==
    ASSUME PaymentsInv, Races, NEW c \in Calls, NEW v \in Converted, NEW a \in Amounts,
           ReadForDeposit(c, v, a)
    PROVE  PaymentsInv'
<1> DEFINE r == [Idle EXCEPT !.op = "deposit", !.inv = v, !.amount = a]
<1>1. Begin(c, r) /\ SlipIsOut(v)
  BY DEF ReadForDeposit
<1>2. v \in Invoices /\ a \in Nat
  BY PaymentsAssumption
<1>3. r \in Reading /\ r.op = "deposit" /\ r.inv = v
  BY <1>2, IdleIsAReading DEF Reading
<1> HIDE DEF r
<1>4. Holds(r) /\ Mine(r)
  BY <1>1, <1>3 DEF Holds, Mine
<1> QED
  BY <1>1, <1>3, <1>4, BeginStep

LEMMA ReadForUndoStep ==
    ASSUME PaymentsInv, Races, NEW c \in Calls, NEW d \in Deposits, ReadForUndo(c, d)
    PROVE  PaymentsInv'
<1> DEFINE v == deposit[d].inv
           r == [Idle EXCEPT !.op = "undo", !.row = d, !.inv = v]
<1>1. Begin(c, r) /\ d \in Made /\ deposit[d].status = "COMPLETED" /\ v = deposit[d].inv
  BY DEF ReadForUndo, Made
<1>2. v \in Invoices
  BY <1>1, PaymentsAssumption DEF PaymentsInv, RowsOK
<1> HIDE DEF v
<1>3. r \in Reading /\ r.op = "undo" /\ r.inv = v /\ r.row = d
  BY <1>2, IdleIsAReading DEF Reading
<1> HIDE DEF r
<1>4. Holds(r) /\ Mine(r)
  BY <1>1, <1>3 DEF Holds, Mine
<1> QED
  BY <1>1, <1>3, <1>4, BeginStep

LEMMA SumForPurchaseStep ==
    ASSUME PaymentsInv, Races, NEW c \in Calls, NEW v \in Converted, SumForPurchase(c, v)
    PROVE  PaymentsInv'
<1> DEFINE total == DepositTotal(v)
           r == [Idle EXCEPT !.op = "purchase", !.inv = v, !.sum = total]
<1>1. Begin(c, r) /\ total = DepositTotal(v)
  BY DEF SumForPurchase
<1>2. v \in Invoices /\ total \in Nat
  BY TotalsAreNumbers, PaymentsAssumption DEF PaymentsInv
<1> HIDE DEF total
<1>3. r \in Reading /\ r.op = "purchase" /\ r.inv = v /\ r.sum = total
  BY <1>2, IdleIsAReading DEF Reading
<1> HIDE DEF r
<1>4. Holds(r) /\ Mine(r)
  BY <1>1, <1>3 DEF Holds, Mine
<1> QED
  BY <1>1, <1>3, <1>4, BeginStep

LEMMA ReadForExchangeStep ==
    ASSUME PaymentsInv, Races, NEW c \in Calls, NEW v \in Invoices, ReadForExchange(c, v)
    PROVE  PaymentsInv'
<1> DEFINE r == [Idle EXCEPT !.op = "request", !.inv = v]
<1>1. Begin(c, r) /\ invoice[v].status # "NONE"
  BY DEF ReadForExchange
<1>2. r \in Reading /\ r.op = "request" /\ r.inv = v
  BY IdleIsAReading DEF Reading
<1> HIDE DEF r
<1>3. Holds(r)
  BY <1>1, <1>2 DEF Holds
<1> QED
  BY <1>1, <1>2, <1>3, BeginStep

LEMMA ReadForValueStep ==
    ASSUME PaymentsInv, Races, NEW c \in Calls, NEW e \in Exchanges, NEW a \in Values,
           ReadForValue(c, e, a)
    PROVE  PaymentsInv'
<1> DEFINE v == exchange[e].inv
           r == [Idle EXCEPT !.op = "value", !.row = e, !.inv = v, !.amount = a]
<1>1. Begin(c, r) /\ exchange[e].status = "REQUESTED" /\ v = exchange[e].inv
  BY DEF ReadForValue
<1>2. v \in Invoices /\ a \in Nat
  BY <1>1, PaymentsAssumption DEF PaymentsInv, RowsOK
<1> HIDE DEF v
<1>3. r \in Reading /\ r.op = "value" /\ r.inv = v /\ r.row = e /\ r.amount = a
  BY <1>2, IdleIsAReading DEF Reading
<1> HIDE DEF r
<1>4. Holds(r) /\ Mine(r)
  BY <1>1, <1>3 DEF Holds, Mine
<1> QED
  BY <1>1, <1>3, <1>4, BeginStep

\* On a draft nothing has been paid, and no other exchange has been applied.
LEMMA ReadForApplyStep ==
    ASSUME PaymentsInv, Races, NEW c \in Calls, NEW e \in Exchanges, ReadForApply(c, e)
    PROVE  PaymentsInv'
<1> DEFINE v == exchange[e].inv
           a == exchange[e].value
           paid == invoice[v].totalPaid
           r == [Idle EXCEPT !.op = "apply", !.row = e, !.inv = v, !.amount = a, !.sum = paid]
<1>1. /\ Begin(c, r) /\ exchange[e].status = "VALUED" /\ v = exchange[e].inv
      /\ a = exchange[e].value /\ invoice[v].status = "DRAFT" /\ OnlyApplied(e)
  BY DEF ReadForApply
<1>2. v \in Invoices /\ a \in Values \cup {0} /\ a \in Nat /\ paid \in Nat
  BY <1>1, PaymentsAssumption DEF PaymentsInv, RowsOK, TypeOK
<1>3. PaidOf(v) = {}
  BY <1>1 DEF PaymentsInv, RowsOK, PaidOf, Sold
<1>4. AppliedTo(v) = {}
  BY <1>1 DEF OnlyApplied, AppliedTo
<1> HIDE DEF v, a, paid
<1>5. r \in Reading /\ r.op = "apply" /\ r.inv = v /\ r.row = e /\ r.amount = a
  BY <1>2, IdleIsAReading DEF Reading
<1> HIDE DEF r
<1>6. Holds(r) /\ Mine(r)
  BY <1>1, <1>2, <1>3, <1>4, <1>5 DEF Holds, Mine
<1> QED
  BY <1>1, <1>5, <1>6, BeginStep

LEMMA ReadForDropStep ==
    ASSUME PaymentsInv, Races, NEW c \in Calls, NEW e \in Exchanges, ReadForDrop(c, e)
    PROVE  PaymentsInv'
<1> DEFINE v == exchange[e].inv
           r == [Idle EXCEPT !.op = "drop", !.row = e, !.inv = v]
<1>1. /\ Begin(c, r) /\ exchange[e].status \in {"REQUESTED", "VALUED"} /\ v = exchange[e].inv
  BY DEF ReadForDrop
<1>2. v \in Invoices
  BY <1>1 DEF PaymentsInv, RowsOK
<1> HIDE DEF v
<1>3. r \in Reading /\ r.op = "drop" /\ r.inv = v /\ r.row = e
  BY <1>2, IdleIsAReading DEF Reading
<1> HIDE DEF r
<1>4. Holds(r) /\ Mine(r)
  BY <1>1, <1>3 DEF Holds, Mine
<1> QED
  BY <1>1, <1>3, <1>4, BeginStep

-----------------------------------------------------------------------------
(* Requests that go on reading.                                            *)

\* What is known of a request in the table.
LEMMA Knows ==
    ASSUME PaymentsInv, NEW c \in Calls
    PROVE  /\ call[c] \in Reading /\ Holds(call[c]) /\ TypeOK /\ RowsOK
           /\ call[c].op # "request" /\ call[c].inv \in Invoices \ raced =>
                 Mine(call[c]) /\ Books(call[c].inv)
BY DEF PaymentsInv, TypeOK, InHand

LEMMA CountForNumberStep ==
    ASSUME PaymentsInv, Races, NEW c \in Calls, CountForNumber(c)
    PROVE  PaymentsInv'
<1> DEFINE next == NextNumber
           r == [call[c] EXCEPT !.op = "payNumbered", !.number = next]
<1>1. call[c].op = "pay" /\ call' = [call EXCEPT ![c] = r] /\ UNCHANGED rows
  BY DEF CountForNumber
<1>2. next \in Nat /\ next \in 1..NextNumber
  BY FS_CardinalityType DEF PaymentsInv, RowsOK, NextNumber
<1> HIDE DEF next
<1>3. /\ r \in Reading /\ r.op = "payNumbered" /\ r.number = next /\ r.inv = call[c].inv
      /\ r.amount = call[c].amount /\ r.sum = call[c].sum /\ r.net = call[c].net
  BY <1>2, Knows DEF Reading
<1> HIDE DEF r
<1>4. Holds(r) /\ (r.inv \in Invoices \ raced => Mine(r))
  BY <1>1, <1>2, <1>3, Knows DEF Holds, Mine
<1> QED
  BY <1>1, <1>3, <1>4, TurnStep

LEMMA MarkReversedStep ==
    ASSUME PaymentsInv, Races, NEW c \in Calls, MarkReversed(c)
    PROVE  PaymentsInv'
<1> DEFINE left == SumAfterReversal(call[c])
           r == [call[c] EXCEPT !.op = "reversing", !.sum = left]
<1>1. call[c].op = "reverse" /\ call' = [call EXCEPT ![c] = r] /\ UNCHANGED rows
  BY DEF MarkReversed
<1>2. left = SumAmounts(CompletedOf(call[c].inv) \ {call[c].row})
  BY DEF SumAfterReversal
<1>3. left \in Nat
  <2> CompletedOf(call[c].inv) \ {call[c].row} \in SUBSET Recorded
    BY PartsOfTheTables
  <2> QED
    BY <1>2, SumsAreNumbers DEF PaymentsInv
<1> HIDE DEF left
<1>4. /\ r \in Reading /\ r.op = "reversing" /\ r.sum = left /\ r.inv = call[c].inv
      /\ r.row = call[c].row /\ r.net = call[c].net
  BY <1>3, Knows DEF Reading
<1> HIDE DEF r
<1>5. Holds(r) /\ (r.inv \in Invoices \ raced => Mine(r))
  BY <1>1, <1>2, <1>4, Knows DEF Holds, Mine
<1> QED
  BY <1>1, <1>4, <1>5, TurnStep

LEMMA SumForDepositStep ==
    ASSUME PaymentsInv, Races, NEW c \in Calls, SumForDeposit(c)
    PROVE  PaymentsInv'
<1> DEFINE r == [call[c] EXCEPT !.op = "depositing"]
<1>1. /\ call[c].op = "deposit" /\ call' = [call EXCEPT ![c] = r] /\ UNCHANGED rows
      /\ DepositFits(call[c].inv, call[c].amount)
  BY DEF SumForDeposit
<1>2. r \in Reading /\ r.op = "depositing" /\ r.inv = call[c].inv /\ r.amount = call[c].amount
  BY Knows DEF Reading
<1> HIDE DEF r
<1>3. Holds(r) /\ (r.inv \in Invoices \ raced => Mine(r))
  BY <1>1, <1>2, Knows DEF Holds, Mine
<1> QED
  BY <1>1, <1>2, <1>3, TurnStep

LEMMA FailStep ==
    ASSUME PaymentsInv, Races, NEW c \in Calls, Fail(c)
    PROVE  PaymentsInv'
<1> QED
  BY IdleIsAReading, TurnStep DEF Fail, Finish

-----------------------------------------------------------------------------
(* Requests that write, and with it are over.                              *)

LEMMA FinishWrites ==
    ASSUME TypeOK, NEW c \in Calls, Finish(c)
    PROVE  /\ call' \in [Calls -> Reading] /\ call'[c] = Idle
           /\ \A d \in Calls \ {c} : call'[d] = call[d]
BY IdleIsAReading DEF TypeOK, Finish

LEMMA SettleWrites ==
    ASSUME TypeOK, NEW v \in Invoices, NEW net \in Int, NEW paid \in Nat, Settle(v, net, paid)
    PROVE  /\ invoice' \in [Invoices -> [status : {"NONE", "DRAFT", "CONFIRMED", "CANCELLED"},
                                 credit : Values \cup {0}, totalPaid : Nat, outstanding : Nat,
                                 paymentStatus : PaymentStatus]]
           /\ \A w \in Invoices : /\ invoice'[w].status = invoice[w].status
                                  /\ invoice'[w].credit = invoice[w].credit
           /\ \A w \in Invoices \ {v} : invoice'[w] = invoice[w]
           /\ invoice'[v].totalPaid = paid /\ invoice'[v].outstanding = Outstanding(net, paid)
           /\ invoice'[v].paymentStatus = "PAID" <=> paid >= net
<1> DEFINE left == Outstanding(net, paid)
           word == IF paid >= net THEN "PAID" ELSE IF paid > 0 THEN "PARTIALLY_PAID" ELSE "UNPAID"
<1>1. left \in Nat /\ word \in PaymentStatus /\ (word = "PAID" <=> paid >= net)
  BY DEF Outstanding, PaymentStatus
<1>2. invoice' = [invoice EXCEPT ![v] = [invoice[v] EXCEPT
                     !.totalPaid = paid, !.outstanding = left, !.paymentStatus = word]]
  BY DEF Settle
<1>3. left = Outstanding(net, paid)
  OBVIOUS
<1> HIDE DEF left, word
<1> QED
  <2> DEFINE Columns == [status : {"NONE", "DRAFT", "CONFIRMED", "CANCELLED"},
                         credit : Values \cup {0}, totalPaid : Nat, outstanding : Nat,
                         paymentStatus : PaymentStatus]
  <2>1. invoice \in [Invoices -> Columns]
    BY DEF TypeOK
  <2>2. [invoice[v] EXCEPT !.totalPaid = paid, !.outstanding = left, !.paymentStatus = word]
           \in Columns
    BY <1>1, <2>1
  <2>3. invoice' \in [Invoices -> Columns]
    <3> HIDE DEF Columns
    <3> QED
      BY <1>2, <2>1, <2>2
  <2> QED
    BY <1>1, <1>2, <1>3, <2>1, <2>3

\* One more row, under a number within reach of the count: the count moves past it.
LEMMA OneMoreCounted ==
    ASSUME RowsOK, NEW p, p \notin Recorded, Recorded' = Recorded \cup {p},
           \A q \in Recorded : payment'[q] = payment[q], payment'[p].number \in 0..NextNumber
    PROVE  IsFiniteSet(Recorded') /\ Counted'
<1>1. IsFiniteSet(Recorded') /\ Cardinality(Recorded') = Cardinality(Recorded) + 1
  BY FS_AddElement DEF RowsOK
<1>2. Cardinality(Recorded) \in Nat
  BY FS_CardinalityType DEF RowsOK
<1>3. ASSUME NEW q \in Recorded' PROVE payment'[q].number \in 0..Cardinality(Recorded')
  <2>1. CASE q = p
    BY <1>1, <1>2, <2>1 DEF NextNumber
  <2>2. CASE q # p
    <3>1. payment[q].number \in 0..Cardinality(Recorded) /\ payment'[q] = payment[q]
      BY <2>2 DEF RowsOK, Counted
    <3> QED
      BY <1>1, <1>2, <3>1
  <2> QED
    BY <2>1, <2>2
<1> QED
  BY <1>1, <1>3 DEF Counted

LEMMA RecordPaymentStep ==
    ASSUME PaymentsInv, Races, NEW c \in Calls, NEW p \in Payments, RecordPayment(c, p)
    PROVE  PaymentsInv'
<1> SUFFICES ASSUME NEW r \in Reading, call[c] = r PROVE PaymentsInv'
  BY Knows
<1> DEFINE v == r.inv
           a == r.amount
           n == r.number
<1>1. /\ r.op = "payNumbered" /\ payment[p].status = "NONE" /\ Finish(c)
      /\ payment' = [payment EXCEPT ![p] = [status |-> "COMPLETED", inv |-> v,
                                            amount |-> a, number |-> n]]
      /\ Settle(v, r.net, r.sum + a) /\ UNCHANGED <<exchange, deposit>>
  BY DEF RecordPayment
<1>2. /\ TypeOK /\ RowsOK /\ v \in Invoices /\ Sold(v) /\ a > 0 /\ n > 0
      /\ a \in Nat /\ n \in Nat /\ v = r.inv /\ a = r.amount /\ n = r.number
      /\ r.net \in Int /\ r.sum \in Nat /\ r.sum + a \in Nat
  BY <1>1, Knows DEF Holds, Reading
<1> HIDE DEF v, a, n
<1>3. TypeOK'
  <2>1. payment' \in [Payments -> [status : {"NONE", "COMPLETED", "REVERSED"},
                                   inv : Invoices \cup {None}, amount : Nat, number : Nat]]
    BY <1>1, <1>2 DEF TypeOK
  <2> QED
    BY <1>1, <1>2, <2>1, FinishWrites, SettleWrites DEF TypeOK, Races
<1>4. /\ Recorded' = Recorded \cup {p} /\ p \notin Recorded
      /\ \A q \in Payments \ {p} : payment'[q] = payment[q]
      /\ payment'[p] = [status |-> "COMPLETED", inv |-> v, amount |-> a, number |-> n]
      /\ CompletedTotal(v)' = CompletedTotal(v) + a
      /\ SumAmounts(DepositPayments(v))' = SumAmounts(DepositPayments(v))
  <2>1. Inserted(p, v, a, n)
    BY <1>1, <1>2, NewPayment DEF Insert
  <2> QED
    BY <1>2, <2>1 DEF Inserted
<1>5. /\ \A w \in Invoices : /\ invoice'[w].status = invoice[w].status
                             /\ invoice'[w].credit = invoice[w].credit
      /\ \A w \in Invoices \ {v} : invoice'[w] = invoice[w]
      /\ invoice'[v].totalPaid = r.sum + a
      /\ invoice'[v].outstanding = Outstanding(r.net, r.sum + a)
      /\ invoice'[v].paymentStatus = "PAID" <=> r.sum + a >= r.net
  BY <1>1, <1>2, SettleWrites
<1>6. Grows
  BY <1>1, <1>4, <1>5 DEF Grows, Sold, Recorded, Made
<1>7. RowsOK'
  <2>6. IsFiniteSet(Recorded') /\ Counted'
    <3>1. payment'[p].number \in 0..NextNumber
      BY <1>1, <1>2, <1>4, Knows DEF Holds
    <3> QED
      BY <1>2, <1>4, <3>1, OneMoreCounted DEF Recorded
  <2>1. IsFiniteSet(Made') /\ Made' = Made
    BY <1>1, <1>2 DEF RowsOK, Made
  <2>2. \A q \in Recorded' : /\ payment'[q].inv \in Invoices /\ Sold(payment[q].inv)'
                             /\ payment'[q].amount > 0
    BY <1>2, <1>4, <1>5 DEF RowsOK, Sold, Recorded
  <2>3. \A e \in Exchanges : exchange'[e].status # "NONE" =>
           exchange'[e].inv \in Invoices /\ invoice'[exchange'[e].inv].status # "NONE"
    BY <1>1, <1>2, <1>5 DEF RowsOK
  <2>4. \A d \in Made' : deposit'[d].inv \in Converted
    BY <1>1, <1>2, <2>1 DEF RowsOK
  <2>5. \A d \in Made' : deposit'[d].status = "LATE" => ~SlipIsOut(deposit[d].inv)'
    BY <1>1, <1>2, <1>5, <2>1, PaymentsAssumption DEF RowsOK, SlipIsOut
  <2> QED
    BY <2>1, <2>2, <2>3, <2>4, <2>5, <2>6 DEF RowsOK
<1>8. ASSUME NEW w \in Invoices, w # v PROVE Same(w)
  BY <1>1, <1>4, <1>5, <1>8 DEF Same, PaidOf, Recorded, AppliedTo
<1>9. ASSUME Mine(call[c]), Books(v) PROVE Books(v)'
  <2>1. r.sum = CompletedTotal(v) /\ r.net = Payable(v) /\ r.sum + a <= r.net
    BY <1>1, <1>2, <1>9 DEF Mine
  <2>2. Payable(v)' = Payable(v)
    BY <1>2, <1>5 DEF Payable
  <2>3. Settled(v)'
    BY <1>2, <1>4, <1>5, <2>1, <2>2 DEF Settled
  <2>4. Credited(v)' /\ Covered(v)'
    BY <1>1, <1>2, <1>5, <1>9, SameDeposits DEF Books, Credited, AppliedTo, Covered
  <2>5. Booked(v)'
    BY <1>1, <1>2, <1>4, <1>5, <1>9, SameDeposits DEF Books, Booked
  <2> QED
    BY <2>3, <2>4, <2>5 DEF Books
<1> QED
  <2>1. call'[c] = Idle /\ \A d \in Calls \ {c} : call'[d] = call[d]
    BY <1>1, <1>2, FinishWrites
  <2>2. \A w \in Invoices :
           \/ Same(w)
           \/ /\ c \in Calls /\ call'[c] = Idle /\ w = call[c].inv /\ call[c].op # "request"
              /\ w \notin raced /\ Mine(call[c]) /\ Books(w) => Books(w)'
    BY <1>1, <1>2, <1>8, <1>9, <2>1
  <2> QED
    BY <1>3, <1>6, <1>7, <2>1, <2>2, WriteStep

LEMMA RecordReversalStep ==
    ASSUME PaymentsInv, Races, NEW c \in Calls, RecordReversal(c)
    PROVE  PaymentsInv'
<1> SUFFICES ASSUME NEW r \in Reading, call[c] = r PROVE PaymentsInv'
  BY Knows
<1> DEFINE v == r.inv
           p == r.row
<1>1. /\ r.op = "reversing" /\ Finish(c) /\ Settle(v, r.net, r.sum)
      /\ payment' = [payment EXCEPT ![p].status = "REVERSED"] /\ UNCHANGED <<exchange, deposit>>
  BY DEF RecordReversal
<1>2. /\ TypeOK /\ RowsOK /\ p \in Recorded /\ p \in Payments /\ payment[p].inv = v
      /\ v \in Invoices /\ v = r.inv /\ p = r.row /\ r.net \in Int /\ r.sum \in Nat
  BY <1>1, Knows DEF Holds, Reading, RowsOK, Recorded
<1> HIDE DEF v, p
<1>3. TypeOK'
  <2>1. payment' \in [Payments -> [status : {"NONE", "COMPLETED", "REVERSED"},
                                   inv : Invoices \cup {None}, amount : Nat, number : Nat]]
    <3> DEFINE Columns == [status : {"NONE", "COMPLETED", "REVERSED"},
                           inv : Invoices \cup {None}, amount : Nat, number : Nat]
    <3>1. payment \in [Payments -> Columns]
      BY <1>2 DEF TypeOK
    <3> DEFINE row == [payment[p] EXCEPT !.status = "REVERSED"]
    <3>2. row \in Columns /\ payment' = [payment EXCEPT ![p] = row]
      BY <1>1, <1>2, <3>1
    <3>3. payment' \in [Payments -> Columns]
      <4> HIDE DEF Columns, row
      <4> QED
        BY <3>1, <3>2
    <3> QED
      BY <3>3
  <2> QED
    BY <1>1, <1>2, <2>1, FinishWrites, SettleWrites DEF TypeOK, Races
<1>4. /\ \A q \in Payments \ {p} : payment'[q] = payment[q]
      /\ payment'[p].status = "REVERSED" /\ payment'[p].inv = v
      /\ payment'[p].amount = payment[p].amount /\ payment'[p].number = payment[p].number
  BY <1>1, <1>2 DEF TypeOK
<1>5. /\ \A w \in Invoices : /\ invoice'[w].status = invoice[w].status
                             /\ invoice'[w].credit = invoice[w].credit
      /\ \A w \in Invoices \ {v} : invoice'[w] = invoice[w]
      /\ invoice'[v].totalPaid = r.sum /\ invoice'[v].outstanding = Outstanding(r.net, r.sum)
      /\ invoice'[v].paymentStatus = "PAID" <=> r.sum >= r.net
  BY <1>1, <1>2, SettleWrites
<1>6. Grows
  BY <1>1, <1>2, <1>4, <1>5 DEF Grows, Sold, Recorded, Made
<1>7. RowsOK'
  <2>1. Recorded' = Recorded /\ Made' = Made
    BY <1>1, <1>2, <1>4 DEF Recorded, Made
  <2>6. Counted'
    BY <1>1, <1>2, <1>4, <2>1 DEF RowsOK, Counted, Recorded
  <2>2. \A q \in Recorded' : /\ payment'[q].inv \in Invoices /\ Sold(payment[q].inv)'
                             /\ payment'[q].amount > 0
    BY <1>2, <1>4, <1>5, <2>1 DEF RowsOK, Sold, Recorded
  <2>3. \A e \in Exchanges : exchange'[e].status # "NONE" =>
           exchange'[e].inv \in Invoices /\ invoice'[exchange'[e].inv].status # "NONE"
    BY <1>1, <1>2, <1>5 DEF RowsOK
  <2>4. \A d \in Made' : deposit'[d].inv \in Converted
    BY <1>1, <1>2, <2>1 DEF RowsOK
  <2>5. \A d \in Made' : deposit'[d].status = "LATE" => ~SlipIsOut(deposit[d].inv)'
    BY <1>1, <1>2, <1>5, <2>1, PaymentsAssumption DEF RowsOK, SlipIsOut
  <2> QED
    BY <1>2, <2>1, <2>2, <2>3, <2>4, <2>5, <2>6 DEF RowsOK
<1>8. ASSUME NEW w \in Invoices, w # v PROVE Same(w)
  BY <1>1, <1>2, <1>4, <1>5, <1>8 DEF Same, PaidOf, Recorded, AppliedTo
<1>9. ASSUME Mine(call[c]), Books(v) PROVE Books(v)'
  <2>1. /\ p \in CompletedOf(v) /\ r.net = Payable(v)
        /\ r.sum = SumAmounts(CompletedOf(v) \ {p})
    BY <1>1, <1>2, <1>9 DEF Mine
  <2>2. /\ PaidOf(v)' = PaidOf(v) /\ CompletedTotal(v)' = r.sum
        /\ CompletedTotal(v)' <= CompletedTotal(v)
        /\ SumAmounts(DepositPayments(v))' = SumAmounts(DepositPayments(v))
    BY <1>1, <1>2, <2>1, OldPayment
  <2>3. Payable(v)' = Payable(v) /\ PaidOf(v) # {} /\ CompletedTotal(v) \in Nat
    BY <1>2, <1>5, <2>1, PartsOfTheTables, TotalsAreNumbers DEF Payable
  <2>4. Settled(v)'
    BY <1>2, <1>5, <1>9, <2>1, <2>2, <2>3 DEF Books, Settled
  <2>5. Credited(v)' /\ Covered(v)'
    BY <1>1, <1>2, <1>5, <1>9, SameDeposits DEF Books, Credited, AppliedTo, Covered
  <2>6. Booked(v)'
    BY <1>1, <1>2, <1>5, <1>9, <2>2, SameDeposits DEF Books, Booked
  <2> QED
    BY <2>4, <2>5, <2>6 DEF Books
<1> QED
  <2>1. call'[c] = Idle /\ \A d \in Calls \ {c} : call'[d] = call[d]
    BY <1>1, <1>2, FinishWrites
  <2>2. \A w \in Invoices :
           \/ Same(w)
           \/ /\ c \in Calls /\ call'[c] = Idle /\ w = call[c].inv /\ call[c].op # "request"
              /\ w \notin raced /\ Mine(call[c]) /\ Books(w) => Books(w)'
    BY <1>1, <1>2, <1>8, <1>9, <2>1
  <2> QED
    BY <1>3, <1>6, <1>7, <2>1, <2>2, WriteStep

LEMMA RecordDepositStep ==
    ASSUME PaymentsInv, Races, NEW c \in Calls, NEW d \in Deposits, RecordDeposit(c, d)
    PROVE  PaymentsInv'
<1> SUFFICES ASSUME NEW r \in Reading, call[c] = r PROVE PaymentsInv'
  BY Knows
<1> DEFINE v == r.inv
           a == r.amount
<1>1. /\ r.op = "depositing" /\ deposit[d].status = "NONE" /\ Finish(c)
      /\ deposit' = [deposit EXCEPT ![d] = [status |-> "COMPLETED", inv |-> v,
                                            amount |-> a]]
      /\ UNCHANGED <<invoice, payment, exchange>>
  BY DEF RecordDeposit
<1>2. /\ TypeOK /\ RowsOK /\ v \in Converted /\ v \in Invoices /\ a \in Nat
      /\ v = r.inv /\ a = r.amount
  BY <1>1, Knows, PaymentsAssumption DEF Holds, Reading
<1> HIDE DEF v, a
<1>3. TypeOK'
  <2>1. deposit' \in [Deposits -> [status : {"NONE", "COMPLETED", "REVERSED", "LATE"},
                                   inv : Converted \cup {None}, amount : Nat]]
    BY <1>1, <1>2 DEF TypeOK
  <2> QED
    BY <1>1, <1>2, <2>1, FinishWrites DEF TypeOK, Races
<1>4. /\ Made' = Made \cup {d} /\ d \notin Made
      /\ \A e \in Deposits \ {d} : deposit'[e] = deposit[e]
      /\ deposit'[d] = [status |-> "COMPLETED", inv |-> v, amount |-> a]
      /\ DepositTotal(v)' = DepositTotal(v) + a
  <2>1. DepositInserted(d, v, a)
    BY <1>1, <1>2, NewDeposit DEF InsertDeposit
  <2> QED
    BY <2>1 DEF DepositInserted
<1>5. Grows
  BY <1>1, <1>4 DEF Grows, Sold, Recorded, Made
<1>6. RowsOK'
  <2>1. IsFiniteSet(Recorded') /\ Counted' /\ IsFiniteSet(Made') /\ Recorded' = Recorded
    BY <1>1, <1>2, <1>4, FS_AddElement, SamePayments DEF RowsOK
  <2>2. \A q \in Recorded' : /\ payment'[q].inv \in Invoices /\ Sold(payment[q].inv)'
                             /\ payment'[q].amount > 0
    BY <1>1, <1>2, <2>1 DEF RowsOK, Sold
  <2>3. \A e \in Exchanges : exchange'[e].status # "NONE" =>
           exchange'[e].inv \in Invoices /\ invoice'[exchange'[e].inv].status # "NONE"
    BY <1>1, <1>2 DEF RowsOK
  <2>4. \A e \in Made' : deposit'[e].inv \in Converted
    BY <1>2, <1>4 DEF RowsOK, Made
  <2>5. \A e \in Made' : deposit'[e].status = "LATE" => ~SlipIsOut(deposit[e].inv)'
    BY <1>1, <1>2, <1>4 DEF RowsOK, SlipIsOut
  <2> QED
    BY <2>1, <2>2, <2>3, <2>4, <2>5 DEF RowsOK
<1>7. ASSUME NEW w \in Invoices, w # v PROVE Same(w)
  BY <1>1, <1>4, <1>7 DEF Same, PaidOf, AppliedTo, DepositsEver, Made
<1>8. ASSUME Mine(call[c]), Books(v) PROVE Books(v)'
  <2>1. SlipIsOut(v) /\ DepositFits(v, a)
    BY <1>1, <1>2, <1>8 DEF Mine
  <2>2. Settled(v)' /\ Credited(v)'
    BY <1>1, <1>8, SamePayments DEF Books, Settled, Credited, AppliedTo, Payable
  <2>3. Booked(v)' /\ Covered(v)'
    BY <1>1, <1>4, <2>1 DEF Booked, SlipIsOut, DepositFits, Covered
  <2> QED
    BY <2>2, <2>3 DEF Books
<1> QED
  <2>1. call'[c] = Idle /\ \A e \in Calls \ {c} : call'[e] = call[e]
    BY <1>1, <1>2, FinishWrites
  <2>2. \A w \in Invoices :
           \/ Same(w)
           \/ /\ c \in Calls /\ call'[c] = Idle /\ w = call[c].inv /\ call[c].op # "request"
              /\ w \notin raced /\ Mine(call[c]) /\ Books(w) => Books(w)'
    BY <1>1, <1>2, <1>7, <1>8, <2>1
  <2> QED
    BY <1>3, <1>5, <1>6, <2>1, <2>2, WriteStep

LEMMA ReverseDepositStep ==
    ASSUME PaymentsInv, Races, NEW c \in Calls, ReverseDeposit(c)
    PROVE  PaymentsInv'
<1> SUFFICES ASSUME NEW r \in Reading, call[c] = r PROVE PaymentsInv'
  BY Knows
<1> DEFINE v == r.inv
           d == r.row
           s == IF SlipIsOut(r.inv) THEN "REVERSED" ELSE "LATE"
<1>1. /\ r.op = "undo" /\ Finish(c) /\ UNCHANGED <<invoice, payment, exchange>>
      /\ deposit' = [deposit EXCEPT ![d].status = s]
  BY DEF ReverseDeposit
<1>2. /\ TypeOK /\ RowsOK /\ d \in Made /\ d \in Deposits /\ deposit[d].inv = v
      /\ v \in Converted /\ v \in Invoices /\ v = r.inv /\ d = r.row
      /\ s \in {"REVERSED", "LATE"} /\ (s = "LATE" <=> ~SlipIsOut(v))
  BY <1>1, Knows, PaymentsAssumption DEF Holds, RowsOK, Made
<1> HIDE DEF v, d, s
<1>3. /\ \A e \in Deposits \ {d} : deposit'[e] = deposit[e]
      /\ deposit'[d].status = s /\ deposit'[d].inv = v
  BY <1>1, <1>2 DEF TypeOK
<1>4. TypeOK'
  <2>1. deposit' \in [Deposits -> [status : {"NONE", "COMPLETED", "REVERSED", "LATE"},
                                   inv : Converted \cup {None}, amount : Nat]]
    <3> DEFINE Columns == [status : {"NONE", "COMPLETED", "REVERSED", "LATE"},
                           inv : Converted \cup {None}, amount : Nat]
               row == [deposit[d] EXCEPT !.status = s]
    <3>1. deposit \in [Deposits -> Columns]
      BY <1>2 DEF TypeOK
    <3>2. row \in Columns /\ deposit' = [deposit EXCEPT ![d] = row]
      BY <1>1, <1>2, <3>1
    <3>3. deposit' \in [Deposits -> Columns]
      <4> HIDE DEF Columns, row
      <4> QED
        BY <3>1, <3>2
    <3> QED
      BY <3>3
  <2> QED
    BY <1>1, <1>2, <2>1, FinishWrites DEF TypeOK, Races
<1>5. Grows
  BY <1>1, <1>2, <1>3 DEF Grows, Sold, Recorded, Made
<1>6. RowsOK'
  <2>1. Recorded' = Recorded /\ Made' = Made /\ Counted'
    BY <1>1, <1>2, <1>3, SamePayments DEF Made, RowsOK
  <2>2. \A q \in Recorded' : /\ payment'[q].inv \in Invoices /\ Sold(payment[q].inv)'
                             /\ payment'[q].amount > 0
    BY <1>1, <1>2, <2>1 DEF RowsOK, Sold
  <2>3. \A e \in Exchanges : exchange'[e].status # "NONE" =>
           exchange'[e].inv \in Invoices /\ invoice'[exchange'[e].inv].status # "NONE"
    BY <1>1, <1>2 DEF RowsOK
  <2>4. \A e \in Made' : deposit'[e].inv \in Converted
    BY <1>2, <1>3, <2>1 DEF RowsOK, Made
  <2>5. \A e \in Made' : deposit'[e].status = "LATE" => ~SlipIsOut(deposit[e].inv)'
    BY <1>1, <1>2, <1>3, <2>1 DEF RowsOK, SlipIsOut
  <2> QED
    BY <1>2, <2>1, <2>2, <2>3, <2>4, <2>5 DEF RowsOK
<1>7. ASSUME NEW w \in Invoices, w # v PROVE Same(w)
  BY <1>1, <1>2, <1>3, <1>7 DEF Same, PaidOf, AppliedTo, DepositsEver
<1>8. ASSUME Mine(call[c]), Books(v) PROVE Books(v)'
  <2>1. d \in DepositsOf(v)
    BY <1>1, <1>2, <1>8 DEF Mine, DepositsOf
  <2>2. /\ DepositTotal(v)' \in Nat /\ DepositTotal(v)' <= DepositTotal(v)
        /\ s = "LATE" => SumDeposits(KeptDeposits(v))' = SumDeposits(KeptDeposits(v))
    BY <1>1, <1>2, <2>1, OldDeposit
  <2>3. Settled(v)' /\ Credited(v)'
    BY <1>1, <1>8, SamePayments DEF Books, Settled, Credited, AppliedTo, Payable
  <2>4. Booked(v)'
    BY <1>1, <1>2, <1>8, <2>2, SamePayments DEF Books, Booked, SlipIsOut
  <2>5. Covered(v)'
    <3>1. DepositTotal(v) \in Nat /\ Required[v] \in Nat
      BY <1>2, TotalsAreNumbers, PaymentsAssumption
    <3> QED
      BY <1>8, <2>2, <3>1 DEF Books, Covered
  <2> QED
    BY <2>3, <2>4, <2>5 DEF Books
<1> QED
  <2>1. call'[c] = Idle /\ \A e \in Calls \ {c} : call'[e] = call[e]
    BY <1>1, <1>2, FinishWrites
  <2>2. \A w \in Invoices :
           \/ Same(w)
           \/ /\ c \in Calls /\ call'[c] = Idle /\ w = call[c].inv /\ call[c].op # "request"
              /\ w \notin raced /\ Mine(call[c]) /\ Books(w) => Books(w)'
    BY <1>1, <1>2, <1>7, <1>8, <2>1
  <2> QED
    BY <1>4, <1>5, <1>6, <2>1, <2>2, WriteStep

LEMMA CreateExchangeStep ==
    ASSUME PaymentsInv, Races, NEW c \in Calls, NEW e \in Exchanges, CreateExchange(c, e)
    PROVE  PaymentsInv'
<1> SUFFICES ASSUME NEW r \in Reading, call[c] = r PROVE PaymentsInv'
  BY Knows
<1> DEFINE v == r.inv
<1>1. /\ r.op = "request" /\ Finish(c) /\ UNCHANGED <<invoice, payment, deposit>>
      /\ exchange[e].status = "NONE"
      /\ exchange' = [exchange EXCEPT ![e] = [status |-> "REQUESTED", inv |-> v, value |-> 0]]
  BY DEF CreateExchange
<1>2. TypeOK /\ RowsOK /\ v \in Invoices /\ invoice[v].status # "NONE"
  BY <1>1, Knows DEF Holds
<1> HIDE DEF v
<1>3. /\ \A x \in Exchanges \ {e} : exchange'[x] = exchange[x]
      /\ exchange'[e].status = "REQUESTED" /\ exchange'[e].inv = v
  BY <1>1, <1>2 DEF TypeOK
<1>4. TypeOK'
  <2>1. exchange' \in [Exchanges -> [status : ExchangeStatus, inv : Invoices \cup {None},
                                     value : Values \cup {0}]]
    BY <1>1, <1>2 DEF TypeOK, ExchangeStatus
  <2> QED
    BY <1>1, <1>2, <2>1, FinishWrites DEF TypeOK, Races
<1>5. Grows
  BY <1>1, <1>3 DEF Grows, Sold, Recorded, Made
<1>6. RowsOK'
  BY <1>1, <1>2, <1>3, SamePayments, SameDeposits DEF RowsOK, Sold, SlipIsOut
<1>7. \A w \in Invoices : Same(w)
  BY <1>1, <1>3 DEF Same, PaidOf, AppliedTo, DepositsEver
<1>8. call'[c] = Idle /\ \A d \in Calls \ {c} : call'[d] = call[d]
  BY <1>1, <1>2, FinishWrites
<1> QED
  BY <1>4, <1>5, <1>6, <1>7, <1>8, WriteStep

\* An exchange that is not applied, valued or cancelled by the request c.
LEMMA ExchangeStep ==
    ASSUME PaymentsInv, Races, NEW c \in Calls, NEW r \in Reading, call[c] = r, Finish(c),
           UNCHANGED <<invoice, payment, deposit>>,
           \/ /\ r.op = "value" /\ r.amount \in Values \cup {0}
              /\ exchange' = [exchange EXCEPT ![r.row] =
                    [@ EXCEPT !.status = "VALUED", !.value = r.amount]]
           \/ /\ r.op = "drop"
              /\ exchange' = [exchange EXCEPT ![r.row].status = "CANCELLED"]
    PROVE  PaymentsInv'
<1> DEFINE v == r.inv
           e == r.row
<1>1. /\ TypeOK /\ RowsOK /\ e \in Exchanges /\ exchange[e].status # "NONE"
      /\ exchange[e].inv = v /\ v \in Invoices /\ v = r.inv /\ e = r.row
  BY Knows DEF Holds, RowsOK
<1> HIDE DEF v, e
<1> DEFINE Columns == [status : ExchangeStatus, inv : Invoices \cup {None},
                       value : Values \cup {0}]
<1>2. /\ exchange' \in [Exchanges -> Columns]
      /\ \A x \in Exchanges \ {e} : exchange'[x] = exchange[x]
      /\ exchange'[e].status \in {"VALUED", "CANCELLED"} /\ exchange'[e].inv = v
  <2>1. exchange \in [Exchanges -> Columns]
    BY <1>1 DEF TypeOK
  <2>2. \E row \in Columns : /\ exchange' = [exchange EXCEPT ![e] = row]
                             /\ row.status \in {"VALUED", "CANCELLED"} /\ row.inv = v
    <3>1. CASE r.op = "value"
      <4> DEFINE a == r.amount
                 row == [exchange[e] EXCEPT !.status = "VALUED", !.value = a]
      <4>1. a \in Values \cup {0} /\ "VALUED" \in ExchangeStatus
        BY <3>1 DEF ExchangeStatus
      <4>2. exchange' = [exchange EXCEPT ![e] = row]
        BY <1>1, <3>1
      <4> HIDE DEF a
      <4>3. exchange[e] \in Columns /\ exchange[e].inv = v
        BY <1>1, <2>1
      <4>4. row \in Columns /\ row.status = "VALUED" /\ row.inv = v
        BY <4>1, <4>3
      <4> HIDE DEF row
      <4> QED
        BY <4>2, <4>4
    <3>2. CASE r.op = "drop"
      <4> DEFINE row == [exchange[e] EXCEPT !.status = "CANCELLED"]
      <4>1. row \in Columns /\ row.status = "CANCELLED" /\ row.inv = v
        BY <1>1, <2>1 DEF ExchangeStatus
      <4>2. exchange' = [exchange EXCEPT ![e] = row]
        BY <1>1, <3>2
      <4> HIDE DEF row
      <4> QED
        BY <4>1, <4>2
    <3> QED
      BY <3>1, <3>2
  <2> HIDE DEF Columns
  <2> QED
    BY <1>1, <2>1, <2>2
<1>3. TypeOK'
  BY <1>1, <1>2, FinishWrites DEF TypeOK, Races
<1>4. Grows
  BY <1>1, <1>2 DEF Grows, Sold, Recorded, Made
<1>5. RowsOK'
  BY <1>1, <1>2, SamePayments, SameDeposits DEF RowsOK, Sold, SlipIsOut
<1>6. ASSUME NEW w \in Invoices, w # v PROVE Same(w)
  BY <1>1, <1>2, <1>6 DEF Same, PaidOf, AppliedTo, DepositsEver
<1>7. ASSUME Mine(call[c]), Books(v) PROVE Books(v)'
  <2>1. exchange[e].status # "APPLIED"
    BY <1>1, <1>7 DEF Mine
  <2>2. AppliedTo(v)' = AppliedTo(v)
    BY <1>1, <1>2, <2>1 DEF AppliedTo
  <2>3. Credited(v)'
    BY <1>2, <1>7, <2>1, <2>2 DEF Books, Credited, AppliedTo
  <2>4. Settled(v)' /\ Booked(v)' /\ Covered(v)'
    BY <1>7, SamePayments, SameDeposits DEF Books, Settled, Booked, Covered, Payable
  <2> QED
    BY <2>3, <2>4 DEF Books
<1> QED
  <2>1. call'[c] = Idle /\ \A d \in Calls \ {c} : call'[d] = call[d]
    BY <1>1, FinishWrites
  <2>2. \A w \in Invoices :
           \/ Same(w)
           \/ /\ c \in Calls /\ call'[c] = Idle /\ w = call[c].inv /\ call[c].op # "request"
              /\ w \notin raced /\ Mine(call[c]) /\ Books(w) => Books(w)'
    BY <1>1, <1>6, <1>7, <2>1
  <2> QED
    BY <1>3, <1>4, <1>5, <2>1, <2>2, WriteStep

LEMMA ValueExchangeStep ==
    ASSUME PaymentsInv, Races, NEW c \in Calls, ValueExchange(c)
    PROVE  PaymentsInv'
<1> SUFFICES ASSUME NEW r \in Reading, call[c] = r PROVE PaymentsInv'
  BY Knows
<1>1. /\ r.op = "value" /\ Finish(c) /\ UNCHANGED <<invoice, payment, deposit>>
      /\ exchange' = [exchange EXCEPT ![r.row] =
            [@ EXCEPT !.status = "VALUED", !.value = r.amount]]
  BY DEF ValueExchange
<1>2. r.amount \in Values \cup {0}
  BY <1>1, Knows DEF Holds
<1> QED
  BY <1>1, <1>2, ExchangeStep

LEMMA CancelExchangeStep ==
    ASSUME PaymentsInv, Races, NEW c \in Calls, CancelExchange(c)
    PROVE  PaymentsInv'
<1> SUFFICES ASSUME NEW r \in Reading, call[c] = r PROVE PaymentsInv'
  BY Knows
<1>1. /\ r.op = "drop" /\ Finish(c) /\ UNCHANGED <<invoice, payment, deposit>>
      /\ exchange' = [exchange EXCEPT ![r.row].status = "CANCELLED"]
  BY DEF CancelExchange
<1> QED
  BY <1>1, ExchangeStep

LEMMA ApplyExchangeStep ==
    ASSUME PaymentsInv, Races, NEW c \in Calls, ApplyExchange(c)
    PROVE  PaymentsInv'
<1> SUFFICES ASSUME NEW r \in Reading, call[c] = r PROVE PaymentsInv'
  BY Knows
<1> DEFINE v == r.inv
           e == r.row
           a == r.amount
           left == Outstanding(Total[v] - a, r.sum)
<1>1. /\ r.op = "apply" /\ Finish(c) /\ UNCHANGED <<payment, deposit>>
      /\ exchange' = [exchange EXCEPT ![e].status = "APPLIED"]
      /\ invoice' = [invoice EXCEPT ![v] = [@ EXCEPT !.credit = a, !.outstanding = left]]
  BY DEF ApplyExchange
<1>2. /\ TypeOK /\ RowsOK /\ e \in Exchanges /\ exchange[e].status # "NONE"
      /\ exchange[e].inv = v /\ v \in Invoices /\ v = r.inv /\ e = r.row /\ a = r.amount
      /\ a \in Values \cup {0}
  BY <1>1, Knows DEF Holds, RowsOK
<1>3. left \in Nat
  <2>1. a \in Nat /\ r.sum \in Nat
    BY DEF Reading
  <2>2. Total[v] \in Nat
    BY <1>2, PaymentsAssumption
  <2> HIDE DEF v, a
  <2> QED
    BY <2>1, <2>2 DEF Outstanding
<1> HIDE DEF v, e, a, left
<1>4. /\ exchange' \in [Exchanges -> [status : ExchangeStatus, inv : Invoices \cup {None},
                                      value : Values \cup {0}]]
      /\ \A x \in Exchanges \ {e} : exchange'[x] = exchange[x]
      /\ exchange'[e].status = "APPLIED" /\ exchange'[e].inv = v
      /\ exchange'[e].value = exchange[e].value
  <2> DEFINE Columns == [status : ExchangeStatus, inv : Invoices \cup {None},
                         value : Values \cup {0}]
             row == [exchange[e] EXCEPT !.status = "APPLIED"]
  <2>1. exchange \in [Exchanges -> Columns]
    BY <1>2 DEF TypeOK
  <2>2. /\ row \in Columns /\ exchange' = [exchange EXCEPT ![e] = row]
        /\ row.status = "APPLIED" /\ row.inv = v /\ row.value = exchange[e].value
    BY <1>1, <1>2, <2>1 DEF ExchangeStatus
  <2> HIDE DEF row
  <2>3. exchange' \in [Exchanges -> Columns]
    <3> HIDE DEF Columns
    <3> QED
      BY <2>1, <2>2
  <2> QED
    BY <1>2, <2>1, <2>2, <2>3
<1>5. /\ invoice' \in [Invoices -> [status : {"NONE", "DRAFT", "CONFIRMED", "CANCELLED"},
                                    credit : Values \cup {0}, totalPaid : Nat, outstanding : Nat,
                                    paymentStatus : PaymentStatus]]
      /\ \A w \in Invoices : invoice'[w].status = invoice[w].status
      /\ \A w \in Invoices \ {v} : invoice'[w] = invoice[w]
      /\ invoice'[v].credit = a
  <2> DEFINE Columns == [status : {"NONE", "DRAFT", "CONFIRMED", "CANCELLED"},
                         credit : Values \cup {0}, totalPaid : Nat, outstanding : Nat,
                         paymentStatus : PaymentStatus]
             row == [invoice[v] EXCEPT !.credit = a, !.outstanding = left]
  <2>1. invoice \in [Invoices -> Columns]
    BY <1>2 DEF TypeOK
  <2>2. /\ row \in Columns /\ row.status = invoice[v].status /\ row.credit = a
        /\ invoice' = [invoice EXCEPT ![v] = row]
    BY <1>1, <1>2, <1>3, <2>1
  <2> HIDE DEF row
  <2>3. invoice' \in [Invoices -> Columns]
    <3> HIDE DEF Columns
    <3> QED
      BY <2>1, <2>2
  <2> QED
    BY <1>2, <2>1, <2>2, <2>3
<1>6. TypeOK'
  BY <1>1, <1>2, <1>4, <1>5, FinishWrites DEF TypeOK, Races
<1>7. Grows
  BY <1>1, <1>2, <1>4, <1>5 DEF Grows, Sold, Recorded, Made
<1>8. RowsOK'
  <2>1. \A d \in Made : deposit[d].inv \in Invoices
    BY <1>2, PaymentsAssumption DEF RowsOK
  <2>2. /\ Recorded' = Recorded /\ Made' = Made /\ Counted'
        /\ IsFiniteSet(Recorded) /\ IsFiniteSet(Made)
    BY <1>1, <1>2, SamePayments, SameDeposits DEF RowsOK
  <2>3. \A p \in Recorded : /\ payment'[p].inv \in Invoices /\ Sold(payment[p].inv)'
                            /\ payment'[p].amount > 0
    BY <1>1, <1>2, <1>4, <1>5 DEF RowsOK, Sold
  <2>4. \A x \in Exchanges : exchange'[x].status # "NONE" =>
           exchange'[x].inv \in Invoices /\ invoice'[exchange'[x].inv].status # "NONE"
    BY <1>1, <1>2, <1>4, <1>5 DEF RowsOK
  <2>5. \A d \in Made : /\ deposit'[d].inv \in Converted
                        /\ deposit'[d].status = "LATE" => ~SlipIsOut(deposit[d].inv)'
    BY <1>1, <1>2, <1>4, <1>5, <2>1 DEF RowsOK, SlipIsOut
  <2> QED
    BY <2>2, <2>3, <2>4, <2>5 DEF RowsOK
<1>9. ASSUME NEW w \in Invoices, w # v PROVE Same(w)
  BY <1>1, <1>2, <1>4, <1>5, <1>9 DEF Same, PaidOf, AppliedTo, DepositsEver
<1>10. ASSUME Mine(call[c]), Books(v) PROVE Books(v)'
  <2>1. exchange[e].value = a /\ AppliedTo(v) = {} /\ PaidOf(v) = {}
    BY <1>1, <1>2, <1>10 DEF Mine
  <2>2. AppliedTo(v)' = {e}
    BY <1>2, <1>4, <2>1 DEF AppliedTo
  <2>3. Credited(v)'
    BY <1>4, <1>5, <2>1, <2>2 DEF Credited
  <2>4. Settled(v)'
    BY <1>1, <2>1, SamePayments DEF Settled
  <2>5. Booked(v)' /\ Covered(v)'
    BY <1>1, <1>2, <1>5, <1>10, SamePayments, SameDeposits DEF Books, Booked, Covered
  <2> QED
    BY <2>3, <2>4, <2>5 DEF Books
<1> QED
  <2>1. call'[c] = Idle /\ \A d \in Calls \ {c} : call'[d] = call[d]
    BY <1>1, <1>2, FinishWrites
  <2>2. \A w \in Invoices :
           \/ Same(w)
           \/ /\ c \in Calls /\ call'[c] = Idle /\ w = call[c].inv /\ call[c].op # "request"
              /\ w \notin raced /\ Mine(call[c]) /\ Books(w) => Books(w)'
    BY <1>1, <1>2, <1>9, <1>10, <2>1
  <2> QED
    BY <1>6, <1>7, <1>8, <2>1, <2>2, WriteStep

LEMMA ChangeStatusStep ==
    ASSUME PaymentsInv, Races, NEW v \in Invoices, ConfirmInvoice(v) \/ CancelInvoice(v)
    PROVE  PaymentsInv'
<1>1. PICK to \in {"CONFIRMED", "CANCELLED"} :
         /\ invoice[v].status \in {"DRAFT", "CONFIRMED"}
         /\ invoice' = [invoice EXCEPT ![v].status = to]
         /\ UNCHANGED <<payment, exchange, deposit, call>>
  BY DEF ConfirmInvoice, CancelInvoice, ChangeStatus
<1>2. TypeOK /\ RowsOK
  BY DEF PaymentsInv
<1>3. /\ invoice' \in [Invoices -> [status : {"NONE", "DRAFT", "CONFIRMED", "CANCELLED"},
                                    credit : Values \cup {0}, totalPaid : Nat, outstanding : Nat,
                                    paymentStatus : PaymentStatus]]
      /\ \A w \in Invoices \ {v} : invoice'[w] = invoice[w]
      /\ invoice'[v].status = to /\ invoice'[v].credit = invoice[v].credit
      /\ invoice'[v].totalPaid = invoice[v].totalPaid
      /\ invoice'[v].outstanding = invoice[v].outstanding
      /\ invoice'[v].paymentStatus = invoice[v].paymentStatus
  <2> DEFINE Columns == [status : {"NONE", "DRAFT", "CONFIRMED", "CANCELLED"},
                         credit : Values \cup {0}, totalPaid : Nat, outstanding : Nat,
                         paymentStatus : PaymentStatus]
             row == [invoice[v] EXCEPT !.status = to]
  <2>1. invoice \in [Invoices -> Columns]
    BY <1>2 DEF TypeOK
  <2>2. /\ row \in Columns /\ row.status = to /\ row.credit = invoice[v].credit
        /\ row.totalPaid = invoice[v].totalPaid /\ row.outstanding = invoice[v].outstanding
        /\ row.paymentStatus = invoice[v].paymentStatus
        /\ invoice' = [invoice EXCEPT ![v] = row]
    BY <1>1, <2>1
  <2> HIDE DEF row
  <2>3. invoice' \in [Invoices -> Columns]
    <3> HIDE DEF Columns
    <3> QED
      BY <2>1, <2>2
  <2> QED
    BY <2>1, <2>2, <2>3
<1>4. TypeOK'
  BY <1>1, <1>2, <1>3 DEF TypeOK, Races
<1>5. Grows
  BY <1>1, <1>3 DEF Grows, Sold, Recorded, Made
<1>6. RowsOK'
  <2>1. \A d \in Made : deposit[d].inv \in Invoices
    BY <1>2, PaymentsAssumption DEF RowsOK
  <2>2. /\ Recorded' = Recorded /\ Made' = Made /\ Counted'
        /\ IsFiniteSet(Recorded) /\ IsFiniteSet(Made)
    BY <1>1, <1>2, SamePayments, SameDeposits DEF RowsOK
  <2>3. \A p \in Recorded : /\ payment'[p].inv \in Invoices /\ Sold(payment[p].inv)'
                            /\ payment'[p].amount > 0
    BY <1>1, <1>2, <1>3 DEF RowsOK, Sold
  <2>4. \A x \in Exchanges : exchange'[x].status # "NONE" =>
           exchange'[x].inv \in Invoices /\ invoice'[exchange'[x].inv].status # "NONE"
    BY <1>1, <1>2, <1>3 DEF RowsOK
  <2>5. \A d \in Made : /\ deposit'[d].inv \in Converted
                        /\ deposit'[d].status = "LATE" => ~SlipIsOut(deposit[d].inv)'
    BY <1>1, <1>2, <1>3, <2>1 DEF RowsOK, SlipIsOut
  <2> QED
    BY <2>2, <2>3, <2>4, <2>5 DEF RowsOK
<1>7. \A w \in Invoices : Same(w)
  BY <1>1, <1>3 DEF Same, PaidOf, AppliedTo, DepositsEver
<1>8. ASSUME NEW c PROVE PaymentsInv'
  BY <1>1, <1>4, <1>5, <1>6, <1>7, WriteStep
<1> QED
  BY <1>8

\* A slip that is out has an invoice on which nothing was paid and no gold was taken, and
\* all its deposits that were not reversed are completed.
LEMMA SlipsAreUnpaid ==
    ASSUME TypeOK, RowsOK, NEW v \in Invoices, SlipIsOut(v)
    PROVE  PaidOf(v) = {} /\ AppliedTo(v) = {} /\ KeptDeposits(v) = DepositsOf(v)
<1>1. PaidOf(v) = {}
  BY DEF RowsOK, PaidOf, Sold, SlipIsOut
<1>2. AppliedTo(v) = {}
  BY DEF RowsOK, AppliedTo, SlipIsOut
<1>3. KeptDeposits(v) = DepositsOf(v)
  BY DEF RowsOK, KeptDeposits, DepositsOf, Made
<1> QED
  BY <1>1, <1>2, <1>3

LEMMA PurchaseStep ==
    ASSUME PaymentsInv, Races, NEW c \in Calls, NEW p \in Payments, PurchaseWithDeposit(c, p)
    PROVE  PaymentsInv'
<1> SUFFICES ASSUME NEW r \in Reading, call[c] = r PROVE PaymentsInv'
  BY Knows
<1> DEFINE v == r.inv
           a == IF r.sum < Total[r.inv] THEN r.sum ELSE Total[r.inv]
           left == Total[r.inv] - a
           word == IF a >= Total[r.inv] THEN "PAID" ELSE IF a > 0 THEN "PARTIAL" ELSE "UNPAID"
<1>1. /\ r.op = "purchase" /\ SlipIsOut(v) /\ payment[p].status = "NONE"
      /\ invoice' = [invoice EXCEPT ![v] = [status |-> "CONFIRMED", credit |-> 0, totalPaid |-> a,
                                            outstanding |-> left, paymentStatus |-> word]]
      /\ payment' = IF a = 0 THEN payment
                    ELSE [payment EXCEPT ![p] = [status |-> "COMPLETED", inv |-> v,
                                                 amount |-> a, number |-> 0]]
      /\ Finish(c) /\ UNCHANGED <<exchange, deposit>>
  BY DEF PurchaseWithDeposit
<1>2. /\ TypeOK /\ RowsOK /\ v \in Converted /\ v \in Invoices /\ v = r.inv
      /\ Total[v] \in Nat /\ r.sum \in Nat
  BY <1>1, Knows, PaymentsAssumption DEF Holds, Reading
<1>3. /\ a \in Nat /\ a <= Total[v] /\ a = (IF r.sum < Total[v] THEN r.sum ELSE Total[v])
      /\ left = Outstanding(Total[v], a) /\ left \in Nat
      /\ word \in PaymentStatus /\ (word = "PAID" <=> a = Total[v])
  BY <1>2 DEF Outstanding, PaymentStatus
<1> HIDE DEF v, a, left, word
<1>4. /\ invoice' \in [Invoices -> [status : {"NONE", "DRAFT", "CONFIRMED", "CANCELLED"},
                                    credit : Values \cup {0}, totalPaid : Nat, outstanding : Nat,
                                    paymentStatus : PaymentStatus]]
      /\ \A w \in Invoices \ {v} : invoice'[w] = invoice[w]
      /\ invoice'[v] = [status |-> "CONFIRMED", credit |-> 0, totalPaid |-> a,
                        outstanding |-> left, paymentStatus |-> word]
  BY <1>1, <1>2, <1>3 DEF TypeOK
<1>5. /\ payment' \in [Payments -> [status : {"NONE", "COMPLETED", "REVERSED"},
                                    inv : Invoices \cup {None}, amount : Nat, number : Nat]]
      /\ \A q \in Payments \ {p} : payment'[q] = payment[q]
      /\ Recorded' = IF a = 0 THEN Recorded ELSE Recorded \cup {p}
      /\ p \notin Recorded /\ (a = 0 => payment' = payment)
      /\ a # 0 => payment'[p] = [status |-> "COMPLETED", inv |-> v, amount |-> a, number |-> 0]
  BY <1>1, <1>2, <1>3 DEF TypeOK, Recorded
<1>6. CompletedTotal(v)' = a /\ SumAmounts(DepositPayments(v))' = a
  <2>1. CompletedTotal(v) = 0 /\ SumAmounts(DepositPayments(v)) = 0
    <3>1. CompletedOf(v) = {} /\ DepositPayments(v) = {}
      BY <1>1, <1>2, SlipsAreUnpaid, PartsOfTheTables
    <3> QED
      BY <3>1, SumEmpty DEF CompletedTotal, SumAmounts
  <2>2. CASE a = 0
    BY <1>5, <2>1, <2>2, SamePayments
  <2>3. CASE a # 0
    <3>1. Insert(p, v, a, 0)
      BY <1>1, <2>3 DEF Insert
    <3>2. Inserted(p, v, a, 0)
      BY <1>2, <1>3, <3>1, NewPayment
    <3> QED
      BY <1>3, <2>1, <3>2 DEF Inserted
  <2> QED
    BY <2>2, <2>3
<1>7. TypeOK'
  BY <1>1, <1>2, <1>4, <1>5, FinishWrites DEF TypeOK, Races
<1>8. Grows
  BY <1>1, <1>4, <1>5 DEF Grows, Sold, SlipIsOut, Recorded, Made
<1>9. RowsOK'
  <2>6. IsFiniteSet(Recorded') /\ Counted'
    <3>1. CASE a = 0
      BY <1>2, <1>5, <3>1, SamePayments DEF RowsOK
    <3>2. CASE a # 0
      <4>1. payment'[p].number \in 0..NextNumber
        BY <1>2, <1>5, <3>2, FS_CardinalityType DEF RowsOK, NextNumber
      <4> QED
        BY <1>2, <1>5, <3>2, <4>1, OneMoreCounted DEF Recorded
    <3> QED
      BY <3>1, <3>2
  <2>1. IsFiniteSet(Made') /\ Made' = Made
    BY <1>1, <1>2 DEF RowsOK, Made
  <2>2. \A q \in Recorded' : /\ payment'[q].inv \in Invoices /\ Sold(payment[q].inv)'
                             /\ payment'[q].amount > 0
    <3>1. ASSUME NEW q \in Recorded
          PROVE  payment'[q].inv \in Invoices /\ Sold(payment[q].inv)' /\ payment'[q].amount > 0
      BY <1>2, <1>4, <1>5 DEF RowsOK, Sold, Recorded
    <3>2. a # 0 => payment'[p].inv \in Invoices /\ Sold(payment[p].inv)' /\ payment'[p].amount > 0
      BY <1>2, <1>3, <1>4, <1>5 DEF Sold
    <3> QED
      BY <1>5, <3>1, <3>2
  <2>3. \A e \in Exchanges : exchange'[e].status # "NONE" =>
           exchange'[e].inv \in Invoices /\ invoice'[exchange'[e].inv].status # "NONE"
    BY <1>1, <1>2, <1>4 DEF RowsOK
  <2>4. \A d \in Made' : deposit'[d].inv \in Converted
    BY <1>1, <1>2, <2>1 DEF RowsOK
  <2>5. \A d \in Made' : deposit'[d].status = "LATE" => ~SlipIsOut(deposit[d].inv)'
    BY <1>1, <1>2, <1>4, <2>1, PaymentsAssumption DEF RowsOK, SlipIsOut
  <2> QED
    BY <2>1, <2>2, <2>3, <2>4, <2>5, <2>6 DEF RowsOK
<1>10. ASSUME NEW w \in Invoices, w # v PROVE Same(w)
  BY <1>1, <1>4, <1>5, <1>10 DEF Same, PaidOf, Recorded, AppliedTo, DepositsEver
<1>11. ASSUME Mine(call[c]), Books(v) PROVE Books(v)'
  <2>1. r.sum = DepositTotal(v)
    BY <1>1, <1>2, <1>11 DEF Mine
  <2>2. PaidOf(v) = {} /\ AppliedTo(v) = {} /\ KeptDeposits(v) = DepositsOf(v)
    BY <1>1, <1>2, SlipsAreUnpaid
  <2>3. Payable(v)' = Total[v] /\ (a = 0 => PaidOf(v)' = {})
    BY <1>2, <1>4, <1>5, <2>2, SamePayments DEF Payable
  <2>4. Settled(v)'
    BY <1>2, <1>3, <1>4, <1>6, <2>3 DEF Settled
  <2>5. Credited(v)'
    BY <1>1, <1>4, <2>2 DEF Credited, AppliedTo
  <2>6. SumDeposits(KeptDeposits(v))' = r.sum
    BY <1>1, <2>1, <2>2, SameDeposits DEF DepositTotal
  <2>7. Booked(v)'
    BY <1>3, <1>6, <2>6 DEF Booked
  <2>8. Covered(v)'
    BY <1>1, <1>11, SameDeposits DEF Books, Covered
  <2> QED
    BY <2>4, <2>5, <2>7, <2>8 DEF Books
<1> QED
  <2>1. call'[c] = Idle /\ \A d \in Calls \ {c} : call'[d] = call[d]
    BY <1>1, <1>2, FinishWrites
  <2>2. \A w \in Invoices :
           \/ Same(w)
           \/ /\ c \in Calls /\ call'[c] = Idle /\ w = call[c].inv /\ call[c].op # "request"
              /\ w \notin raced /\ Mine(call[c]) /\ Books(w) => Books(w)'
    BY <1>1, <1>2, <1>10, <1>11, <2>1
  <2> QED
    BY <1>7, <1>8, <1>9, <2>1, <2>2, WriteStep

-----------------------------------------------------------------------------
(* The theorems.                                                           *)

LEMMA InitOK == Init => PaymentsInv
<1> SUFFICES ASSUME Init PROVE PaymentsInv
  OBVIOUS
<1>1. Recorded = {} /\ Made = {} /\ \A v : AppliedTo(v) = {}
  BY DEF Init, Recorded, Made, AppliedTo
<1>2. \A c \in Calls : call[c] = Idle
  BY DEF Init
<1>3. TypeOK
  BY IdleIsAReading DEF Init, TypeOK, PaymentStatus, ExchangeStatus
<1>4. RowsOK
  BY <1>1, FS_EmptySet DEF Init, RowsOK, Counted
<1>5. \A v \in Invoices : InHand(v) = {}
  BY <1>2, IdleIsAReading DEF InHand
<1>6. \A v \in Invoices : Books(v)
  <2> SUFFICES ASSUME NEW v \in Invoices PROVE Books(v)
    OBVIOUS
  <2>1. Settled(v) /\ Credited(v)
    BY <1>1 DEF Init, Settled, PaidOf, Credited
  <2>2. Booked(v)
    BY DEF Init, Booked
  <2>3. DepositTotal(v) = 0
    <3>1. DepositsOf(v) = {}
      BY <1>1 DEF DepositsOf, Made
    <3> QED
      BY <3>1, SumEmpty DEF DepositTotal, SumDeposits
  <2>4. Covered(v)
    BY <2>3, PaymentsAssumption DEF Covered
  <2> QED
    BY <2>1, <2>2, <2>4 DEF Books
<1> QED
  BY <1>2, <1>3, <1>4, <1>5, <1>6, IdleIsAReading DEF PaymentsInv, Alone

LEMMA PaymentStep == PaymentsInv /\ Races /\ Payment => PaymentsInv'
BY SumForPaymentStep, RecordPaymentStep, ReadForReverseStep, CountForNumberStep,
   MarkReversedStep, RecordReversalStep DEF Payment

LEMMA DepositStep == PaymentsInv /\ Races /\ Deposit => PaymentsInv'
BY ReadForDepositStep, RecordDepositStep, ReadForUndoStep, SumForPurchaseStep,
   PurchaseStep, SumForDepositStep, ReverseDepositStep DEF Deposit

LEMMA ExchangesStep == PaymentsInv /\ Races /\ Exchange => PaymentsInv'
BY ReadForExchangeStep, ReadForValueStep, CreateExchangeStep, ReadForApplyStep,
   ReadForDropStep, ValueExchangeStep, ApplyExchangeStep, CancelExchangeStep DEF Exchange

LEMMA NoStep == PaymentsInv /\ UNCHANGED vars => PaymentsInv'
<1> SUFFICES ASSUME PaymentsInv, UNCHANGED vars PROVE PaymentsInv'
  OBVIOUS
<1>1. UNCHANGED rows /\ call' = call /\ raced' = raced
  BY DEF vars
<1>2. TypeOK' /\ RowsOK'
  BY <1>1, SameTables DEF PaymentsInv, TypeOK, rows
<1>3. \A c \in Calls : Holds(call[c])'
  BY <1>1, SameReading DEF PaymentsInv
<1>4. ASSUME NEW v \in Invoices \ raced'
      PROVE  Alone(v)' /\ Books(v)' /\ \A c \in InHand(v)' : Mine(call[c])'
  <2>1. InHand(v)' = InHand(v) /\ v \in Invoices \ raced
    BY <1>1 DEF InHand
  <2>2. /\ Alone(v) /\ Books(v) /\ \A c \in InHand(v) : Mine(call[c])
        /\ TypeOK /\ RowsOK /\ Same(v)
    BY <1>1, <2>1, SameTables DEF PaymentsInv
  <2>3. Books(v)'
    BY <1>2, <2>1, <2>2, SameBooks
  <2>4. \A c \in InHand(v)' : Mine(call[c])'
    BY <1>1, <2>1, <2>2, SameReading DEF InHand
  <2> QED
    BY <2>1, <2>2, <2>3, <2>4 DEF Alone
<1> QED
  BY <1>2, <1>3, <1>4 DEF PaymentsInv

LEMMA BooksStep == PaymentsInv /\ [Step]_vars => PaymentsInv'
<1>1. Step => Races
  BY DEF Step, Races
<1> QED
  BY <1>1, PaymentStep, DepositStep, ExchangesStep, FailStep, ChangeStatusStep, NoStep DEF Step

LEMMA BooksAreKept == Shop => []PaymentsInv
<1> QED
  BY InitOK, BooksStep, PTL DEF Shop

\* What TLC explores is a part of what may happen in the shop.
LEMMA PartOfTheShop == Spec => Shop
<1>1. Next => Step
  BY DEF Next
<1> QED
  BY <1>1, PTL DEF Spec, Shop

\* The tables keep their columns: in particular what is paid and what is outstanding
\* never become negative, whatever requests met (createPayment, reversePayment,
\* purchaseApproval and applyExchange write them from what they read earlier).
THEOREM PaymentsTypes == Shop => []TypeOK
<1>1. PaymentsInv => TypeOK
  BY DEF PaymentsInv
<1> QED
  BY <1>1, BooksAreKept, PTL

\* While no two requests have had an invoice in hand at once, its completed payments
\* never exceed what it is for, nor the deposits of its slip what is asked for
\* (createPayment and createDeposit compare the sum they read).
THEOREM PaymentsNeverExceed == Shop => []OverpaidOnlyInARace
<1>1. PaymentsInv => OverpaidOnlyInARace
  <2> SUFFICES ASSUME PaymentsInv, NEW v \in Invoices \ raced
               PROVE  PaidAtMost(v) /\ Covered(v)
    BY DEF OverpaidOnlyInARace, Covered
  <2>1. Books(v)
    BY DEF PaymentsInv
  <2> QED
    BY <2>1, PartsOfTheTables DEF Books, Settled, PaidAtMost
<1> QED
  BY <1>1, BooksAreKept, PTL

\* The settlement columns of such an invoice are what its payment rows add up to,
\* through payments, reversals and deposits booked (the update of createPayment and
\* of reversePayment).
THEOREM SettlementIsKept == Shop => []SettlementMatchesPayments
<1>1. PaymentsInv => SettlementMatchesPayments
  <2> SUFFICES ASSUME PaymentsInv, NEW v \in Invoices \ raced, NEW p \in Recorded,
                      payment[p].inv = v
               PROVE  /\ invoice[v].totalPaid = CompletedTotal(v)
                      /\ invoice[v].outstanding = Outstanding(Payable(v), CompletedTotal(v))
                      /\ invoice[v].paymentStatus = "PAID" <=> CompletedTotal(v) = Payable(v)
    BY DEF SettlementMatchesPayments
  <2>1. Books(v) /\ PaidOf(v) # {}
    BY DEF PaymentsInv, PaidOf
  <2> QED
    BY <2>1 DEF Books, Settled
<1> QED
  BY <1>1, BooksAreKept, PTL

\* The credit of such an invoice is the value of its one applied exchange, or 0
\* (applyExchange, cancelExchange).
THEOREM CreditIsKept == Shop => []CreditIsOneExchange
<1>1. PaymentsInv => CreditIsOneExchange
  BY DEF PaymentsInv, Books, Credited, CreditIsOneExchange
<1> QED
  BY <1>1, BooksAreKept, PTL

\* The first payment of the invoice of an approval slip is what the customer had
\* deposited by then, as far as the invoice goes (purchaseApproval).
THEOREM DepositsAreKept == Shop => []DepositsAreBooked
<1>1. PaymentsInv => DepositsAreBooked
  <2> SUFFICES ASSUME PaymentsInv, NEW v \in Converted \ raced PROVE Booked(v)
    BY DEF DepositsAreBooked, Booked
  <2>1. v \in Invoices \ raced
    BY PaymentsAssumption
  <2> QED
    BY <2>1 DEF PaymentsInv, Books
<1> QED
  BY <1>1, BooksAreKept, PTL

\* The number the next payment will be given is never taken, so that the shop
\* can go on recording payments whatever requests met, failed or reversed
\* (tx.salesPayment.count() + 1 and the unique payment_number).
THEOREM PaymentsNeverStick == Shop => []NextNumberIsFree
<1>1. PaymentsInv => NextNumberIsFree
  <2> SUFFICES ASSUME PaymentsInv PROVE NextNumberIsFree
    OBVIOUS
  <2>1. Cardinality(Recorded) \in Nat
    BY FS_CardinalityType DEF PaymentsInv, RowsOK
  <2> QED
    BY <2>1 DEF PaymentsInv, RowsOK, Counted, NextNumberIsFree, NextNumber
<1> QED
  BY <1>1, BooksAreKept, PTL
=============================================================================
