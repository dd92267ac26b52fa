----------------------------- MODULE GirviProofs -----------------------------
(***************************************************************************)
(* Proofs about a pawn loan, for any number of requests, collections and   *)
(* collaterals: it is settled by one payment, and what was pledged leaves  *)
(* when its principal is repaid.                                           *)
(***************************************************************************)
EXTENDS GirviLoans, SumTheorems

\* Only an update asks for a principal, and for one that a loan can have.
UpdatesAreAsked == \A s \in Clerks : slot[s].op = "update" => slot[s].principal \in Principals

\* A payment that settles is there only if the settlement is, and is one.
OnePayment ==
    /\ \A k \in Collections : collection[k].settling => settled
    /\ \A j, k \in Collections : collection[j].settling /\ collection[k].settling => j = k

Undisturbed == ~crossed /\ ~late

\* What a settlement in flight has read: all that is pledged, and enough of the
\* principal.  It stays true, since collections only add to what is repaid.
Insight(s) == slot[s].op = "settle" =>
    /\ slot[s].principal + Repaid >= loan.principal
    /\ slot[s].pledged = {c \in Collaterals : collateral[c] # "NONE"}

\* Nothing that would change the loan is in flight once it is settled: what was
\* met the settlement, and a closed loan is not opened by a new request.
NoChangeIsDue == settled =>
    \A s \in Clerks : slot[s].op \notin {"renew", "cancel", "update", "pledge"}

PledgesKept == Undisturbed =>
    /\ ~Crossing /\ NoChangeIsDue /\ ReleasedWhenRepaid
    /\ \A s \in Clerks : Insight(s)

LoanInv == GirviTypeOK /\ UpdatesAreAsked /\ OnePayment /\ PledgesKept

-----------------------------------------------------------------------------
(* The sums.                                                               *)

\* A collection or a settlement is never asked for a negative amount, and the
\* principal outstanding is what is missing to the principal of the loan.
LEMMA SumsAreNumbers ==
    ASSUME GirviTypeOK
    PROVE  /\ Repaid \in Nat /\ PrincipalOutstanding \in Nat /\ InterestOutstanding \in Nat
           /\ PrincipalOutstanding + Repaid >= loan.principal
           /\ loan.principal \in Nat
<1>1. IsFiniteSet(Collected) /\ Collected \subseteq Collections
  BY GirviAssumption, FS_Subset DEF Collected
<1>2. CollectedPrincipal \in Nat
  <2> \A k \in Collected : PrincipalOf[k] \in Nat
    BY <1>1 DEF PrincipalOf, GirviTypeOK, Collection
  <2> QED
    BY <1>1, SumNat DEF CollectedPrincipal
<1>3. CollectedInterest \in Nat
  <2> \A k \in Collected : InterestOf[k] \in Nat
    BY <1>1 DEF InterestOf, GirviTypeOK, Collection
  <2> QED
    BY <1>1, SumNat DEF CollectedInterest
<1>4. Repaid = CollectedPrincipal
  BY DEF Repaid, CollectedPrincipal, Collected
<1>5. loan.principal \in Nat /\ loan.interest \in Nat
  <2>1. loan.principal \in Principals /\ loan.interest \in 0..MaxInterest
    BY DEF GirviTypeOK
  <2>2. \A p \in Principals : p \in Nat
    BY GirviAssumption
  <2>3. \A i \in 0..MaxInterest : i \in Nat
    BY GirviAssumption
  <2> QED
    BY <2>1, <2>2, <2>3, Zenon
<1> QED
  BY <1>2, <1>3, <1>4, <1>5 DEF PrincipalOutstanding, InterestOutstanding, Outstanding

\* A collection adds its principal to what is repaid.
LEMMA RepaidGrows ==
    ASSUME GirviTypeOK, GirviTypeOK', NEW k \in Collections, collection[k].status = "NONE",
           NEW w, collection' = [collection EXCEPT ![k] = w], w.status = "COMPLETED"
    PROVE  w.principal \in Nat /\ Repaid' = Repaid + w.principal
<1> DEFINE S == {j \in Collections : collection[j].status = "COMPLETED"}
           T == {j \in Collections : collection'[j].status = "COMPLETED"}
<1>1. /\ \A j \in Collections \ {k} : collection'[j] = collection[j]
      /\ collection'[k] = w
  BY DEF GirviTypeOK
<1>2. T = S \cup {k} /\ k \notin S
  BY <1>1
<1>3. IsFiniteSet(S)
  BY GirviAssumption, FS_Subset
<1>4. \A j \in S \cup {k} : PrincipalOf'[j] \in Nat
  BY DEF PrincipalOf, GirviTypeOK, Collection
<1>5. PrincipalOf'[k] = w.principal
  BY <1>1 DEF PrincipalOf
<1>6. SumFunctionOnSet(PrincipalOf', S) = SumFunctionOnSet(PrincipalOf, S)
  <2> \A j \in S : PrincipalOf'[j] = PrincipalOf[j]
    BY <1>1, <1>2 DEF PrincipalOf
  <2> QED
    BY <1>3, SumSame
<1>7. SumFunctionOnSet(PrincipalOf', S \cup {k}) = SumFunctionOnSet(PrincipalOf', S) + PrincipalOf'[k]
  <2> HIDE DEF S
  <2> QED
    BY <1>2, <1>3, <1>4, SumAdd
<1>8. Repaid' = SumFunctionOnSet(PrincipalOf', T) /\ Repaid = SumFunctionOnSet(PrincipalOf, S)
  BY DEF Repaid
<1>9. w.principal \in Nat
  BY <1>4, <1>5
<1> HIDE DEF S, T
<1> QED
  BY <1>2, <1>5, <1>6, <1>7, <1>8, <1>9

LEMMA RepaidSame ==
    ASSUME UNCHANGED collection
    PROVE  Repaid' = Repaid
<1>1. PrincipalOf' = PrincipalOf
  BY DEF PrincipalOf
<1> QED
  BY <1>1 DEF Repaid

-----------------------------------------------------------------------------
(* Types.                                                                  *)

Ops == {"idle", "collect", "reverse", "renew", "cancel", "update", "pledge", "settle"}

\* What a slot may hold.
Slot == [op : Ops, row : Collections \cup Collaterals \cup {None},
         principal : Nat, interest : Nat, pledged : SUBSET Collaterals]

Asked(r) == r \in Slot /\ (r.op = "update" => r.principal \in Principals)

\* A request that looks puts such a thing into its slot and writes nothing.
LEMMA LooksAreTyped ==
    ASSUME LoanInv, NEW s \in Clerks, NEW r, Asked(r), Begin(s, r), crossed' \in BOOLEAN, late' \in BOOLEAN
    PROVE  GirviTypeOK' /\ UpdatesAreAsked'
<1>1. slot' \in [Clerks -> Slot] /\ slot' = [slot EXCEPT ![s] = r]
  BY DEF LoanInv, GirviTypeOK, Begin, Asked, Slot, Ops
<1>2. UpdatesAreAsked'
  BY <1>1 DEF LoanInv, GirviTypeOK, UpdatesAreAsked, Asked
<1> QED
  BY <1>1, <1>2 DEF LoanInv, GirviTypeOK, Begin, rows, Slot, Ops

\* A request that ends leaves an idle slot.
LEMMA EndsAreTyped ==
    ASSUME LoanInv, NEW s \in Clerks, Finish(s)
    PROVE  slot' \in [Clerks -> Slot] /\ UpdatesAreAsked'
<1>1. Idle \in Slot /\ Idle.op = "idle"
  BY DEF Idle, Slot, Ops
<1>2. slot' = [slot EXCEPT ![s] = Idle] /\ slot \in [Clerks -> Slot]
  BY DEF LoanInv, GirviTypeOK, Finish, Slot, Ops
<1> QED
  BY <1>1, <1>2 DEF LoanInv, UpdatesAreAsked

LEMMA TypeStep ==
    ASSUME LoanInv, Next
    PROVE  GirviTypeOK' /\ UpdatesAreAsked'
<1>0. crossed' \in BOOLEAN /\ late' \in BOOLEAN
  BY DEF Next, LoanInv, GirviTypeOK
<1> DEFINE Loans == [status : {"ACTIVE", "RENEWED", "CLOSED", "CANCELLED"},
                     principal : Principals, interest : 0..MaxInterest]
<1>a. loan \in Loans /\ collection \in [Collections -> Collection]
      /\ collateral \in [Collaterals -> {"NONE", "PLEDGED", "RELEASED"}] /\ settled \in BOOLEAN
      /\ slot \in [Clerks -> Slot]
  BY DEF LoanInv, GirviTypeOK, Slot, Ops
<1>b. ASSUME loan' \in Loans, collection' \in [Collections -> Collection],
             collateral' \in [Collaterals -> {"NONE", "PLEDGED", "RELEASED"}],
             settled' \in BOOLEAN, slot' \in [Clerks -> Slot]
      PROVE  GirviTypeOK'
  BY <1>0, <1>b DEF GirviTypeOK, Slot, Ops
<1>1. ASSUME Accrue PROVE GirviTypeOK' /\ UpdatesAreAsked'
  <2>1. loan' \in Loans
    <3>1. loan.interest + 1 \in 0..MaxInterest /\ loan' = [loan EXCEPT !.interest = loan.interest + 1]
      BY <1>1, <1>a, GirviAssumption DEF Accrue
    <3> QED
      BY <1>a, <3>1
  <2> QED
    BY <1>1, <1>a, <1>b, <2>1 DEF Accrue, LoanInv, UpdatesAreAsked
<1>2. ASSUME NEW s \in Clerks, ReadForCollect(s) PROVE GirviTypeOK' /\ UpdatesAreAsked'
  <2>0. PICK p \in 0..PrincipalOutstanding :
            \E i \in 0..(PrincipalOutstanding - p) + InterestOutstanding :
                Begin(s, [Idle EXCEPT !.op = "collect", !.principal = p, !.interest = i])
    BY <1>2 DEF ReadForCollect
  <2>1. PICK i \in 0..(PrincipalOutstanding - p) + InterestOutstanding :
            Begin(s, [Idle EXCEPT !.op = "collect", !.principal = p, !.interest = i])
    BY <2>0
  <2>2. p \in Nat /\ i \in Nat
    BY SumsAreNumbers DEF LoanInv
  <2> DEFINE r == [Idle EXCEPT !.op = "collect", !.principal = p, !.interest = i]
  <2>3. Asked(r)
    BY <2>2 DEF Asked, Slot, Ops, Idle
  <2> QED
    BY <1>0, <2>1, <2>3, LooksAreTyped
<1>3. ASSUME NEW s \in Clerks, NEW k \in Collections, ReadForReverse(s, k)
      PROVE  GirviTypeOK' /\ UpdatesAreAsked'
  <2>1. Asked([Idle EXCEPT !.op = "reverse", !.row = k])
    BY DEF Asked, Slot, Ops, Idle
  <2> QED
    BY <1>0, <1>3, <2>1, LooksAreTyped DEF ReadForReverse
<1>4. ASSUME NEW s \in Clerks, NEW op \in {"renew", "cancel", "update", "pledge"},
             NEW p \in Nat, op = "update" => p \in Principals,
             NEW c \in Collaterals \cup {None}, ReadForChange(s, op, p, c)
      PROVE  GirviTypeOK' /\ UpdatesAreAsked'
  <2>1. Asked([Idle EXCEPT !.op = op, !.principal = p, !.row = c])
    BY <1>4 DEF Asked, Slot, Ops, Idle
  <2> QED
    BY <1>0, <1>4, <2>1, LooksAreTyped DEF ReadForChange
<1>5. ASSUME NEW s \in Clerks, ReadForSettle(s) PROVE GirviTypeOK' /\ UpdatesAreAsked'
  <2> DEFINE r == [Idle EXCEPT !.op = "settle", !.principal = PrincipalOutstanding,
                       !.interest = InterestOutstanding,
                       !.pledged = {c \in Collaterals : collateral[c] # "NONE"}]
  <2>1. PrincipalOutstanding \in Nat /\ InterestOutstanding \in Nat
    BY SumsAreNumbers DEF LoanInv
  <2>2. Asked(r)
    BY <2>1 DEF Asked, Slot, Ops, Idle
  <2> QED
    BY <1>0, <1>5, <2>2, LooksAreTyped DEF ReadForSettle
<1>6. ASSUME NEW s \in Clerks, NEW k \in Collections, InsertCollection(s, k) \/ SettleLoan(s, k)
      PROVE  GirviTypeOK' /\ UpdatesAreAsked'
  <2>1. Finish(s)
    BY <1>6 DEF InsertCollection, SettleLoan
  <2>2. slot[s].principal \in Nat /\ slot[s].interest \in Nat
    BY <1>a DEF Slot
  <2>3. collection' \in [Collections -> Collection]
    <3> DEFINE w(x) == [status |-> "COMPLETED", principal |-> slot[s].principal,
                        interest |-> slot[s].interest, settling |-> x]
    <3>1. w(TRUE) \in Collection /\ w(FALSE) \in Collection
      BY <2>2 DEF Collection
    <3>2. \/ collection' = [collection EXCEPT ![k] = w(TRUE)]
          \/ collection' = [collection EXCEPT ![k] = w(FALSE)]
          \/ collection' = collection
      BY <1>6 DEF InsertCollection, SettleLoan
    <3> HIDE DEF w
    <3> QED
      BY <1>a, <3>1, <3>2
  <2>4. loan' \in Loans /\ settled' \in BOOLEAN
    <3>1. \/ loan' = loan /\ settled' = settled
          \/ loan' = [loan EXCEPT !.status = "CLOSED"] /\ settled' = TRUE
      BY <1>6 DEF InsertCollection, SettleLoan
    <3> QED
      BY <1>a, <3>1
  <2>5. collateral' \in [Collaterals -> {"NONE", "PLEDGED", "RELEASED"}]
    BY <1>6, <1>a DEF InsertCollection, SettleLoan
  <2> QED
    BY <1>b, <2>1, <2>3, <2>4, <2>5, EndsAreTyped
<1>7. ASSUME NEW s \in Clerks, ReverseCollection(s) PROVE GirviTypeOK' /\ UpdatesAreAsked'
  <2> DEFINE x == slot[s].row
             w == [collection[x] EXCEPT !.status = "REVERSED"]
  <2>1. collection' = [collection EXCEPT ![x] = w] /\ Finish(s)
    BY <1>7 DEF ReverseCollection
  <2>2. x \in Collections => w \in Collection
    BY <1>a DEF Collection
  <2> HIDE DEF w
  <2>3. collection' \in [Collections -> Collection]
    BY <1>a, <2>1, <2>2
  <2> QED
    BY <1>7, <1>a, <1>b, <2>1, <2>3, EndsAreTyped DEF ReverseCollection
<1>8. ASSUME NEW s \in Clerks, RenewLoan(s) \/ CancelLoan(s) \/ UpdateLoan(s)
      PROVE  GirviTypeOK' /\ UpdatesAreAsked'
  <2>1. Finish(s) /\ UNCHANGED <<settled, collection, collateral>>
    BY <1>8 DEF RenewLoan, CancelLoan, UpdateLoan, ChangeLoan
  <2>2. loan' \in Loans
    <3>1. slot[s].op = "update" => slot[s].principal \in Principals
      BY DEF LoanInv, UpdatesAreAsked
    <3> QED
      BY <1>8, <1>a, <3>1 DEF RenewLoan, CancelLoan, UpdateLoan, ChangeLoan
  <2> QED
    BY <1>a, <1>b, <2>1, <2>2, EndsAreTyped
<1>9. ASSUME NEW s \in Clerks, AddCollateral(s) PROVE GirviTypeOK' /\ UpdatesAreAsked'
  <2>1. Finish(s) /\ UNCHANGED <<loan, settled, collection>>
    BY <1>9 DEF AddCollateral
  <2>2. collateral' \in [Collaterals -> {"NONE", "PLEDGED", "RELEASED"}]
    BY <1>9, <1>a DEF AddCollateral
  <2> QED
    BY <1>a, <1>b, <2>1, <2>2, EndsAreTyped
<1>10. ASSUME NEW s \in Clerks, Fail(s) PROVE GirviTypeOK' /\ UpdatesAreAsked'
  BY <1>10, <1>a, <1>b, EndsAreTyped DEF Fail, rows
<1>11. ASSUME NEW s \in Clerks,
              \/ ReadForChange(s, "renew", 0, None) \/ ReadForChange(s, "cancel", 0, None)
              \/ \E p \in Principals : ReadForChange(s, "update", p, None)
              \/ \E c \in Collaterals : ReadForChange(s, "pledge", 0, c)
       PROVE  GirviTypeOK' /\ UpdatesAreAsked'
  BY <1>11, <1>4, GirviAssumption
<1> QED
  BY <1>1, <1>2, <1>3, <1>5, <1>6, <1>7, <1>8, <1>9, <1>10, <1>11 DEF Next, Request

-----------------------------------------------------------------------------
(* One settlement.                                                         *)

\* Only a settlement makes a payment that settles: every other handler leaves
\* the settlement and the settling column alone.
LEMMA OthersSettleNothing ==
    ASSUME OnePayment, UNCHANGED settled,
           \A k \in Collections : collection'[k].settling => collection[k].settling
    PROVE  OnePayment'
BY DEF OnePayment

\* The unique index on the settlement makes it one.
LEMMA SettleLoanStep ==
    ASSUME LoanInv, NEW s \in Clerks, NEW k \in Collections, SettleLoan(s, k)
    PROVE  OnePayment'
<1>1. /\ settled' = TRUE
      /\ \A j \in Collections : ~collection[j].settling
  BY DEF LoanInv, OnePayment, SettleLoan, SettlementIsNew
<1>2. CASE collection' = collection
  BY <1>1, <1>2 DEF LoanInv, OnePayment
<1>3. CASE collection' # collection
  <2> DEFINE w == [status |-> "COMPLETED", principal |-> slot[s].principal,
                   interest |-> slot[s].interest, settling |-> TRUE]
  <2>1. collection' = [collection EXCEPT ![k] = w]
    BY <1>3 DEF SettleLoan
  <2>2. \A j \in Collections : j # k => collection'[j] = collection[j]
    BY <2>1 DEF LoanInv, GirviTypeOK
  <2>3. \A j \in Collections : collection'[j].settling => j = k
    BY <1>1, <2>2
  <2> QED
    BY <1>1, <2>3 DEF OnePayment
<1> QED
  BY <1>2, <1>3

LEMMA PaymentStep == ASSUME LoanInv, Next PROVE OnePayment'
<1>1. CASE UNCHANGED <<settled, collection>>
  BY <1>1 DEF LoanInv, OnePayment
<1>2. ASSUME NEW s \in Clerks, NEW k \in Collections, InsertCollection(s, k)
      PROVE  OnePayment'
  <2> DEFINE w == [status |-> "COMPLETED", principal |-> slot[s].principal,
                   interest |-> slot[s].interest, settling |-> FALSE]
  <2>1. collection' = [collection EXCEPT ![k] = w] /\ UNCHANGED settled
    BY <1>2 DEF InsertCollection
  <2>2. \A j \in Collections : collection'[j] = IF j = k THEN w ELSE collection[j]
    BY <2>1 DEF LoanInv, GirviTypeOK
  <2>3. \A j \in Collections : collection'[j].settling => collection[j].settling
    BY <2>2
  <2> QED
    BY <2>1, <2>3, OthersSettleNothing DEF LoanInv
<1>3. ASSUME NEW s \in Clerks, ReverseCollection(s)
      PROVE  OnePayment'
  <2> DEFINE x == slot[s].row
             w == [collection[x] EXCEPT !.status = "REVERSED"]
  <2>1. collection' = [collection EXCEPT ![x] = w] /\ UNCHANGED settled
    BY <1>3 DEF ReverseCollection
  <2>2. x \in Collections => w.settling = collection[x].settling
    BY DEF LoanInv, GirviTypeOK, Collection
  <2>3. \A j \in Collections : collection'[j] = IF j = x THEN w ELSE collection[j]
    BY <2>1 DEF LoanInv, GirviTypeOK
  <2> HIDE DEF w
  <2>4. \A j \in Collections : collection'[j].settling => collection[j].settling
    BY <2>2, <2>3
  <2> QED
    BY <2>1, <2>4, OthersSettleNothing DEF LoanInv
<1>4. ASSUME NEW s \in Clerks, NEW k \in Collections, SettleLoan(s, k)
      PROVE  OnePayment'
  BY <1>4, SettleLoanStep
<1>5. ASSUME Request
      PROVE  \/ UNCHANGED <<settled, collection>>
             \/ \E s \in Clerks, k \in Collections : InsertCollection(s, k) \/ SettleLoan(s, k)
             \/ \E s \in Clerks : ReverseCollection(s)
  BY <1>5 DEF Request, ReadForCollect, ReadForReverse, ReadForChange, ReadForSettle, Begin,
       RenewLoan, CancelLoan, UpdateLoan, ChangeLoan, AddCollateral, Fail, rows
<1> QED
  BY <1>1, <1>2, <1>3, <1>4, <1>5 DEF Next, Accrue


-----------------------------------------------------------------------------
(* What was pledged.                                                       *)

\* How the histories follow a step.
Histories ==
    /\ crossed' = (crossed \/ Crossing')
    /\ late' = (late \/ \E k \in Collections :
                   /\ settled /\ collection[k].status = "COMPLETED"
                   /\ collection'[k].status = "REVERSED")

Changes == {"renew", "cancel", "update", "pledge"}

\* A step of request s: what the others have in hand stays as it is.
StepOf(s) == Histories /\ \A t \in Clerks \ {s} : slot'[t] = slot[t]

\* It starts from a state in which nobody met a settlement.
LEMMA StillUndisturbed ==
    ASSUME LoanInv, Histories, Undisturbed'
    PROVE  /\ Undisturbed /\ ~Crossing /\ ~Crossing' /\ NoChangeIsDue /\ ReleasedWhenRepaid
           /\ \A s \in Clerks : Insight(s)
<1>1. ~crossed' /\ ~late' /\ ~crossed /\ ~late /\ ~Crossing'
  BY DEF Histories, Undisturbed, LoanInv, GirviTypeOK
<1> QED
  BY <1>1 DEF Undisturbed, LoanInv, PledgesKept

\* A request that looks, or ends without a write.
LEMMA LookKeeps ==
    ASSUME LoanInv, NEW s \in Clerks, StepOf(s), UNCHANGED rows,
           slot'[s].op \in Changes => slot[s].op \in Changes \/ Open,
           Insight(s)'
    PROVE  PledgesKept'
<1> SUFFICES ASSUME Undisturbed' PROVE ~Crossing' /\ NoChangeIsDue' /\ ReleasedWhenRepaid'
                                       /\ \A t \in Clerks : Insight(t)'
  BY DEF PledgesKept
<1>1. Histories /\ UNCHANGED <<loan, settled, collection, collateral>>
  BY DEF StepOf, rows
<1>2. Repaid' = Repaid
  BY <1>1, RepaidSame
<1>3. ReleasedWhenRepaid'
  BY <1>1, <1>2, StillUndisturbed DEF ReleasedWhenRepaid, Undisturbed
<1>4. NoChangeIsDue'
  BY <1>1, StillUndisturbed DEF NoChangeIsDue, ReleasedWhenRepaid, Undisturbed, StepOf, Changes, Open
<1>5. ASSUME NEW t \in Clerks PROVE Insight(t)'
  BY <1>1, <1>2, StillUndisturbed DEF Insight, StepOf
<1> QED
  BY <1>1, <1>3, <1>4, <1>5, StillUndisturbed

\* One that ends and adds to what is repaid, at most.
LEMMA CollectKeeps ==
    ASSUME LoanInv, GirviTypeOK', NEW s \in Clerks, StepOf(s), slot'[s] = Idle,
           UNCHANGED <<loan, settled, collateral>>, NEW n \in Nat, Repaid' = Repaid + n
    PROVE  PledgesKept'
<1> SUFFICES ASSUME Undisturbed' PROVE ~Crossing' /\ NoChangeIsDue' /\ ReleasedWhenRepaid'
                                       /\ \A t \in Clerks : Insight(t)'
  BY DEF PledgesKept
<1>1. Histories /\ slot'[s].op = "idle"
  BY DEF StepOf, Idle
<1>2. Repaid \in Nat /\ loan.principal \in Nat
  BY SumsAreNumbers DEF LoanInv
<1>3. ReleasedWhenRepaid' /\ NoChangeIsDue'
  BY <1>1, <1>2, StillUndisturbed DEF ReleasedWhenRepaid, Undisturbed, NoChangeIsDue, StepOf
<1>4. ASSUME NEW t \in Clerks PROVE Insight(t)'
  <2>1. slot[t].principal \in Nat
    BY DEF LoanInv, GirviTypeOK
  <2> QED
    BY <1>1, <1>2, <2>1, StillUndisturbed DEF StepOf, Insight
<1> QED
  BY <1>1, <1>3, <1>4, StillUndisturbed

LEMMA ChangeKeeps ==
    ASSUME LoanInv, NEW s \in Clerks, StepOf(s), slot'[s] = Idle, slot[s].op \in Changes,
           UNCHANGED settled, loan'.status # "CLOSED",
           \A c \in Collaterals : collateral'[c] = "RELEASED" => collateral[c] = "RELEASED"
    PROVE  PledgesKept'
<1> SUFFICES ASSUME Undisturbed' PROVE ~Crossing' /\ NoChangeIsDue' /\ ReleasedWhenRepaid'
                                       /\ \A t \in Clerks : Insight(t)'
  BY DEF PledgesKept
<1>1. Histories /\ slot'[s].op = "idle"
  BY DEF StepOf, Idle
<1>2. ~settled /\ ~settled'
  BY <1>1, StillUndisturbed DEF NoChangeIsDue, Changes
<1>3. \A t \in Clerks : slot[t].op # "settle" /\ slot'[t].op # "settle"
  BY <1>1, StillUndisturbed DEF Crossing, Changes, StepOf
<1> QED
  BY <1>1, <1>2, <1>3, StillUndisturbed DEF ReleasedWhenRepaid, Undisturbed, NoChangeIsDue, Insight

\* A reversal: not of a loan that is settled, nor while a settlement waits.
LEMMA ReverseKeeps ==
    ASSUME LoanInv, GirviTypeOK', NEW s \in Clerks, Histories, ReverseCollection(s)
    PROVE  PledgesKept'
<1> SUFFICES ASSUME Undisturbed' PROVE ~Crossing' /\ NoChangeIsDue' /\ ReleasedWhenRepaid'
                                       /\ \A t \in Clerks : Insight(t)'
  BY DEF PledgesKept
<1> DEFINE x == slot[s].row
           w == [collection[x] EXCEPT !.status = "REVERSED"]
<1>1. /\ slot[s].op = "reverse" /\ slot'[s].op = "idle"
      /\ \A t \in Clerks \ {s} : slot'[t] = slot[t]
      /\ collection' = [collection EXCEPT ![x] = w] /\ UNCHANGED <<loan, settled, collateral>>
  BY DEF ReverseCollection, Finish, Idle, LoanInv, GirviTypeOK
<1>2. \A t \in Clerks : slot[t].op # "settle" /\ slot'[t].op # "settle"
  BY <1>1, StillUndisturbed DEF Crossing
<1>3. NoChangeIsDue'
  BY <1>1, StillUndisturbed DEF NoChangeIsDue
<1>4. ReleasedWhenRepaid'
  <2>1. CASE ~settled
    BY <1>1, <2>1, StillUndisturbed DEF ReleasedWhenRepaid, Undisturbed
  <2>2. CASE settled
    <3>1. x \in Collections => /\ collection'[x].status = "REVERSED"
                               /\ collection'[x].principal = collection[x].principal
      BY <1>1 DEF LoanInv, GirviTypeOK, Collection
    <3>2. \A k \in Collections : k # x => collection'[k] = collection[k]
      BY <1>1 DEF LoanInv, GirviTypeOK
    <3>3. x \in Collections => collection[x].status # "COMPLETED"
      BY <2>2, <3>1 DEF Histories, Undisturbed
    <3> HIDE DEF x, w
    <3>4. {k \in Collections : collection'[k].status = "COMPLETED"}
            = {k \in Collections : collection[k].status = "COMPLETED"}
      BY <3>1, <3>2, <3>3
    <3>5. PrincipalOf' = PrincipalOf
      BY <3>1, <3>2 DEF PrincipalOf
    <3>6. Repaid' = Repaid
      BY <3>4, <3>5 DEF Repaid
    <3> QED
      BY <1>1, <2>2, <3>6, StillUndisturbed DEF ReleasedWhenRepaid, Undisturbed
  <2> QED
    BY <2>1, <2>2
<1> QED
  BY <1>2, <1>3, <1>4, StillUndisturbed DEF Insight

\* The settlement itself: what it has read makes up the principal, and is all
\* that is pledged.
LEMMA SettleKeeps ==
    ASSUME LoanInv, GirviTypeOK', NEW s \in Clerks, NEW k \in Collections, Histories,
           SettleLoan(s, k)
    PROVE  PledgesKept'
<1> SUFFICES ASSUME Undisturbed' PROVE ~Crossing' /\ NoChangeIsDue' /\ ReleasedWhenRepaid'
                                       /\ \A t \in Clerks : Insight(t)'
  BY DEF PledgesKept
<1>1. /\ slot[s].op = "settle" /\ slot'[s].op = "idle"
      /\ \A t \in Clerks \ {s} : slot'[t] = slot[t]
      /\ settled' = TRUE /\ loan'.status = "CLOSED" /\ loan'.principal = loan.principal
      /\ \A c \in Collaterals :
            collateral'[c] = IF c \in slot[s].pledged THEN "RELEASED" ELSE collateral[c]
  BY DEF SettleLoan, Finish, Idle, LoanInv, GirviTypeOK
<1>2. /\ Repaid \in Nat /\ Repaid' \in Nat /\ loan.principal \in Nat
      /\ Repaid' = Repaid + slot[s].principal /\ slot[s].principal \in Nat
  <2> DEFINE w == [status |-> "COMPLETED", principal |-> slot[s].principal,
                   interest |-> slot[s].interest, settling |-> TRUE]
  <2>1. Repaid \in Nat /\ loan.principal \in Nat
    BY SumsAreNumbers DEF LoanInv
  <2>2. slot[s].principal \in Nat /\ slot[s].interest \in Nat
    BY DEF LoanInv, GirviTypeOK
  <2>3. CASE slot[s].principal + slot[s].interest = 0
    <3>1. slot[s].principal = 0 /\ UNCHANGED collection
      BY <2>2, <2>3 DEF SettleLoan
    <3> QED
      BY <2>1, <3>1, RepaidSame
  <2>4. CASE slot[s].principal + slot[s].interest # 0
    <3>1. collection' = [collection EXCEPT ![k] = w] /\ collection[k].status = "NONE"
      BY <2>4 DEF SettleLoan
    <3>2. w.status = "COMPLETED" /\ w.principal = slot[s].principal
      OBVIOUS
    <3> HIDE DEF w
    <3>3. Repaid' = Repaid + w.principal
      BY <3>1, <3>2, RepaidGrows DEF LoanInv
    <3> QED
      BY <2>1, <2>2, <3>2, <3>3
  <2> QED
    BY <2>3, <2>4
<1>3. /\ slot[s].principal + Repaid >= loan.principal
      /\ slot[s].pledged = {c \in Collaterals : collateral[c] # "NONE"}
  BY <1>1, StillUndisturbed DEF Insight
<1>4. \A c \in Collaterals : /\ collateral'[c] # "PLEDGED"
                             /\ collateral'[c] # "NONE" <=> collateral[c] # "NONE"
  BY <1>1, <1>3
<1>5. ReleasedWhenRepaid'
  BY <1>1, <1>2, <1>3, <1>4 DEF ReleasedWhenRepaid
<1>6. NoChangeIsDue'
  BY <1>1, StillUndisturbed DEF NoChangeIsDue, Crossing
<1>7. ASSUME NEW t \in Clerks PROVE Insight(t)'
  <2>1. slot[t].principal \in Nat
    BY DEF LoanInv, GirviTypeOK
  <2> QED
    BY <1>1, <1>2, <1>4, <2>1, StillUndisturbed DEF Insight
<1> QED
  BY <1>5, <1>6, <1>7, StillUndisturbed

\* What a step of a slot leaves in the others.
LEMMA OthersWait ==
    ASSUME LoanInv, Histories, NEW s \in Clerks, NEW r, slot' = [slot EXCEPT ![s] = r]
    PROVE  StepOf(s) /\ slot'[s] = r
BY DEF LoanInv, GirviTypeOK, StepOf

LEMMA PledgesStep == ASSUME LoanInv, GirviTypeOK', Next PROVE PledgesKept'
<1>0. Histories
  BY DEF Next, Histories
<1>1. ASSUME Accrue PROVE PledgesKept'
  <2>1. UNCHANGED <<settled, collection, collateral, slot>> /\ loan'.status = loan.status
        /\ loan'.principal = loan.principal
    BY <1>1 DEF Accrue, LoanInv, GirviTypeOK
  <2>2. Repaid' = Repaid
    BY <2>1, RepaidSame
  <2> SUFFICES ASSUME Undisturbed' PROVE ~Crossing' /\ NoChangeIsDue' /\ ReleasedWhenRepaid'
                                         /\ \A t \in Clerks : Insight(t)'
    BY DEF PledgesKept
  <2> QED
    BY <1>0, <2>1, <2>2, StillUndisturbed DEF NoChangeIsDue, ReleasedWhenRepaid, Undisturbed, Insight
<1>2. ASSUME NEW s \in Clerks, NEW r, Begin(s, r), r.op \in Changes => Open,
             r.op = "settle" => /\ r.principal + Repaid >= loan.principal
                                /\ r.pledged = {c \in Collaterals : collateral[c] # "NONE"}
      PROVE  PledgesKept'
  <2>1. StepOf(s) /\ slot'[s] = r /\ UNCHANGED rows
    BY <1>0, <1>2, OthersWait DEF Begin
  <2>2. UNCHANGED <<loan, collateral, collection>>
    BY <2>1 DEF rows
  <2>3. Insight(s)'
    BY <1>2, <2>1, <2>2, RepaidSame DEF Insight
  <2> QED
    BY <1>2, <2>1, <2>3, LookKeeps
<1>3. ASSUME NEW s \in Clerks, ReadForCollect(s) PROVE PledgesKept'
  <2>1. PICK p \in 0..PrincipalOutstanding :
            \E i \in 0..(PrincipalOutstanding - p) + InterestOutstanding :
                Begin(s, [Idle EXCEPT !.op = "collect", !.principal = p, !.interest = i])
    BY <1>3 DEF ReadForCollect
  <2>2. PICK i \in 0..(PrincipalOutstanding - p) + InterestOutstanding :
            Begin(s, [Idle EXCEPT !.op = "collect", !.principal = p, !.interest = i])
    BY <2>1
  <2>3. [Idle EXCEPT !.op = "collect", !.principal = p, !.interest = i].op = "collect"
    BY DEF Idle
  <2> QED
    BY <1>2, <2>2, <2>3 DEF Changes
<1>4. ASSUME NEW s \in Clerks, NEW k \in Collections, ReadForReverse(s, k) PROVE PledgesKept'
  <2>1. [Idle EXCEPT !.op = "reverse", !.row = k].op = "reverse"
    BY DEF Idle
  <2> QED
    BY <1>2, <1>4, <2>1 DEF Changes, ReadForReverse
<1>5. ASSUME NEW s \in Clerks, NEW op \in Changes, NEW p, NEW c, ReadForChange(s, op, p, c)
      PROVE  PledgesKept'
  <2>1. [Idle EXCEPT !.op = op, !.principal = p, !.row = c].op = op /\ op # "settle"
    BY DEF Idle, Changes
  <2> QED
    BY <1>2, <1>5, <2>1 DEF ReadForChange
<1>6. ASSUME NEW s \in Clerks, ReadForSettle(s) PROVE PledgesKept'
  <2> DEFINE r == [Idle EXCEPT !.op = "settle", !.principal = PrincipalOutstanding,
                       !.interest = InterestOutstanding,
                       !.pledged = {c \in Collaterals : collateral[c] # "NONE"}]
  <2>1. /\ r.op = "settle" /\ r.principal = PrincipalOutstanding
        /\ r.pledged = {c \in Collaterals : collateral[c] # "NONE"}
    BY DEF Idle
  <2>2. PrincipalOutstanding + Repaid >= loan.principal
    BY SumsAreNumbers DEF LoanInv
  <2>3. Begin(s, r)
    BY <1>6 DEF ReadForSettle
  <2> HIDE DEF r
  <2> QED
    BY <1>2, <2>1, <2>2, <2>3 DEF Changes
<1>7. ASSUME NEW s \in Clerks, NEW k \in Collections, InsertCollection(s, k)
      PROVE  PledgesKept'
  <2> DEFINE w == [status |-> "COMPLETED", principal |-> slot[s].principal,
                   interest |-> slot[s].interest, settling |-> FALSE]
  <2>1. /\ collection' = [collection EXCEPT ![k] = w] /\ collection[k].status = "NONE"
        /\ w.status = "COMPLETED" /\ UNCHANGED <<loan, settled, collateral>>
        /\ StepOf(s) /\ slot'[s] = Idle
    BY <1>0, <1>7, OthersWait DEF InsertCollection, Finish
  <2> HIDE DEF w
  <2>2. w.principal \in Nat /\ Repaid' = Repaid + w.principal
    BY <2>1, RepaidGrows DEF LoanInv
  <2> QED
    BY <2>1, <2>2, CollectKeeps
<1>8. ASSUME NEW s \in Clerks, RenewLoan(s) \/ CancelLoan(s) \/ UpdateLoan(s)
      PROVE  PledgesKept'
  <2>1. /\ StepOf(s) /\ slot'[s] = Idle /\ slot[s].op \in Changes
        /\ UNCHANGED <<settled, collection, collateral>>
    BY <1>0, <1>8, OthersWait
       DEF RenewLoan, CancelLoan, UpdateLoan, ChangeLoan, Finish, Changes
  <2>2. CASE ~Undisturbed'
    BY <2>2 DEF PledgesKept
  <2>3. CASE Undisturbed'
    <3>1. ~settled
      BY <1>0, <2>1, <2>3, StillUndisturbed DEF NoChangeIsDue, Changes
    <3>2. loan.status # "CLOSED"
      BY <1>0, <2>3, <3>1, StillUndisturbed DEF ReleasedWhenRepaid, Undisturbed
    <3>3. loan'.status # "CLOSED"
      BY <1>8, <3>2 DEF RenewLoan, CancelLoan, UpdateLoan, ChangeLoan, LoanInv, GirviTypeOK
    <3> QED
      BY <2>1, <3>3, ChangeKeeps
  <2> QED
    BY <2>2, <2>3
<1>9. ASSUME NEW s \in Clerks, AddCollateral(s) PROVE PledgesKept'
  <2>1. /\ StepOf(s) /\ slot'[s] = Idle /\ slot[s].op \in Changes
        /\ UNCHANGED <<settled, collection, loan>>
    BY <1>0, <1>9, OthersWait DEF AddCollateral, Finish, Changes
  <2>2. \A c \in Collaterals : collateral'[c] = "RELEASED" => collateral[c] = "RELEASED"
    BY <1>9 DEF AddCollateral, LoanInv, GirviTypeOK
  <2>3. CASE ~Undisturbed'
    BY <2>3 DEF PledgesKept
  <2>4. CASE Undisturbed'
    <3>1. ~settled
      BY <1>0, <2>1, <2>4, StillUndisturbed DEF NoChangeIsDue, Changes
    <3>2. loan'.status # "CLOSED"
      BY <1>0, <2>1, <2>4, <3>1, StillUndisturbed DEF ReleasedWhenRepaid, Undisturbed
    <3> QED
      BY <2>1, <2>2, <3>2, ChangeKeeps
  <2> QED
    BY <2>3, <2>4
<1>10. ASSUME NEW s \in Clerks, Fail(s) PROVE PledgesKept'
  <2>1. StepOf(s) /\ slot'[s] = Idle /\ UNCHANGED rows /\ Idle.op = "idle"
    BY <1>0, <1>10, OthersWait DEF Fail, Finish, Idle
  <2>2. Insight(s)'
    BY <2>1 DEF Insight
  <2> QED
    BY <2>1, <2>2, LookKeeps DEF Changes
<1>11. ASSUME NEW s \in Clerks,
              \/ ReadForChange(s, "renew", 0, None) \/ ReadForChange(s, "cancel", 0, None)
              \/ \E p \in Principals : ReadForChange(s, "update", p, None)
              \/ \E c \in Collaterals : ReadForChange(s, "pledge", 0, c)
       PROVE  PledgesKept'
  BY <1>11, <1>5 DEF Changes
<1>12. ASSUME NEW s \in Clerks, ReverseCollection(s) PROVE PledgesKept'
  BY <1>0, <1>12, ReverseKeeps
<1>13. ASSUME NEW s \in Clerks, NEW k \in Collections, SettleLoan(s, k) PROVE PledgesKept'
  BY <1>0, <1>13, SettleKeeps
<1> QED
  BY <1>1, <1>3, <1>4, <1>6, <1>7, <1>8, <1>9, <1>10, <1>11, <1>12, <1>13 DEF Next, Request

-----------------------------------------------------------------------------

LEMMA LoanStarts == Init => LoanInv
<1> SUFFICES ASSUME Init PROVE LoanInv
  OBVIOUS
<1>1. GirviTypeOK
  <2>1. /\ loan \in [status : {"ACTIVE", "RENEWED", "CLOSED", "CANCELLED"},
                     principal : Principals, interest : 0..MaxInterest]
        /\ settled \in BOOLEAN /\ crossed \in BOOLEAN /\ late \in BOOLEAN
    <3>1. 0 \in 0..MaxInterest
      BY GirviAssumption
    <3>2. PICK p \in Principals : loan = [status |-> "ACTIVE", principal |-> p, interest |-> 0]
      BY DEF Init
    <3>3. settled \in BOOLEAN /\ crossed \in BOOLEAN /\ late \in BOOLEAN
      BY DEF Init
    <3> QED
      BY <3>1, <3>2, <3>3
  <2>2. collection \in [Collections -> Collection]
    BY DEF Init, Collection
  <2>3. collateral \in [Collaterals -> {"NONE", "PLEDGED", "RELEASED"}]
    BY DEF Init
  <2>4. slot \in [Clerks -> Slot]
    BY DEF Init, Idle, Slot, Ops
  <2> QED
    BY <2>1, <2>2, <2>3, <2>4 DEF GirviTypeOK, Slot, Ops
<1>2. UpdatesAreAsked /\ OnePayment /\ PledgesKept
  BY DEF Init, UpdatesAreAsked, OnePayment, PledgesKept, Idle, Crossing, NoChangeIsDue,
         ReleasedWhenRepaid, Insight
<1> QED
  BY <1>1, <1>2 DEF LoanInv

LEMMA LoanStutters == ASSUME LoanInv, UNCHANGED vars PROVE LoanInv'
<1>1. UNCHANGED <<loan, settled, collection, collateral, slot, crossed, late>>
  BY DEF vars, rows
<1>2. Repaid' = Repaid
  BY <1>1, RepaidSame
<1> QED
  BY <1>1, <1>2 DEF LoanInv, GirviTypeOK, UpdatesAreAsked, OnePayment, PledgesKept, Undisturbed,
         Crossing, NoChangeIsDue, ReleasedWhenRepaid, Insight

LEMMA LoanIsKept == Spec => []LoanInv
<1>1. LoanInv /\ Next => LoanInv'
  BY TypeStep, PaymentStep, PledgesStep DEF LoanInv
<1>2. LoanInv /\ [Next]_vars => LoanInv'
  BY <1>1, LoanStutters
<1> QED
  BY <1>2, LoanStarts, PTL DEF Spec

\* The rows of a loan and the requests in flight keep their types; an amount is
\* never negative (getLoanFinancialSummary takes off at most what is owed).
THEOREM GirviTypeCorrect == Spec => []GirviTypeOK
<1>1. LoanInv => GirviTypeOK
  BY DEF LoanInv
<1> QED
  BY <1>1, LoanIsKept, PTL

\* What was pledged leaves the shop only when the loan is closed and its
\* principal repaid, and then all of it, unless the settlement met a request that
\* changes the loan or a collection was reversed after it (settleGirviLoan).
THEOREM PledgesLeaveWhenRepaid == Spec => []ReleasedWhenRepaid
<1>1. LoanInv => ReleasedWhenRepaid
  BY DEF LoanInv, PledgesKept, Undisturbed, ReleasedWhenRepaid
<1> QED
  BY <1>1, LoanIsKept, PTL

\* A loan is settled by one payment, however many settlements of it are asked
\* for at once (the unique index of girvi_settlements in settleGirviLoan).
THEOREM LoanIsSettledOnce == Spec => []SettledOnce
<1>1. LoanInv => SettledOnce
  <2> SUFFICES ASSUME LoanInv PROVE SettledOnce
    OBVIOUS
  <2> DEFINE P == {k \in Collections : collection[k].settling}
  <2>1. CASE P = {}
    <3>1. Cardinality(P) = 0
      BY <2>1, FS_EmptySet
    <3> QED
      BY <3>1 DEF SettledOnce
  <2>2. CASE P # {}
    <3>1. PICK k \in P : TRUE
      BY <2>2
    <3>2. P = {k}
      BY <3>1 DEF LoanInv, OnePayment
    <3>3. Cardinality(P) = 1
      BY <3>2, FS_Singleton
    <3> QED
      BY <3>3 DEF SettledOnce
  <2> QED
    BY <2>1, <2>2
<1> QED
  BY <1>1, LoanIsKept, PTL
=============================================================================
