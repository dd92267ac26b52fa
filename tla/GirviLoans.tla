----------------------------- MODULE GirviLoans -----------------------------
(***************************************************************************)
(* A pawn loan: interest accrues, collections repay it and are reversed,   *)
(* it is renewed, changed, cancelled, and settled, which releases what was *)
(* pledged (girvi.service.ts).  Every handler reads the loan and sums its  *)
(* collections without a lock, and writes without a condition.             *)
(*                                                                         *)
(* What a release does to a linked piece of the stock is in Backroom.      *)
(***************************************************************************)
EXTENDS Integers, FiniteSets, Functions

CONSTANTS
    Principals,  \* principals a request may ask for
    MaxInterest, \* bound: interest that accrues while the model looks
    Collections, \* identities of girvi_collections rows, used or not
    Collaterals, \* identities of girvi_collaterals rows, used or not
    Clerks,      \* request slots
    None

ASSUME GirviAssumption ==
    /\ Principals \subseteq Nat \ {0} /\ MaxInterest \in Nat
    /\ IsFiniteSet(Collections)

VARIABLES
    loan,       \* girvi_loans columns, and the interest accrued to date
    settled,    \* is there a girvi_settlements row for the loan?
    collection, \* row -> girvi_collections columns
    collateral, \* row -> not there, pledged or released
    slot,       \* slot -> what the handler in it has read so far
    crossed,    \* history: has a settlement met another change of the loan?
    late        \* history: was a collection reversed once the loan was closed?

rows == <<loan, settled, collection, collateral>>
vars == <<rows, slot, crossed, late>>

Collection == [status : {"NONE", "COMPLETED", "REVERSED"}, principal : Nat, interest : Nat,
               settling : BOOLEAN]

Idle == [op |-> "idle", row |-> None, principal |-> 0, interest |-> 0, pledged |-> {}]

GirviTypeOK ==
    /\ loan \in [status : {"ACTIVE", "RENEWED", "CLOSED", "CANCELLED"},
                 principal : Principals, interest : 0..MaxInterest]
    /\ settled \in BOOLEAN
    /\ collection \in [Collections -> Collection]
    /\ collateral \in [Collaterals -> {"NONE", "PLEDGED", "RELEASED"}]
    /\ slot \in [Clerks -> [op : {"idle", "collect", "reverse", "renew", "cancel", "update",
                                  "pledge", "settle"},
                            row : Collections \cup Collaterals \cup {None},
                            principal : Nat, interest : Nat, pledged : SUBSET Collaterals]]
    /\ crossed \in BOOLEAN /\ late \in BOOLEAN

\* createGirviLoan: ACTIVE at once, with what was pledged.
Init ==
    /\ \E p \in Principals : loan = [status |-> "ACTIVE", principal |-> p, interest |-> 0]
    /\ settled = FALSE
    /\ collection = [k \in Collections |-> [status |-> "NONE", principal |-> 0,
                                            interest |-> 0, settling |-> FALSE]]
    /\ \E S \in SUBSET Collaterals :
          collateral = [c \in Collaterals |-> IF c \in S THEN "PLEDGED" ELSE "NONE"]
    /\ slot = [s \in Clerks |-> Idle]
    /\ crossed = FALSE /\ late = FALSE

Begin(s, r) == slot[s] = Idle /\ slot' = [slot EXCEPT ![s] = r] /\ UNCHANGED rows
Finish(s) == slot' = [slot EXCEPT ![s] = Idle]

Open == loan.status \notin {"CLOSED", "CANCELLED"}

-----------------------------------------------------------------------------
(* getLoanFinancialSummary.                                                *)

\* Mutant: reversed collections count.
EverCollected == {k \in Collections : collection[k].status # "NONE"}

Collected == {k \in Collections : collection[k].status = "COMPLETED"}

PrincipalOf == [k \in Collections |-> collection[k].principal]
InterestOf == [k \in Collections |-> collection[k].interest]

CollectedPrincipal == SumFunctionOnSet(PrincipalOf, Collected)
CollectedInterest == SumFunctionOnSet(InterestOf, Collected)

\* Mutant: the difference is taken as it is.
Difference(a, b) == a - b

Outstanding(a, b) == IF b > a THEN 0 ELSE a - b

PrincipalOutstanding == Outstanding(loan.principal, CollectedPrincipal)
InterestOutstanding == Outstanding(loan.interest, CollectedInterest)

\* A day passes.
Accrue ==
    /\ loan.interest < MaxInterest
    /\ loan' = [loan EXCEPT !.interest = @ + 1]
    /\ UNCHANGED <<settled, collection, collateral, slot>>

-----------------------------------------------------------------------------
(* Collections.  The split of the amount is the clerk's, or interest first *)
(* (one of the splits); the interest part has no limit of its own.         *)

ReadForCollect(s) == \E p \in 0..PrincipalOutstanding :
    \E i \in 0..(PrincipalOutstanding - p) + InterestOutstanding :
       /\ Open /\ p + i > 0
       /\ Begin(s, [Idle EXCEPT !.op = "collect", !.principal = p, !.interest = i])

InsertCollection(s, k) ==
    /\ slot[s].op = "collect"
    /\ collection[k].status = "NONE"
    /\ collection' = [collection EXCEPT ![k] =
         [status |-> "COMPLETED", principal |-> slot[s].principal,
          interest |-> slot[s].interest, settling |-> FALSE]]
    /\ Finish(s)
    /\ UNCHANGED <<loan, settled, collateral>>

\* The loan is not looked at.
ReadForReverse(s, k) ==
    /\ collection[k].status = "COMPLETED"
    /\ Begin(s, [Idle EXCEPT !.op = "reverse", !.row = k])

ReverseCollection(s) ==
    /\ slot[s].op = "reverse"
    /\ collection' = [collection EXCEPT ![slot[s].row].status = "REVERSED"]
    /\ Finish(s)
    /\ UNCHANGED <<loan, settled, collateral>>

-----------------------------------------------------------------------------
(* renewGirviLoan, cancelGirviLoan, updateGirviLoan, addCollateral.        *)

ReadForChange(s, op, p, c) ==
    /\ Open
    /\ Begin(s, [Idle EXCEPT !.op = op, !.principal = p, !.row = c])

ChangeLoan(s, op, l) ==
    /\ slot[s].op = op
    /\ loan' = l
    /\ Finish(s)
    /\ UNCHANGED <<settled, collection, collateral>>

RenewLoan(s) == ChangeLoan(s, "renew", [loan EXCEPT !.status = "RENEWED"])
CancelLoan(s) == ChangeLoan(s, "cancel", [loan EXCEPT !.status = "CANCELLED"])
UpdateLoan(s) == ChangeLoan(s, "update", [loan EXCEPT !.principal = slot[s].principal])

AddCollateral(s) ==
    /\ slot[s].op = "pledge"
    /\ collateral[slot[s].row] = "NONE"
    /\ collateral' = [collateral EXCEPT ![slot[s].row] = "PLEDGED"]
    /\ Finish(s)
    /\ UNCHANGED <<loan, settled, collection>>

-----------------------------------------------------------------------------
(* settleGirviLoan: the collection is of what was outstanding, and the     *)
(* collaterals are those that were there, when the transaction looked.     *)

ReadForSettle(s) ==
    /\ Open /\ ~settled
    /\ Begin(s, [Idle EXCEPT !.op = "settle", !.principal = PrincipalOutstanding,
                          !.interest = InterestOutstanding,
                          !.pledged = {c \in Collaterals : collateral[c] # "NONE"}])

\* Mutant: the index on the settlements is missing.
SettlementAnyway == TRUE

\* girvi_settlements has one row per loan.
SettlementIsNew == ~settled

SettleLoan(s, k) ==
    /\ slot[s].op = "settle"
    /\ SettlementIsNew
    /\ collection[k].status = "NONE"
    /\ collection' = IF slot[s].principal + slot[s].interest = 0 THEN collection
                     ELSE [collection EXCEPT ![k] =
                             [status |-> "COMPLETED", principal |-> slot[s].principal,
                              interest |-> slot[s].interest, settling |-> TRUE]]
    /\ settled' = TRUE
    /\ collateral' = [c \in Collaterals |->
                         IF c \in slot[s].pledged THEN "RELEASED" ELSE collateral[c]]
    /\ loan' = [loan EXCEPT !.status = "CLOSED"]
    /\ Finish(s)

-----------------------------------------------------------------------------

\* A check throws, a unique number is taken, or the transaction rolls back.
Fail(s) == slot[s] # Idle /\ Finish(s) /\ UNCHANGED rows

Request == \E s \in Clerks :
    \/ \E k \in Collections : InsertCollection(s, k) \/ ReadForReverse(s, k) \/ SettleLoan(s, k)
    \/ ReadForChange(s, "renew", 0, None) \/ ReadForChange(s, "cancel", 0, None)
    \/ \E p \in Principals : ReadForChange(s, "update", p, None)
    \/ \E c \in Collaterals : ReadForChange(s, "pledge", 0, c)
    \/ ReverseCollection(s) \/ RenewLoan(s) \/ CancelLoan(s) \/ UpdateLoan(s)
    \/ AddCollateral(s) \/ ReadForCollect(s) \/ ReadForSettle(s) \/ Fail(s)

\* What the properties do not excuse: two settlements, or a settlement and a
\* collection, that meet.
Crossing == \E s, t \in Clerks :
    /\ slot[s].op = "settle"
    /\ slot[t].op \in {"renew", "cancel", "update", "pledge", "reverse"}

Next ==
    /\ Request \/ Accrue
    /\ crossed' = (crossed \/ Crossing')
    /\ late' = (late \/ \E k \in Collections :
                   /\ settled /\ collection[k].status = "COMPLETED"
                   /\ collection'[k].status = "REVERSED")

Spec == Init /\ [][Next]_vars

-----------------------------------------------------------------------------
(* Properties.                                                             *)

\* A loan is settled by one payment, however many settlements of it are asked
\* for at once.
SettledOnce == Cardinality({k \in Collections : collection[k].settling}) <= 1

\* The principal that has been paid and not been given back.
Repaid == SumFunctionOnSet(PrincipalOf,
                           {k \in Collections : collection[k].status = "COMPLETED"})

\* What was pledged leaves the shop only when the loan is closed and its
\* principal repaid, and then all of it: unless the settlement met a request
\* that changes the loan, or a collection was reversed after it, which
\* reverseCollection allows.
ReleasedWhenRepaid ==
    (~crossed /\ ~late) =>
        IF settled
        THEN /\ loan.status = "CLOSED" /\ Repaid >= loan.principal
             /\ \A c \in Collaterals : collateral[c] # "PLEDGED"
        ELSE /\ loan.status # "CLOSED"
             /\ \A c \in Collaterals : collateral[c] # "RELEASED"
=============================================================================
