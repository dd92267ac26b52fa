--------------------------- MODULE ShowroomRaces ---------------------------
(***************************************************************************)
(* The showroom with one bit of history: have two requests on one slip     *)
(* ever been in flight together?  updateApproval, issueApproval and        *)
(* cancelApproval test the slip before they open their transaction, so     *)
(* what a slip promises holds for as long as they have not; requests on    *)
(* different slips, and any requests on invoices, may overlap freely.      *)
(***************************************************************************)
EXTENDS Showroom

VARIABLE raced

racesVars == <<approvalVars, raced>>

TwoOnOneSlip ==
    \E c, d \in Calls : c # d /\ call[c].doc \in Slips /\ call[c].doc = call[d].doc

RacesInit == ApprovalInit /\ raced = FALSE

RacesNext == ShowroomNext /\ raced' = (raced \/ TwoOnOneSlip')

RacesSpec == RacesInit /\ [][RacesNext]_racesVars

-----------------------------------------------------------------------------
(* Properties.                                                             *)

\* What is with a customer and what the slips say is the same: a slip that is out
\* (ISSUED) holds every piece on it, by its own issue, so that its return or purchase
\* will find it, and a piece that is ON_APPROVAL is on a slip that is out, without
\* which no endpoint could ever bring it back or sell it.
OutMeansOnASlip ==
    ~raced =>
        /\ \A a \in Slips : approval[a].status = "ISSUED" =>
              \A i \in approval[a].lines :
                  /\ stock[i] = "ON_APPROVAL"
                  /\ LastMovement(i) = [kind |-> "APPROVAL_ISSUE", doc |-> a]
        /\ \A i \in Items : stock[i] = "ON_APPROVAL" =>
              \E a \in Slips : approval[a].status = "ISSUED" /\ i \in approval[a].lines

\* A piece comes back from approval by the slip that took it out: the
\* movement before an APPROVAL_RETURN is the same slip's APPROVAL_ISSUE.
ReturnMatchesIssue ==
    ~raced => \A i \in Items : \A n \in 2..Len(ledger[i]) :
        ledger[i][n].kind = "APPROVAL_RETURN" =>
            ledger[i][n - 1] = [kind |-> "APPROVAL_ISSUE", doc |-> ledger[i][n].doc]

\* A slip lends once, and ends as a whole, by one return or one sale: the
\* stricter half of Custody.
SlipsMoveWhole ==
    C!CustodyInit /\ [][raced' \/ C!WholeSlipNext]_[i \in Items |-> HolderOf(i)]
=============================================================================
