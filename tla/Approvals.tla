----------------------------- MODULE Approvals -----------------------------
(***************************************************************************)
(* approvals and approval_items: slips on which a customer takes pieces    *)
(* home (approval.service.ts).  A slip ends by a return, or by a purchase  *)
(* that writes a CONFIRMED invoice of its own.                             *)
(***************************************************************************)
EXTENDS SalesInvoices

CONSTANTS
    Slips,     \* identities of approvals rows, used or not
    SlipItems, \* line lists a create or update request may carry
    MaxEdits   \* bound: how often the lines of one slip are replaced

ASSUME SlipsAssumption ==
    /\ Slips \subseteq Documents
    /\ Slips \cap Invoices = {}
    /\ SlipItems \subseteq SUBSET Items
    /\ MaxEdits \in Nat

VARIABLES approval

approvalVars == <<stock, itemBranch, ledger, call, invoice, approval>>

SlipStatus == {"NONE", "DRAFT", "ISSUED", "RETURNED", "PURCHASED", "CANCELLED"}

\* rows: which generation of approval_items rows holds the lines.  An update
\* deletes the rows and inserts new ones, with ids no earlier read knows.
Slip == [status : SlipStatus, branch : Branches \cup {None},
         lines : SUBSET Items, rows : Nat]

NoSlip == [status |-> "NONE", branch |-> None, lines |-> {}, rows |-> 0]

ApprovalTypeOK == SalesTypeOK /\ approval \in [Slips -> Slip]

ApprovalInit == SalesInit /\ approval = [a \in Slips |-> NoSlip]

\* Mutant: an update, an issue or a cancel does not ask for DRAFT.
DraftNotAsked(a) == approval[a].status # "NONE"

SlipIsDraft(a) == approval[a].status = "DRAFT"

-----------------------------------------------------------------------------
(* createApproval: the pieces must be in the branch; whether they are      *)
(* AVAILABLE is only asked when the slip is issued.                        *)

CreateSlip(a, b, S) ==
    /\ approval[a].status = "NONE"
    /\ S # {}
    /\ \A i \in S : itemBranch[i] = b
    /\ approval' = [approval EXCEPT ![a] =
                      [NoSlip EXCEPT !.status = "DRAFT", !.branch = b, !.lines = S]]
    /\ UNCHANGED <<stock, itemBranch, ledger, call, invoice>>

-----------------------------------------------------------------------------
(* updateApproval with a list of items (empty is allowed): DRAFT is tested *)
(* before the transaction, which replaces the lines unconditionally.       *)

ReadForSlipUpdate(c, a, S) ==
    /\ SlipIsDraft(a)
    /\ Begin(c, [Idle EXCEPT !.op = "updateSlip", !.doc = a, !.items = S,
                             !.branch = approval[a].branch])
    /\ UNCHANGED <<stock, itemBranch, ledger, invoice, approval>>

UpdateSlip(c) ==
    LET r == call[c] IN
    /\ r.op = "updateSlip"
    /\ approval[r.doc].rows < MaxEdits
    /\ \A i \in r.items : itemBranch[i] = r.branch
    /\ approval' = [approval EXCEPT ![r.doc].lines = r.items,
                                    ![r.doc].rows = @ + 1]
    /\ Finish(c)
    /\ UNCHANGED <<stock, itemBranch, ledger, invoice>>

-----------------------------------------------------------------------------
(* issueApproval: read the slip, look for another active slip with one of  *)
(* the pieces, then claim the pieces that were read and set ISSUED.        *)

\* findActiveApprovalForItem: a line of an ISSUED slip (WITH_CUSTOMER, the
\* other status it asks for, is written by no code).
ActiveElsewhere(i, a) ==
    \E o \in Slips \ {a} : approval[o].status = "ISSUED" /\ i \in approval[o].lines

ReadForIssue(c, a) ==
    /\ SlipIsDraft(a)
    /\ approval[a].lines # {}
    /\ Begin(c, [Idle EXCEPT !.op = "issue", !.doc = a,
                             !.branch = approval[a].branch,
                             !.items = approval[a].lines])
    /\ UNCHANGED <<stock, itemBranch, ledger, invoice, approval>>

CheckIssue(c) ==
    /\ call[c].op = "issue"
    /\ Sellable(call[c].items, call[c].branch)
    /\ \A i \in call[c].items : ~ActiveElsewhere(i, call[c].doc)
    /\ call' = [call EXCEPT ![c].op = "issueChecked"]
    /\ UNCHANGED <<stock, itemBranch, ledger, invoice, approval>>

IssueSlip(c) ==
    LET r == call[c] IN
    /\ r.op = "issueChecked"
    /\ Claim(r.items, r.branch, "AVAILABLE", "ON_APPROVAL")
    /\ Book(r.items, "APPROVAL_ISSUE", r.doc)
    /\ approval' = [approval EXCEPT ![r.doc].status = "ISSUED"]
    /\ Finish(c)
    /\ UNCHANGED invoice

-----------------------------------------------------------------------------
(* cancelApproval: DRAFT is tested, then the status written unconditionally. *)

ReadForSlipCancel(c, a) ==
    /\ SlipIsDraft(a)
    /\ Begin(c, [Idle EXCEPT !.op = "cancelSlip", !.doc = a])
    /\ UNCHANGED <<stock, itemBranch, ledger, invoice, approval>>

CancelSlip(c) ==
    /\ call[c].op = "cancelSlip"
    /\ approval' = [approval EXCEPT ![call[c].doc].status = "CANCELLED"]
    /\ Finish(c)
    /\ UNCHANGED <<stock, itemBranch, ledger, invoice>>

-----------------------------------------------------------------------------
(* returnApproval and purchaseApproval read an ISSUED slip with its line   *)
(* rows, then claim those pieces from ON_APPROVAL and update those rows by *)
(* id, which fails if the rows were replaced.                              *)

\* Mutant: an outcome is accepted for a slip in any status.
OutcomeAlways(a) == TRUE

SlipIsOut(a) == approval[a].status = "ISSUED"

ReadForOutcome(c, a, op) ==
    /\ op \in {"return", "purchase"}
    /\ SlipIsOut(a)
    /\ approval[a].lines # {}
    /\ Begin(c, [Idle EXCEPT !.op = op, !.doc = a, !.branch = approval[a].branch,
                             !.items = approval[a].lines,
                             !.rows = approval[a].rows])
    /\ UNCHANGED <<stock, itemBranch, ledger, invoice, approval>>

\* Mutant: the lines are updated by approval and piece instead of by row id.
AnyRows(r) == TRUE

\* approvalItem.update({where: {id}}) finds the rows that were read.
RowsAsRead(r) == approval[r.doc].rows = r.rows

ReturnSlip(c) ==
    LET r == call[c] IN
    /\ r.op = "return"
    /\ Claim(r.items, r.branch, "ON_APPROVAL", "AVAILABLE")
    /\ Book(r.items, "APPROVAL_RETURN", r.doc)
    /\ RowsAsRead(r)
    /\ approval' = [approval EXCEPT ![r.doc].status = "RETURNED"]
    /\ Finish(c)
    /\ UNCHANGED invoice

\* Mutant: the invoice is created as a draft.
DraftFromSlip(r) ==
    [NoInvoice EXCEPT !.status = "DRAFT", !.branch = r.branch, !.lines = r.items]

\* The invoice is born CONFIRMED with the slip's lines, priced from the slip.
InvoiceFromSlip(r) ==
    [status |-> "CONFIRMED", branch |-> r.branch, lines |-> r.items,
     totals |-> [of |-> r.items, by |-> "SLIP"], rateLocked |-> TRUE, priced |-> TRUE]

\* Its number may collide with another branch's: then the request fails.
PurchaseSlip(c, v) ==
    LET r == call[c] IN
    /\ r.op = "purchase"
    /\ Claim(r.items, r.branch, "ON_APPROVAL", "SOLD")
    /\ RowsAsRead(r)
    /\ invoice[v].status = "NONE"
    /\ invoice' = [invoice EXCEPT ![v] = InvoiceFromSlip(r)]
    /\ Book(r.items, "SALE", v)
    /\ approval' = [approval EXCEPT ![r.doc].status = "PURCHASED"]
    /\ Finish(c)

-----------------------------------------------------------------------------

ApprovalNext ==
    \/ \E a \in Slips, b \in Branches, S \in SlipItems : CreateSlip(a, b, S)
    \/ \E c \in Calls, a \in Slips, S \in SlipItems : ReadForSlipUpdate(c, a, S)
    \/ \E c \in Calls, a \in Slips :
          \/ ReadForIssue(c, a)
          \/ ReadForSlipCancel(c, a)
          \/ \E op \in {"return", "purchase"} : ReadForOutcome(c, a, op)
    \/ \E c \in Calls :
          \/ UpdateSlip(c)
          \/ CheckIssue(c)
          \/ IssueSlip(c)
          \/ CancelSlip(c)
          \/ ReturnSlip(c)
          \/ \E v \in Invoices : PurchaseSlip(c, v)
          \/ Fail(c) /\ UNCHANGED <<invoice, approval>>

ApprovalSpec == ApprovalInit /\ [][ApprovalNext]_approvalVars

-----------------------------------------------------------------------------
(* Properties.                                                             *)

\* A slip that is settled is settled whole: when it becomes RETURNED or
\* PURCHASED, every piece then on it has just come back, or has just been
\* sold.  An edit that replaced the lines after they were read must make the
\* settlement fail (approvalItem.update by row id).
SettledWhole ==
    [][\A a \in Slips : approval'[a].status # approval[a].status =>
         /\ approval'[a].status = "RETURNED" =>
                \A i \in approval'[a].lines :
                    LastMovement(i)' = [kind |-> "APPROVAL_RETURN", doc |-> a]
         /\ approval'[a].status = "PURCHASED" =>
                \E v \in Invoices : \A i \in approval'[a].lines :
                    LastMovement(i)' = [kind |-> "SALE", doc |-> v]]_approval
=============================================================================
