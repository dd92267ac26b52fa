------------------------------ MODULE Backroom ------------------------------
(***************************************************************************)
(* What the back office does to pieces while the counters sell and lend    *)
(* them: transfers between branches, stocktakes, returns to the vendor,    *)
(* material for a karigar and pawned pieces (inventoryTransfer.service.ts, *)
(* stockAudit.service.ts, purchaseReturn.service.ts, jobWork.service.ts,   *)
(* girvi.service.ts, thirdPartyGirvi.service.ts), and what is written by   *)
(* hand, without a document (stockMovement.service.ts,                     *)
(* inventoryItem.service.ts).                                              *)
(* None of them claims a piece: they look at it, at the latest when their  *)
(* document is made, if at all, and write its status without a condition.  *)
(* Each of them also journals what it does; only reports and the deletion  *)
(* of a piece read the journal, and it is left out here.                   *)
(***************************************************************************)
EXTENDS FiniteSets, Naturals

CONSTANTS
    Items, Branches,
    Transfers,     \* identities of inventory_transfers rows, used or not
    Sessions,      \* identities of stock_audit_sessions rows, used or not
    VendorReturns, \* APPROVED purchase_returns, one piece each
    JobOrders,     \* ASSIGNED job_work_orders
    Pledges,       \* identities of rows of girvi_collaterals, used or not,
    LenderPledges, \* and of third_party_girvi_collaterals: pledged to a lender
    Slots,         \* request slots of the back office
    None

ASSUME PledgesAssumption == LenderPledges \subseteq Pledges
ASSUME NoneAssumption == None \notin Items \cup Transfers

Documents == Transfers \cup Sessions \cup VendorReturns \cup JobOrders \cup Pledges

VARIABLES
    stock,      \* item -> inventory_items.status
    itemBranch, \* item -> inventory_items.branch_id
    transfer, \* row -> inventory_transfers columns
    session,  \* row -> stock_audit_sessions columns and its rows by piece
    vreturn,  \* row -> purchase_returns columns
    pledge,   \* row -> the piece it is linked to, until its loan is settled or closed
    released, \* rows pledged to a lender that were released before that
    slot,     \* slot -> what the handler in it has read so far
    taken,    \* history: the pieces a counter took while they were spoken for, or
              \* that were pledged while it had them; until nothing speaks for them
    raced,    \* history: the transfers on which two requests have met
    byHand    \* history: the pieces whose last change of status was by hand

docVars == <<transfer, session, vreturn, pledge, released>>
stockVars == <<stock, itemBranch>>
vars == <<stockVars, docVars, slot, taken, raced, byHand>>

\* LOST is DAMAGED too.  UNDER_REPAIR is every status that nothing asks for:
\* RESERVED, TRANSFER_PENDING and RETURNED.
Statuses == {"AVAILABLE", "ON_APPROVAL", "SOLD", "IN_TRANSIT", "AUDIT_MISSING",
             "RETURNED_TO_VENDOR", "ISSUED_TO_KARIGAR", "UNDER_REPAIR", "LOST"}

Transfer == [status : {"NONE", "REQUESTED", "APPROVED", "REJECTED", "DISPATCHED", "RECEIVED"},
             item : Items \cup {None}, to : Branches \cup {None}]
Session == [status : {"NONE", "IN_PROGRESS", "SUBMITTED", "RECONCILED", "CANCELLED"},
            branch : Branches \cup {None}, scanned : SUBSET Items, missing : SUBSET Items]
VendorReturn == [status : {"APPROVED", "PROCESSED"}, item : Items]

Idle == [op |-> "idle", doc |-> None, item |-> None, to |-> None, lines |-> {}]

BackroomTypeOK ==
    /\ stock \in [Items -> Statuses]
    /\ itemBranch \in [Items -> Branches]
    /\ transfer \in [Transfers -> Transfer]
    /\ session \in [Sessions -> Session]
    /\ vreturn \in [VendorReturns -> VendorReturn]
    /\ pledge \in [Pledges -> Items \cup {None}] /\ released \subseteq LenderPledges
    /\ slot \in [Slots -> [op : {"idle", "ask", "asked", "approve", "reject", "dispatch",
                                 "receive", "open", "scan", "submit", "submitted",
                                 "reconcile", "cancel",
                                 "vendor", "karigar", "settle", "release", "stockOut"},
                           doc : Documents \cup {None}, item : Items \cup {None},
                           to : Branches \cup {None}, lines : SUBSET Items]]
    /\ taken \subseteq Items /\ raced \subseteq Transfers /\ byHand \subseteq Items

Init ==
    /\ stock = [i \in Items |-> "AVAILABLE"]
    /\ itemBranch \in [Items -> Branches]
    /\ transfer = [t \in Transfers |-> [status |-> "NONE", item |-> None, to |-> None]]
    /\ session = [a \in Sessions |-> [status |-> "NONE", branch |-> None,
                                      scanned |-> {}, missing |-> {}]]
    /\ vreturn \in [VendorReturns -> [status : {"APPROVED"}, item : Items]]
    /\ pledge = [g \in Pledges |-> None] /\ released = {}
    /\ slot = [s \in Slots |-> Idle]
    /\ taken = {} /\ raced = {} /\ byHand = {}

Begin(s, r) == slot[s] = Idle /\ slot' = [slot EXCEPT ![s] = r] /\ UNCHANGED <<stockVars, docVars>>
Finish(s) == slot' = [slot EXCEPT ![s] = Idle]

\* inventoryItem.update({where: {id}, data: {status}}): whatever it was.
Put(S, status) == stock' = [i \in Items |-> IF i \in S THEN status ELSE stock[i]]

-----------------------------------------------------------------------------
(* Transfers.  Creation looks at the piece, then for a transfer of it.     *)

\* Mutant: the status of the piece is not asked for.
MovableAnyway(i) == TRUE

Movable(i) == stock[i] = "AVAILABLE"

ReadForTransfer(s, i, b) ==
    /\ Movable(i) /\ itemBranch[i] # b
    /\ Begin(s, [Idle EXCEPT !.op = "ask", !.item = i, !.to = b])

\* findActiveTransferByItem
Active(t) == transfer[t].status \in {"REQUESTED", "APPROVED", "DISPATCHED"}

CheckTransfer(s) ==
    /\ slot[s].op = "ask"
    /\ \A t \in Transfers : Active(t) => transfer[t].item # slot[s].item
    /\ slot' = [slot EXCEPT ![s].op = "asked"]
    /\ UNCHANGED <<stockVars, docVars>>

InsertTransfer(s, t) ==
    /\ slot[s].op = "asked"
    /\ transfer[t].status = "NONE"
    /\ transfer' = [transfer EXCEPT ![t] = [status |-> "REQUESTED", item |-> slot[s].item,
                                            to |-> slot[s].to]]
    /\ Finish(s)
    /\ UNCHANGED <<stockVars, session, vreturn, pledge, released>>

\* Mutant: the destination is not selected.
ReadWithoutBranch(s, t, op) ==
    Begin(s, [Idle EXCEPT !.op = op, !.doc = t, !.item = transfer[t].item])

ReadTransfer(s, t, op) ==
    Begin(s, [Idle EXCEPT !.op = op, !.doc = t, !.item = transfer[t].item,
                          !.to = transfer[t].to])

SetTransfer(s, status) ==
    /\ transfer' = [transfer EXCEPT ![slot[s].doc].status = status]
    /\ Finish(s)
    /\ UNCHANGED <<session, vreturn, pledge, released>>

ReadForApprove(s, t) == transfer[t].status = "REQUESTED" /\ ReadTransfer(s, t, "approve")

ApproveTransfer(s) ==
    /\ slot[s].op = "approve"
    /\ SetTransfer(s, "APPROVED")
    /\ UNCHANGED stockVars

\* Mutant: a transfer can be rejected until it is received.
Underway(t) == Active(t)

MayReject(t) == transfer[t].status = "REQUESTED"

ReadForReject(s, t) == MayReject(t) /\ ReadTransfer(s, t, "reject")

RejectTransfer(s) ==
    /\ slot[s].op = "reject"
    /\ SetTransfer(s, "REJECTED")
    /\ UNCHANGED stockVars

ReadForDispatch(s, t) == transfer[t].status = "APPROVED" /\ ReadTransfer(s, t, "dispatch")

DispatchTransfer(s) ==
    /\ slot[s].op = "dispatch"
    /\ SetTransfer(s, "DISPATCHED")
    /\ Put({slot[s].item}, "IN_TRANSIT")
    /\ UNCHANGED itemBranch

ReadForReceive(s, t) == transfer[t].status = "DISPATCHED" /\ ReadTransfer(s, t, "receive")

ReceiveTransfer(s) ==
    /\ slot[s].op = "receive"
    /\ SetTransfer(s, "RECEIVED")
    /\ Put({slot[s].item}, "AVAILABLE")
    /\ itemBranch' = [itemBranch EXCEPT ![slot[s].item] = slot[s].to]

-----------------------------------------------------------------------------
(* Stocktakes.  Everything is read and written in one transaction, but     *)
(* without locks.  Weights are not modelled: a mismatch moves no piece.    *)

SetSession(s, r) ==
    /\ session' = [session EXCEPT ![slot[s].doc] = r]
    /\ Finish(s)
    /\ UNCHANGED <<transfer, vreturn, pledge, released>>

ReadForSession(s, a, b) ==
    /\ session[a].status = "NONE"
    /\ \A o \in Sessions : session[o].status = "IN_PROGRESS" => session[o].branch # b
    /\ Begin(s, [Idle EXCEPT !.op = "open", !.doc = a, !.to = b])

OpenSession(s) ==
    /\ slot[s].op = "open"
    /\ session[slot[s].doc].status = "NONE"
    /\ SetSession(s, [status |-> "IN_PROGRESS", branch |-> slot[s].to,
                      scanned |-> {}, missing |-> {}])
    /\ UNCHANGED stockVars

\* Any piece can be scanned; one that is not expected is noted as such.
ReadForScan(s, a, i) ==
    /\ session[a].status = "IN_PROGRESS"
    /\ Begin(s, [Idle EXCEPT !.op = "scan", !.doc = a, !.lines = {i}])

ScanItem(s) ==
    /\ slot[s].op = "scan"
    /\ LET a == session[slot[s].doc] IN
       SetSession(s, [a EXCEPT !.scanned = @ \cup slot[s].lines])
    /\ UNCHANGED stockVars

ReadForSubmit(s, a) ==
    /\ session[a].status = "IN_PROGRESS"
    /\ Begin(s, [Idle EXCEPT !.op = "submit", !.doc = a, !.lines = session[a].scanned])

\* AVAILABLE pieces of the branch that were not scanned get a MISSING row.
CheckSubmit(s) ==
    /\ slot[s].op = "submit"
    /\ LET expected == {i \in Items : /\ stock[i] = "AVAILABLE"
                                     /\ itemBranch[i] = session[slot[s].doc].branch} IN
       slot' = [slot EXCEPT ![s].op = "submitted", ![s].lines = expected \ @]
    /\ UNCHANGED <<stockVars, docVars>>

SubmitSession(s) ==
    /\ slot[s].op = "submitted"
    /\ LET a == session[slot[s].doc] IN
       SetSession(s, [a EXCEPT !.status = "SUBMITTED", !.missing = @ \cup slot[s].lines])
    /\ UNCHANGED stockVars

ReadForReconcile(s, a) ==
    /\ session[a].status = "SUBMITTED"
    /\ Begin(s, [Idle EXCEPT !.op = "reconcile", !.doc = a, !.lines = session[a].missing])

ReconcileSession(s) ==
    /\ slot[s].op = "reconcile"
    /\ SetSession(s, [session[slot[s].doc] EXCEPT !.status = "RECONCILED"])
    /\ Put(slot[s].lines, "AUDIT_MISSING")
    /\ UNCHANGED itemBranch

ReadForCancelSession(s, a) ==
    /\ session[a].status \in {"IN_PROGRESS", "SUBMITTED"}
    /\ Begin(s, [Idle EXCEPT !.op = "cancel", !.doc = a])

CancelSession(s) ==
    /\ slot[s].op = "cancel"
    /\ SetSession(s, [session[slot[s].doc] EXCEPT !.status = "CANCELLED"])
    /\ UNCHANGED stockVars

-----------------------------------------------------------------------------
(* processPurchaseReturn and issueMaterialToKarigar ask for AVAILABLE in   *)
(* their transaction and then update the piece by its id.                  *)

ReadForVendor(s, p) ==
    /\ vreturn[p].status = "APPROVED"
    /\ stock[vreturn[p].item] = "AVAILABLE"
    /\ Begin(s, [Idle EXCEPT !.op = "vendor", !.doc = p, !.item = vreturn[p].item])

ReturnToVendor(s) ==
    /\ slot[s].op = "vendor"
    /\ Put({slot[s].item}, "RETURNED_TO_VENDOR")
    /\ vreturn' = [vreturn EXCEPT ![slot[s].doc].status = "PROCESSED"]
    /\ Finish(s)
    /\ UNCHANGED <<itemBranch, transfer, session, pledge, released>>

ReadForKarigar(s, o, i) ==
    /\ stock[i] = "AVAILABLE"
    /\ Begin(s, [Idle EXCEPT !.op = "karigar", !.doc = o, !.item = i])

IssueToKarigar(s) ==
    /\ slot[s].op = "karigar"
    /\ Put({slot[s].item}, "ISSUED_TO_KARIGAR")
    /\ Finish(s)
    /\ UNCHANGED <<itemBranch, docVars>>

-----------------------------------------------------------------------------
(* A loan, the customer's or the shop's own at a lender, can be secured by *)
(* any piece that exists, in whatever status: the link is not reflected in *)
(* the stock.  The settlement of the one and the closing of the other put  *)
(* the piece on the shelf.  (The money of a loan is in GirviLoans.)        *)

AddCollateral(g, i) ==
    /\ pledge[g] = None /\ \A s \in Slots : slot[s].doc # g
    /\ pledge' = [pledge EXCEPT ![g] = i]
    /\ UNCHANGED <<stockVars, transfer, session, vreturn, released, slot>>

ReadForSettle(s, g) ==
    /\ pledge[g] # None
    /\ Begin(s, [Idle EXCEPT !.op = "settle", !.doc = g, !.item = pledge[g]])

\* A second settlement is refused by its unique index; closing a loan at a
\* lender has none, and looks at no release that went before.
ReleaseCollateral(s) ==
    LET g == slot[s].doc IN
    /\ slot[s].op = "settle"
    /\ g \in LenderPledges \/ pledge[g] # None
    /\ Put({slot[s].item}, "AVAILABLE")
    /\ pledge' = [pledge EXCEPT ![g] = None]
    /\ released' = released \ {g}
    /\ Finish(s)
    /\ UNCHANGED <<itemBranch, transfer, session, vreturn>>

\* What a lender holds can be released on its own.
ReadForRelease(s, g) ==
    /\ g \in LenderPledges \ released /\ pledge[g] # None
    /\ Begin(s, [Idle EXCEPT !.op = "release", !.doc = g, !.item = pledge[g]])

ReleaseOne(s) ==
    LET g == slot[s].doc IN
    /\ slot[s].op = "release"
    /\ Put({slot[s].item}, "AVAILABLE")
    /\ released' = released \cup ({g} \ {h \in Pledges : pledge[h] = None})
    /\ Finish(s)
    /\ UNCHANGED <<itemBranch, transfer, session, vreturn, pledge>>

-----------------------------------------------------------------------------
(* By hand: a movement that is posted, or an edit of the piece.  It asks   *)
(* for no document, slip or invoice, and writes over any status.           *)

\* createStockMovement reads the piece, but where it takes it in, transfers it or
\* sends it out what it has read decides nothing.  The two branches of a TRANSFER are
\* those of the request.
PostMovement(i) ==
    /\ \/ /\ \E status \in {"AVAILABLE", "UNDER_REPAIR", "ON_APPROVAL"} :
                stock' = [stock EXCEPT ![i] = status]
          /\ UNCHANGED itemBranch
       \/ \E from, to \in Branches :
             /\ from # to
             /\ stock' = [stock EXCEPT ![i] = "AVAILABLE"]
             /\ itemBranch' = [itemBranch EXCEPT ![i] = to]
    /\ UNCHANGED <<docVars, slot>>

\* STOCK_OUT and SALE ask that the piece was neither sold nor lost when it was read.
ReadForStockOut(s, i) ==
    /\ stock[i] \notin {"SOLD", "LOST"}
    /\ Begin(s, [Idle EXCEPT !.op = "stockOut", !.item = i])

StockOut(s) ==
    /\ slot[s].op = "stockOut"
    /\ Put({slot[s].item}, "SOLD")
    /\ Finish(s)
    /\ UNCHANGED <<itemBranch, docVars>>

\* updateInventoryItem: any of the statuses a request may name, or none.
EditItem(i) ==
    /\ \E status \in {"AVAILABLE", "SOLD", "IN_TRANSIT", "UNDER_REPAIR", "ON_APPROVAL", "LOST",
                      stock[i]} :
          stock' = [stock EXCEPT ![i] = status]
    /\ \E b \in Branches : itemBranch' = [itemBranch EXCEPT ![i] = b]
    /\ UNCHANGED <<docVars, slot>>

HandNext ==
    \/ \E i \in Items : PostMovement(i) \/ EditItem(i)
    \/ \E s \in Slots : StockOut(s)

-----------------------------------------------------------------------------

\* A check throws, or the transaction rolls back.
Fail(s) == slot[s] # Idle /\ Finish(s) /\ UNCHANGED <<stockVars, docVars>>

OfficeNext == \E s \in Slots :
    \/ \E i \in Items, b \in Branches : ReadForTransfer(s, i, b)
    \/ \E t \in Transfers : \/ InsertTransfer(s, t)  \/ ReadForApprove(s, t)
                            \/ ReadForReject(s, t)   \/ ReadForDispatch(s, t)
                            \/ ReadForReceive(s, t)
    \/ \E a \in Sessions : \/ \E b \in Branches : ReadForSession(s, a, b)
                           \/ \E i \in Items : ReadForScan(s, a, i)
                           \/ ReadForSubmit(s, a) \/ ReadForReconcile(s, a)
                           \/ ReadForCancelSession(s, a)
    \/ \E p \in VendorReturns : ReadForVendor(s, p)
    \/ \E o \in JobOrders, i \in Items : ReadForKarigar(s, o, i)
    \/ \E i \in Items : ReadForStockOut(s, i)
    \/ \E g \in Pledges : ReadForSettle(s, g) \/ ReadForRelease(s, g)
    \/ CheckTransfer(s) \/ ApproveTransfer(s) \/ RejectTransfer(s) \/ DispatchTransfer(s)
    \/ ReceiveTransfer(s) \/ OpenSession(s) \/ ScanItem(s) \/ CheckSubmit(s) \/ SubmitSession(s)
    \/ ReconcileSession(s) \/ CancelSession(s) \/ ReturnToVendor(s) \/ IssueToKarigar(s)
    \/ ReleaseCollateral(s) \/ ReleaseOne(s) \/ Fail(s)

\* A claim by a handler of a counter (Showroom, SalesReturns): conditional, whatever
\* the document.
Counter(i, from, to) ==
    /\ stock[i] = from
    /\ stock' = [stock EXCEPT ![i] = to]
    /\ UNCHANGED <<itemBranch, docVars, slot>>

\* A confirm, the issue, the purchase and the return of a slip, and the return of what
\* was sold.
CounterNext == \E i \in Items :
    \/ Counter(i, "AVAILABLE", "SOLD")
    \/ Counter(i, "AVAILABLE", "ON_APPROVAL")
    \/ Counter(i, "ON_APPROVAL", "SOLD")
    \/ Counter(i, "ON_APPROVAL", "AVAILABLE")
    \/ Counter(i, "SOLD", "AVAILABLE")

\* A piece is pledged; it may be one that was sold, to the very borrower.
PawnNext == \E g \in Pledges, i \in Items : AddCollateral(g, i)

\* The missing rows of a session can still be reconciled: a late submit takes
\* them along.
Pending(a) ==
    \/ session[a].status = "SUBMITTED"
    \/ \E s \in Slots : slot[s].doc = a /\ slot[s].op \in {"submit", "submitted"}

\* A document of the back office is about the piece.
ClaimedOnPaper(i) ==
    \/ \E t \in Transfers : Active(t) /\ transfer[t].item = i
    \/ \E a \in Sessions : Pending(a) /\ i \in session[a].missing
    \/ \E g \in Pledges : pledge[g] = i

\* A request may yet put the piece somewhere, or on a document.  What a
\* stocktake has scanned does not count: a scan moves no piece.
ClaimedBy(q, i) ==
    \/ q.item = i /\ q.op # "stockOut"
    \/ q.op \in {"submitted", "reconcile"} /\ i \in q.lines

\* The back office has a document or a request about the piece under way.
SpokenFor(i) == ClaimedOnPaper(i) \/ \E s \in Slots : ClaimedBy(slot[s], i)

\* A counter has sold or lent the piece, or a hand has noted that it did.
WithCounter(i) == stock[i] \in {"SOLD", "ON_APPROVAL"}

MetOn(t) == \E s, u \in Slots : s # u /\ slot[s].doc = t /\ slot[u].doc = t

\* The steps after which the excuse of a piece begins.
Taken(i) == ~WithCounter(i) /\ WithCounter(i)'

Pledged(i) == WithCounter(i) /\ \E g \in Pledges : pledge[g] # i /\ pledge'[g] = i

Moved == {i \in Items : stock'[i] # stock[i]}

Work ==
    \/ (OfficeNext \/ PawnNext \/ CounterNext) /\ byHand' = byHand \ Moved
    \/ HandNext /\ byHand' = byHand \cup Moved

History ==
    /\ taken' = {i \in Items : (i \in taken \/ Taken(i) \/ Pledged(i)) /\ SpokenFor(i)'}
    /\ raced' = raced \cup {t \in Transfers : MetOn(t)'}

Step == Work /\ History

\* What may happen in the shop.
Shop == Init /\ [][Step]_vars

\* Documents that a run has put to use.
Used == {t \in Transfers : transfer[t].status # "NONE"}
        \cup {a \in Sessions : session[a].status # "NONE"}
        \cup {p \in VendorReturns : vreturn[p].status = "PROCESSED"}
        \cup {g \in Pledges : pledge[g] # None}

\* Requests in flight.
Busy == {s \in Slots : slot[s] # Idle}

Load == Cardinality(Used) + Cardinality(Busy)

\* What is excused at the moment; a hand, which may write anything, counts twice.
Excused == Cardinality(taken) + Cardinality(raced) + 2 * Cardinality(byHand)

\* A bound of the runs, on all of them together: two requests may overlap on two
\* documents, or on one on which they met or that a counter has crossed, and before or
\* after that a third document, a hand or another excuse comes in.
MaxLoad == 4

\* The part of it that TLC explores.
Next == Work /\ Load' <= MaxLoad /\ History /\ Load' + Excused' <= MaxLoad

Spec == Init /\ [][Next]_vars

-----------------------------------------------------------------------------
(* Properties.                                                             *)

\* A piece on the road is on a transfer that can still be received: otherwise only
\* a hand ever puts it back on a shelf.  The exceptions are a piece that was on a
\* transfer on which two requests met, and one that was put on the road by hand.
NothingIsLostInTransit ==
    \A i \in Items : stock[i] = "IN_TRANSIT" =>
        \/ \E t \in Transfers : /\ transfer[t].item = i
                                /\ transfer[t].status = "DISPATCHED" \/ t \in raced
        \/ i \in byHand

\* A counter takes back or sells what it lent, or takes back what it sold; it touches
\* nothing of the back office.
ByACounter(i) ==
    /\ <<stock[i], stock'[i]>> \in {<<"ON_APPROVAL", "AVAILABLE">>, <<"ON_APPROVAL", "SOLD">>,
                                    <<"SOLD", "AVAILABLE">>}
    /\ docVars' = docVars /\ slot' = slot

\* A piece that was sold or lent is moved by a counter or by hand, and by a document
\* of the office only if one has spoken for it ever since it was taken, or since it
\* was pledged: once the last document that a counter overtook is through, none moves
\* it.
CountersKeepTheirPieces ==
    [][\A i \in Items :
          WithCounter(i) /\ stock'[i] # stock[i]
             => i \in taken \/ i \in byHand' \/ ByACounter(i)]_stock

\* A piece that is out on approval is kept from transfers, job work and every
\* other document until the counter has it back or has sold it.
OnApprovalIsKept ==
    [][\A i \in Items : stock[i] = "ON_APPROVAL" /\ stock'[i] # stock[i]
          => i \in byHand' \/ ByACounter(i)]_stock
=============================================================================
