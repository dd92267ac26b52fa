---------------------------- MODULE BackroomProofs ----------------------------
(***************************************************************************)
(* Proofs about the back office next to the counters, for any number of    *)
(* pieces, branches, documents and overlapping requests: the shape of its  *)
(* tables, that a piece on the road can still be received unless it was on *)
(* a transfer on which two requests met or a hand put it there, and that   *)
(* no document of the office moves a piece that a counter has, unless it   *)
(* has spoken for the piece ever since the counter took it, or since the   *)
(* piece was pledged.                                                      *)
(***************************************************************************)
EXTENDS Backroom, TLAPS

TransferOps == {"approve", "reject", "dispatch", "receive"}

SessionOps == {"open", "scan", "submit", "submitted", "reconcile", "cancel"}

SlotOps == {"idle", "ask", "asked", "approve", "reject", "dispatch", "receive", "open", "scan",
            "submit", "submitted", "reconcile", "cancel", "vendor", "karigar", "settle", "release",
            "stockOut"}

OfficeRequest == [op : SlotOps, doc : Documents \cup {None}, item : Items \cup {None},
                  to : Branches \cup {None}, lines : SUBSET Items]

-----------------------------------------------------------------------------
(* The inductive invariant.                                                *)

\* A transfer that was requested is of a piece, to a branch.
TransferHolds(t) ==
    transfer[t].status # "NONE" => transfer[t].item \in Items /\ transfer[t].to \in Branches

\* A request on a transfer remembers its piece and its destination; a request
\* for a new one knows both; the others name a row of their table.
RequestHolds(q) ==
    /\ q.op \in TransferOps =>
          /\ q.doc \in Transfers
          /\ transfer[q.doc].status # "NONE"
          /\ q.item = transfer[q.doc].item
          /\ q.to = transfer[q.doc].to
    /\ q.op \in {"ask", "asked"} => q.item \in Items /\ q.to \in Branches
    /\ q.op \in SessionOps => q.doc \in Sessions
    /\ q.op = "release" => q.doc \in LenderPledges

\* No session has missing rows before it is submitted.
SessionHolds(a) ==
    session[a].status \in {"NONE", "IN_PROGRESS"} => session[a].missing = {}

TablesInv ==
    /\ BackroomTypeOK
    /\ \A a \in Sessions : SessionHolds(a)
    /\ \A t \in Transfers : TransferHolds(t)
    /\ \A s \in Slots : RequestHolds(slot[s])

\* The status a request has read on its transfer.
ReadStatus == [approve |-> "REQUESTED", reject |-> "REQUESTED",
               dispatch |-> "APPROVED", receive |-> "DISPATCHED"]

\* A request that has its transfer to itself has read its true status.
StatusIsTrue(q) ==
    q.op \in TransferOps /\ q.doc \notin raced => transfer[q.doc].status = ReadStatus[q.op]

\* A piece on the road is on a transfer that can be received or that was met on,
\* or a hand put it there.
OnTheRoad(i) ==
    stock[i] = "IN_TRANSIT" =>
        \/ \E t \in Transfers :
              /\ transfer[t].item = i
              /\ \/ transfer[t].status = "DISPATCHED"
                 \/ t \in raced /\ transfer[t].status # "NONE"
        \/ i \in byHand

RoadInv ==
    /\ \A t \in Transfers \ raced : ~MetOn(t)
    /\ \A s \in Slots : StatusIsTrue(slot[s])
    /\ \A i \in Items : OnTheRoad(i)

\* A piece that is with a counter is claimed by nobody in the office.
HandsOff == \A i \in Items \ taken : WithCounter(i) => ~SpokenFor(i)

OfficeInv == TablesInv /\ RoadInv /\ HandsOff

-----------------------------------------------------------------------------
(* The steps of the office fall into two groups: those that look at the    *)
(* tables and remember what they saw, and those that write and are done.   *)

\* What a handler may remember: rows as they are, and pieces that are on the
\* shelf or that the office claims already.
Sound(r) ==
    /\ r \in OfficeRequest
    /\ RequestHolds(r)
    /\ StatusIsTrue(r)
    /\ \A i \in Items : ClaimedBy(r, i) => SpokenFor(i) \/ stock[i] = "AVAILABLE"
    /\ r.op \in {"submit", "submitted"} =>
          \A i \in Items : i \in session[r.doc].missing => SpokenFor(i)

Look(s, r) ==
    /\ Sound(r)
    /\ slot' = [slot EXCEPT ![s] = r]
    /\ UNCHANGED <<stockVars, docVars>>

LEMMA IdleIsSound == Sound(Idle)
BY NoneAssumption DEF Sound, Idle, OfficeRequest, SlotOps, RequestHolds, StatusIsTrue, TransferOps, SessionOps,
                      ClaimedBy

\* A request that has only just begun looks at one row.
LEMMA BeginIsLook ==
    ASSUME NEW s \in Slots, NEW r, Sound(r), Begin(s, r) PROVE Look(s, r)
BY DEF Look, Begin

LEMMA LooksForTransfers ==
    ASSUME TablesInv, NEW s \in Slots
    PROVE  /\ \A i \in Items, b \in Branches :
                 ReadForTransfer(s, i, b) => \E r \in OfficeRequest : Look(s, r)
           /\ CheckTransfer(s) => \E r \in OfficeRequest : Look(s, r)
<1>1. ASSUME NEW i \in Items, NEW b \in Branches, ReadForTransfer(s, i, b)
      PROVE  \E r \in OfficeRequest : Look(s, r)
  <2> DEFINE r == [Idle EXCEPT !.op = "ask", !.item = i, !.to = b]
  <2>1. r.op = "ask" /\ r.item = i /\ r.to = b
    BY DEF Idle
  <2>2. Begin(s, r) /\ stock[i] = "AVAILABLE"
    BY <1>1 DEF ReadForTransfer, Movable
  <2>3. r \in OfficeRequest
    BY DEF Idle, OfficeRequest, SlotOps
  <2> HIDE DEF r
  <2>4. Sound(r)
    BY <2>1, <2>2, <2>3 DEF Sound, RequestHolds, StatusIsTrue, TransferOps, SessionOps, ClaimedBy
  <2> QED
    BY <2>2, <2>3, <2>4, BeginIsLook
<1>2. ASSUME CheckTransfer(s) PROVE \E r \in OfficeRequest : Look(s, r)
  <2>1. PICK q \in OfficeRequest : q = slot[s]
    BY DEF TablesInv, BackroomTypeOK, OfficeRequest, SlotOps
  <2> DEFINE r == [q EXCEPT !.op = "asked"]
  <2>2. r = [op |-> "asked", doc |-> q.doc, item |-> q.item, to |-> q.to, lines |-> q.lines]
    BY <2>1 DEF OfficeRequest
  <2>3. slot' = [slot EXCEPT ![s] = r] /\ UNCHANGED <<stockVars, docVars>> /\ q.op = "ask"
    BY <1>2, <2>1 DEF CheckTransfer
  <2> HIDE DEF r
  <2>4. r \in OfficeRequest
    BY <2>1, <2>2 DEF OfficeRequest, SlotOps
  <2>5. RequestHolds(r) /\ StatusIsTrue(r)
    BY <2>1, <2>2, <2>3 DEF TablesInv, RequestHolds, StatusIsTrue, TransferOps, SessionOps
  <2>6. ASSUME NEW i \in Items, ClaimedBy(r, i) PROVE SpokenFor(i)
    BY <2>1, <2>2, <2>3, <2>6 DEF ClaimedBy, SpokenFor
  <2>7. Sound(r)
    BY <2>2, <2>4, <2>5, <2>6 DEF Sound
  <2> QED
    BY <2>3, <2>4, <2>7 DEF Look
<1> QED
  BY <1>1, <1>2

\* Approve, reject, dispatch and receive begin alike.
LEMMA LooksAtTransfer ==
    ASSUME TablesInv, NEW s \in Slots, NEW t \in Transfers,
           \/ ReadForApprove(s, t) \/ ReadForReject(s, t)
           \/ ReadForDispatch(s, t) \/ ReadForReceive(s, t)
    PROVE  \E r \in OfficeRequest : Look(s, r) /\ slot[s] = Idle
<1>1. PICK op \in TransferOps : ReadTransfer(s, t, op) /\ transfer[t].status = ReadStatus[op]
  BY DEF ReadForApprove, ReadForReject, ReadForDispatch, ReadForReceive, MayReject, TransferOps,
         ReadStatus
<1>2. op \in {"approve", "reject", "dispatch", "receive"}
  BY DEF TransferOps
<1>3. transfer[t].status \in {"REQUESTED", "APPROVED", "DISPATCHED"}
  BY <1>1, <1>2 DEF ReadStatus
<1>4. PICK i \in Items, b \in Branches : i = transfer[t].item /\ b = transfer[t].to
  BY <1>3 DEF TablesInv, TransferHolds
<1> DEFINE r == [Idle EXCEPT !.op = op, !.doc = t, !.item = i, !.to = b]
<1>5. r.op = op /\ r.doc = t /\ r.item = i /\ r.to = b
  BY DEF Idle
<1>6. Begin(s, r) /\ slot[s] = Idle
  BY <1>1, <1>4 DEF ReadTransfer, Begin
<1>7. r \in OfficeRequest
  BY <1>2 DEF Idle, OfficeRequest, SlotOps, Documents
<1> HIDE DEF r
<1>8. RequestHolds(r) /\ StatusIsTrue(r)
  BY <1>1, <1>2, <1>3, <1>4, <1>5 DEF RequestHolds, StatusIsTrue, TransferOps, SessionOps
<1>9. ASSUME NEW j \in Items, ClaimedBy(r, j) PROVE SpokenFor(j)
  BY <1>2, <1>3, <1>4, <1>5, <1>9 DEF ClaimedBy, SpokenFor, ClaimedOnPaper, Active
<1>10. Sound(r)
  BY <1>2, <1>5, <1>7, <1>8, <1>9 DEF Sound
<1> QED
  BY <1>6, <1>7, <1>10, BeginIsLook

\* The other handlers look at rows of their own.
LEMMA LooksElsewhere ==
    ASSUME NEW r \in OfficeRequest, r.op \notin TransferOps \cup {"ask", "asked"},
           r.op \in SessionOps => r.doc \in Sessions, r.op = "release" => r.doc \in LenderPledges,
           \A i \in Items : ClaimedBy(r, i) => SpokenFor(i) \/ stock[i] = "AVAILABLE",
           r.op \in {"submit", "submitted"} =>
               \A i \in Items : i \in session[r.doc].missing => SpokenFor(i)
    PROVE  Sound(r)
BY DEF Sound, RequestHolds, StatusIsTrue

LEMMA LooksForSessions ==
    ASSUME TablesInv, NEW s \in Slots, NEW a \in Sessions
    PROVE  /\ \A b \in Branches : ReadForSession(s, a, b) => \E r \in OfficeRequest : Look(s, r)
           /\ \A i \in Items : ReadForScan(s, a, i) => \E r \in OfficeRequest : Look(s, r)
           /\ ReadForSubmit(s, a) => \E r \in OfficeRequest : Look(s, r)
           /\ ReadForReconcile(s, a) => \E r \in OfficeRequest : Look(s, r)
           /\ ReadForCancelSession(s, a) => \E r \in OfficeRequest : Look(s, r)
<1>1. a \in Documents /\ session[a].scanned \subseteq Items /\ session[a].missing \subseteq Items
  BY DEF TablesInv, BackroomTypeOK, Session, Documents
<1>2. ASSUME NEW b \in Branches, ReadForSession(s, a, b) PROVE \E r \in OfficeRequest : Look(s, r)
  <2> DEFINE r == [Idle EXCEPT !.op = "open", !.doc = a, !.to = b]
  <2>1. r.op = "open" /\ r.doc = a /\ r.item = None /\ Begin(s, r)
    BY <1>2 DEF Idle, ReadForSession
  <2>2. r \in OfficeRequest
    BY <1>1 DEF Idle, OfficeRequest, SlotOps
  <2> HIDE DEF r
  <2>3. Sound(r)
    BY <2>1, <2>2, LooksElsewhere, NoneAssumption DEF ClaimedBy, TransferOps, SessionOps
  <2> QED
    BY <2>1, <2>2, <2>3, BeginIsLook
<1>3. ASSUME NEW i \in Items, ReadForScan(s, a, i) PROVE \E r \in OfficeRequest : Look(s, r)
  <2> DEFINE r == [Idle EXCEPT !.op = "scan", !.doc = a, !.lines = {i}]
  <2>1. r.op = "scan" /\ r.doc = a /\ r.item = None /\ Begin(s, r)
    BY <1>3 DEF Idle, ReadForScan
  <2>2. r \in OfficeRequest
    BY <1>1 DEF Idle, OfficeRequest, SlotOps
  <2> HIDE DEF r
  <2>3. Sound(r)
    BY <2>1, <2>2, LooksElsewhere, NoneAssumption DEF ClaimedBy, TransferOps, SessionOps
  <2> QED
    BY <2>1, <2>2, <2>3, BeginIsLook
<1>4. ASSUME ReadForSubmit(s, a) PROVE \E r \in OfficeRequest : Look(s, r)
  <2> DEFINE r == [Idle EXCEPT !.op = "submit", !.doc = a, !.lines = session[a].scanned]
  <2>1. /\ r.op = "submit" /\ r.doc = a /\ r.item = None /\ Begin(s, r)
        /\ session[a].missing = {}
    BY <1>4 DEF Idle, ReadForSubmit, TablesInv, SessionHolds
  <2>2. r \in OfficeRequest
    BY <1>1 DEF Idle, OfficeRequest, SlotOps
  <2> HIDE DEF r
  <2>3. Sound(r)
    BY <2>1, <2>2, LooksElsewhere, NoneAssumption DEF ClaimedBy, TransferOps, SessionOps
  <2> QED
    BY <2>1, <2>2, <2>3, BeginIsLook
<1>5. ASSUME ReadForReconcile(s, a) PROVE \E r \in OfficeRequest : Look(s, r)
  <2> DEFINE r == [Idle EXCEPT !.op = "reconcile", !.doc = a, !.lines = session[a].missing]
  <2>1. /\ r.op = "reconcile" /\ r.doc = a /\ r.item = None /\ r.lines = session[a].missing
        /\ Begin(s, r) /\ session[a].status = "SUBMITTED"
    BY <1>5 DEF Idle, ReadForReconcile
  <2>2. r \in OfficeRequest
    BY <1>1 DEF Idle, OfficeRequest, SlotOps
  <2> HIDE DEF r
  <2>3. \A i \in Items : ClaimedBy(r, i) => SpokenFor(i)
    BY <2>1, NoneAssumption DEF ClaimedBy, SpokenFor, ClaimedOnPaper, Pending
  <2>4. Sound(r)
    BY <2>1, <2>2, <2>3, LooksElsewhere DEF TransferOps, SessionOps
  <2> QED
    BY <2>1, <2>2, <2>4, BeginIsLook
<1>6. ASSUME ReadForCancelSession(s, a) PROVE \E r \in OfficeRequest : Look(s, r)
  <2> DEFINE r == [Idle EXCEPT !.op = "cancel", !.doc = a]
  <2>1. r.op = "cancel" /\ r.doc = a /\ r.item = None /\ Begin(s, r)
    BY <1>6 DEF Idle, ReadForCancelSession
  <2>2. r \in OfficeRequest
    BY <1>1 DEF Idle, OfficeRequest, SlotOps
  <2> HIDE DEF r
  <2>3. Sound(r)
    BY <2>1, <2>2, LooksElsewhere, NoneAssumption DEF ClaimedBy, TransferOps, SessionOps
  <2> QED
    BY <2>1, <2>2, <2>3, BeginIsLook
<1> QED
  BY <1>2, <1>3, <1>4, <1>5, <1>6

\* The pieces a submit finds missing are on the shelf as it looks.
LEMMA CheckSubmitLooks ==
    ASSUME TablesInv, NEW s \in Slots, CheckSubmit(s)
    PROVE  \E r \in OfficeRequest : Look(s, r)
<1>1. PICK q \in OfficeRequest : q = slot[s]
  BY DEF TablesInv, BackroomTypeOK, OfficeRequest, SlotOps
<1> DEFINE expected == {i \in Items : /\ stock[i] = "AVAILABLE"
                                    /\ itemBranch[i] = session[slot[s].doc].branch}
           lines == expected \ q.lines
           r == [q EXCEPT !.op = "submitted", !.lines = lines]
<1>2. /\ slot' = [slot EXCEPT ![s].op = "submitted", ![s].lines = expected \ @]
      /\ UNCHANGED <<stockVars, docVars>> /\ q.op = "submit"
  BY <1>1 DEF CheckSubmit
<1>3. lines \subseteq Items /\ \A i \in lines : stock[i] = "AVAILABLE"
  OBVIOUS
<1> HIDE DEF expected
<1>4. slot' = [slot EXCEPT ![s] = r]
  BY <1>1, <1>2
<1> HIDE DEF lines
<1>5. r \in OfficeRequest /\ r.op = "submitted" /\ r.doc = q.doc
      /\ r.item = q.item /\ r.lines = lines
  BY <1>3 DEF OfficeRequest, SlotOps
<1> HIDE DEF r
<1>6. \A i \in Items : ClaimedBy(r, i) => SpokenFor(i) \/ stock[i] = "AVAILABLE"
  BY <1>1, <1>2, <1>3, <1>5 DEF ClaimedBy, SpokenFor
<1>7. r.doc \in Sessions
  BY <1>1, <1>2, <1>5 DEF TablesInv, RequestHolds, SessionOps
<1>8. \A i \in Items : i \in session[r.doc].missing => SpokenFor(i)
  BY <1>1, <1>2, <1>5, <1>7 DEF SpokenFor, ClaimedOnPaper, Pending
<1>9. Sound(r)
  BY <1>5, <1>6, <1>7, <1>8, LooksElsewhere DEF TransferOps, SessionOps
<1> QED
  BY <1>2, <1>4, <1>5, <1>9 DEF Look

\* Returns to the vendor and job work look for a piece on the shelf, a stock-out
\* for one not yet gone, pledges at their own row.
LEMMA LooksForPieces ==
    ASSUME TablesInv, NEW s \in Slots
    PROVE  /\ \A p \in VendorReturns : ReadForVendor(s, p) => \E r \in OfficeRequest : Look(s, r)
           /\ \A o \in JobOrders, i \in Items :
                 ReadForKarigar(s, o, i) => \E r \in OfficeRequest : Look(s, r)
           /\ \A i \in Items :
                 ReadForStockOut(s, i) => \E r \in OfficeRequest : Look(s, r)
           /\ \A g \in Pledges :
                 ReadForSettle(s, g) \/ ReadForRelease(s, g) => \E r \in OfficeRequest : Look(s, r)
<1>1. ASSUME NEW p \in VendorReturns, ReadForVendor(s, p) PROVE \E r \in OfficeRequest : Look(s, r)
  <2>1. PICK i \in Items : i = vreturn[p].item
    BY DEF TablesInv, BackroomTypeOK, VendorReturn
  <2> DEFINE r == [Idle EXCEPT !.op = "vendor", !.doc = p, !.item = i]
  <2>2. r.op = "vendor" /\ r.item = i /\ Begin(s, r) /\ stock[i] = "AVAILABLE"
    BY <1>1, <2>1 DEF Idle, ReadForVendor
  <2>3. r \in OfficeRequest
    BY DEF Idle, OfficeRequest, SlotOps, Documents
  <2> HIDE DEF r
  <2>4. Sound(r)
    BY <2>2, <2>3, LooksElsewhere DEF ClaimedBy, TransferOps, SessionOps
  <2> QED
    BY <2>2, <2>3, <2>4, BeginIsLook
<1>2. ASSUME NEW o \in JobOrders, NEW i \in Items, ReadForKarigar(s, o, i)
      PROVE  \E r \in OfficeRequest : Look(s, r)
  <2> DEFINE r == [Idle EXCEPT !.op = "karigar", !.doc = o, !.item = i]
  <2>2. r.op = "karigar" /\ r.item = i /\ Begin(s, r) /\ stock[i] = "AVAILABLE"
    BY <1>2 DEF Idle, ReadForKarigar
  <2>3. r \in OfficeRequest
    BY DEF Idle, OfficeRequest, SlotOps, Documents
  <2> HIDE DEF r
  <2>4. Sound(r)
    BY <2>2, <2>3, LooksElsewhere DEF ClaimedBy, TransferOps, SessionOps
  <2> QED
    BY <2>2, <2>3, <2>4, BeginIsLook
<1>3. ASSUME NEW g \in Pledges, ReadForSettle(s, g) \/ ReadForRelease(s, g)
      PROVE  \E r \in OfficeRequest : Look(s, r)
  <2>0. pledge[g] \in Items
    <3>1. pledge[g] \in Items \cup {None}
      BY DEF TablesInv, BackroomTypeOK
    <3> QED
      BY <1>3, <3>1 DEF ReadForSettle, ReadForRelease
  <2>1. PICK op \in {"settle", "release"}, i \in Items :
          /\ i = pledge[g] /\ (op = "release" => g \in LenderPledges)
          /\ Begin(s, [Idle EXCEPT !.op = op, !.doc = g, !.item = i])
    <3>1. CASE ReadForSettle(s, g)
      BY <2>0, <3>1, Zenon DEF ReadForSettle
    <3>2. CASE ReadForRelease(s, g)
      BY <2>0, <3>2, Zenon DEF ReadForRelease
    <3> QED
      BY <1>3, <3>1, <3>2
  <2> DEFINE r == [Idle EXCEPT !.op = op, !.doc = g, !.item = i]
  <2>2. r.op = op /\ r.doc = g /\ r.item = i /\ Begin(s, r)
    BY <2>1 DEF Idle
  <2>3. r \in OfficeRequest
    BY DEF Idle, OfficeRequest, SlotOps, Documents
  <2> HIDE DEF r
  <2>4. \A j \in Items : ClaimedBy(r, j) => SpokenFor(j)
    BY <2>1, <2>2 DEF ClaimedBy, SpokenFor, ClaimedOnPaper
  <2>5. Sound(r)
    BY <2>2, <2>1, <2>3, <2>4, LooksElsewhere DEF TransferOps, SessionOps
  <2> QED
    BY <2>2, <2>3, <2>5, BeginIsLook
<1>4. ASSUME NEW i \in Items, ReadForStockOut(s, i) PROVE \E r \in OfficeRequest : Look(s, r)
  <2> DEFINE r == [Idle EXCEPT !.op = "stockOut", !.item = i]
  <2>1. r.op = "stockOut" /\ Begin(s, r)
    BY <1>4 DEF Idle, ReadForStockOut
  <2>2. r \in OfficeRequest
    BY DEF Idle, OfficeRequest, SlotOps
  <2> HIDE DEF r
  <2>3. Sound(r)
    BY <2>1, <2>2, LooksElsewhere DEF ClaimedBy, TransferOps, SessionOps
  <2> QED
    BY <2>1, <2>2, <2>3, BeginIsLook
<1> QED
  BY <1>1, <1>2, <1>3, <1>4

\* A request that fails has seen nothing.
LEMMA FailLooks ==
    ASSUME NEW s \in Slots, Fail(s) PROVE \E r \in OfficeRequest : Look(s, r)
BY IdleIsSound DEF Fail, Finish, Look, Sound

-----------------------------------------------------------------------------
(* The handlers that write.                                                *)

StockTyped ==
    /\ stock \in [Items -> Statuses]
    /\ itemBranch \in [Items -> Branches]

PaperTyped ==
    /\ transfer \in [Transfers -> Transfer]
    /\ session \in [Sessions -> Session]
    /\ vreturn \in [VendorReturns -> VendorReturn]
    /\ pledge \in [Pledges -> Items \cup {None}] /\ released \subseteq LenderPledges

\* A transfer stays of its piece and to its branch.
TransfersKept ==
    \A t \in Transfers : transfer[t].status # "NONE" =>
        /\ transfer'[t].status # "NONE"
        /\ transfer'[t].item = transfer[t].item /\ transfer'[t].to = transfer[t].to

\* A handler is done: it has moved no piece but those it claimed, and put none on a
\* document that the office did not claim before.
Write(s) ==
    /\ slot' = [slot EXCEPT ![s] = Idle]
    /\ StockTyped' /\ PaperTyped'
    /\ TransfersKept /\ \A t \in Transfers : TransferHolds(t)'
    /\ \A a \in Sessions : SessionHolds(a)'
    /\ \A i \in Items : stock'[i] # stock[i] => ClaimedBy(slot[s], i)
    /\ \A i \in Items : ClaimedOnPaper(i)' => SpokenFor(i)

\* What a write to a transfer leaves there.
WrittenStatus == [approve |-> "APPROVED", reject |-> "REJECTED",
                  dispatch |-> "DISPATCHED", receive |-> "RECEIVED"]

\* What the handlers do to transfers and to pieces on the road.
NoTransfer == transfer' = transfer /\ \A i \in Items : stock'[i] = "IN_TRANSIT" => stock[i] = "IN_TRANSIT"

NewTransfer == \E t \in Transfers :
    /\ transfer[t].status = "NONE" /\ transfer'[t].status = "REQUESTED"
    /\ \A u \in Transfers : u # t => transfer'[u] = transfer[u]
    /\ stock' = stock

TransferWrite(s) ==
    /\ slot[s].op \in TransferOps
    /\ \A u \in Transfers : u # slot[s].doc => transfer'[u] = transfer[u]
    /\ transfer'[slot[s].doc].status = WrittenStatus[slot[s].op]
    /\ transfer'[slot[s].doc].item = slot[s].item
    /\ \A i \in Items :
          stock'[i] = IF i = slot[s].item /\ slot[s].op = "dispatch" THEN "IN_TRANSIT"
                      ELSE IF i = slot[s].item /\ slot[s].op = "receive" THEN "AVAILABLE"
                      ELSE stock[i]

\* The type invariant, table by table.
LEMMA TypesByTable ==
    BackroomTypeOK <=> /\ StockTyped /\ PaperTyped
                       /\ slot \in [Slots -> OfficeRequest]
                       /\ taken \subseteq Items /\ raced \subseteq Transfers
                       /\ byHand \subseteq Items
BY DEF BackroomTypeOK, StockTyped, PaperTyped, OfficeRequest, SlotOps

\* An update of pieces by their ids.
LEMMA PutMoves ==
    ASSUME StockTyped, NEW S, NEW to \in Statuses, Put(S, to)
    PROVE  /\ stock' \in [Items -> Statuses]
           /\ \A i \in Items : stock'[i] = IF i \in S THEN to ELSE stock[i]
BY DEF Put, StockTyped

\* A request that is done leaves no session pending that was not.
LEMMA PendingShrinks ==
    ASSUME NEW s \in Slots, slot' = [slot EXCEPT ![s] = Idle], NEW a \in Sessions,
           session'[a].status = "SUBMITTED" => session[a].status = "SUBMITTED", Pending(a)'
    PROVE  Pending(a)
<1>1. CASE session'[a].status = "SUBMITTED"
  BY <1>1 DEF Pending
<1>2. CASE session'[a].status # "SUBMITTED"
  <2>1. PICK u \in Slots : slot'[u].doc = a /\ slot'[u].op \in {"submit", "submitted"}
    BY <1>2 DEF Pending
  <2>2. slot'[u] = slot[u]
    BY <2>1 DEF Idle
  <2> QED
    BY <2>1, <2>2 DEF Pending
<1> QED
  BY <1>1, <1>2

\* A handler that leaves the sessions alone leaves no piece missing that was not.
LEMMA MissingShrinks ==
    ASSUME TablesInv, NEW s \in Slots, slot' = [slot EXCEPT ![s] = Idle], UNCHANGED session
    PROVE  /\ \A a \in Sessions : SessionHolds(a)'
           /\ \A a \in Sessions : Pending(a)' => Pending(a)
BY PendingShrinks DEF TablesInv, SessionHolds

\* The four handlers that write to a transfer.
LEMMA TransferWrites ==
    ASSUME TablesInv, NEW s \in Slots,
           \/ ApproveTransfer(s) \/ RejectTransfer(s) \/ DispatchTransfer(s) \/ ReceiveTransfer(s)
    PROVE  Write(s) /\ TransferWrite(s)
<1>1. slot[s].op \in TransferOps
  BY DEF ApproveTransfer, RejectTransfer, DispatchTransfer, ReceiveTransfer, TransferOps
<1>2. PICK d \in Transfers, i \in Items, b \in Branches :
         /\ d = slot[s].doc /\ transfer[d].status # "NONE"
         /\ i = slot[s].item /\ i = transfer[d].item
         /\ b = slot[s].to /\ b = transfer[d].to
  BY <1>1 DEF TablesInv, RequestHolds, TransferHolds
<1>3. StockTyped /\ PaperTyped /\ transfer[d] \in Transfer
  BY TypesByTable DEF TablesInv, PaperTyped
<1>4. PICK to \in {"APPROVED", "REJECTED", "DISPATCHED", "RECEIVED"} :
         /\ to = WrittenStatus[slot[s].op]
         /\ SetTransfer(s, to)
  BY DEF ApproveTransfer, RejectTransfer, DispatchTransfer, ReceiveTransfer, WrittenStatus
<1> DEFINE row == [transfer[d] EXCEPT !.status = to]
<1>5. row \in Transfer /\ row.status = to /\ row.item = i /\ row.to = b
  BY <1>2, <1>3 DEF Transfer
<1>6. /\ transfer' = [transfer EXCEPT ![d] = row]
      /\ slot' = [slot EXCEPT ![s] = Idle]
      /\ UNCHANGED <<session, vreturn, pledge, released>>
  BY <1>2, <1>4 DEF SetTransfer, Finish
<1> HIDE DEF row
<1>7. /\ transfer' \in [Transfers -> Transfer] /\ transfer'[d] = row
      /\ \A u \in Transfers : u # d => transfer'[u] = transfer[u]
  BY <1>3, <1>5, <1>6 DEF PaperTyped
<1>8. StockTyped' /\ \A j \in Items :
         stock'[j] = IF j = i /\ slot[s].op = "dispatch" THEN "IN_TRANSIT"
                     ELSE IF j = i /\ slot[s].op = "receive" THEN "AVAILABLE"
                     ELSE stock[j]
  <2>1. CASE ApproveTransfer(s) \/ RejectTransfer(s)
    BY <1>3, <2>1 DEF ApproveTransfer, RejectTransfer, stockVars, StockTyped
  <2>2. CASE DispatchTransfer(s)
    BY <1>2, <1>3, <2>2, PutMoves DEF DispatchTransfer, StockTyped, Statuses
  <2>3. CASE ReceiveTransfer(s)
    <3>1. itemBranch' = [itemBranch EXCEPT ![i] = b] /\ Put({i}, "AVAILABLE")
          /\ slot[s].op = "receive"
      BY <1>2, <2>3 DEF ReceiveTransfer
    <3> QED
      BY <1>3, <3>1, PutMoves DEF StockTyped, Statuses
  <2> QED
    BY <2>1, <2>2, <2>3
<1>9. PaperTyped'
  BY <1>3, <1>6, <1>7 DEF PaperTyped
<1>0. \A a \in Sessions : SessionHolds(a)' /\ (Pending(a)' => Pending(a))
  BY <1>6, MissingShrinks
<1>10. TransfersKept /\ \A t \in Transfers : TransferHolds(t)'
  <2>1. \A t \in Transfers : TransferHolds(t)
    BY DEF TablesInv
  <2> QED
    BY <1>2, <1>5, <1>7, <2>1 DEF TransfersKept, TransferHolds
<1>11. \A j \in Items : ClaimedOnPaper(j)' => SpokenFor(j)
  <2>1. ClaimedBy(slot[s], i)
    BY <1>1, <1>2 DEF ClaimedBy, TransferOps
  <2> QED
    BY <1>0, <1>2, <1>5, <1>6, <1>7, <2>1 DEF ClaimedOnPaper, SpokenFor, Active
<1>12. \A j \in Items : stock'[j] # stock[j] => ClaimedBy(slot[s], j)
  BY <1>1, <1>2, <1>8 DEF ClaimedBy, TransferOps
<1>13. TransferWrite(s)
  BY <1>1, <1>2, <1>4, <1>5, <1>7, <1>8 DEF TransferWrite
<1> QED
  BY <1>0, <1>6, <1>8, <1>9, <1>10, <1>11, <1>12, <1>13 DEF Write

\* A transfer is requested.
LEMMA InsertWrites ==
    ASSUME TablesInv, NEW s \in Slots, NEW t \in Transfers, InsertTransfer(s, t)
    PROVE  Write(s) /\ NewTransfer
<1>1. PICK i \in Items, b \in Branches : i = slot[s].item /\ b = slot[s].to
  BY DEF TablesInv, RequestHolds, InsertTransfer
<1>2. StockTyped /\ PaperTyped
  BY TypesByTable DEF TablesInv
<1> DEFINE row == [status |-> "REQUESTED", item |-> i, to |-> b]
<1>3. row \in Transfer /\ row.status = "REQUESTED" /\ row.item = i /\ row.to = b
  BY DEF Transfer
<1>4. /\ transfer' = [transfer EXCEPT ![t] = row]
      /\ slot' = [slot EXCEPT ![s] = Idle] /\ transfer[t].status = "NONE"
      /\ UNCHANGED <<stockVars, session, vreturn, pledge, released>>
  BY <1>1 DEF InsertTransfer, Finish
<1> HIDE DEF row
<1>5. /\ transfer' \in [Transfers -> Transfer] /\ transfer'[t] = row
      /\ \A u \in Transfers : u # t => transfer'[u] = transfer[u]
  BY <1>2, <1>3, <1>4 DEF PaperTyped
<1>6. StockTyped' /\ PaperTyped' /\ stock' = stock
  BY <1>2, <1>4, <1>5 DEF StockTyped, PaperTyped, stockVars
<1>0. \A a \in Sessions : SessionHolds(a)' /\ (Pending(a)' => Pending(a))
  BY <1>4, MissingShrinks
<1>7. TransfersKept /\ \A u \in Transfers : TransferHolds(u)'
  <2>1. \A u \in Transfers : TransferHolds(u)
    BY DEF TablesInv
  <2> QED
    BY <1>3, <1>4, <1>5, <2>1 DEF TransfersKept, TransferHolds
<1>8. \A j \in Items : ClaimedOnPaper(j)' => SpokenFor(j)
  <2>1. ClaimedBy(slot[s], i)
    BY <1>1 DEF ClaimedBy, InsertTransfer
  <2> QED
    BY <1>0, <1>3, <1>4, <1>5, <2>1 DEF ClaimedOnPaper, SpokenFor, Active
<1>9. NewTransfer
  BY <1>3, <1>4, <1>5, <1>6 DEF NewTransfer
<1> QED
  BY <1>0, <1>4, <1>6, <1>7, <1>8, <1>9 DEF Write

\* The other handlers leave the transfers alone, and put no piece on the road.
LEMMA NoTransferKeeps ==
    ASSUME TablesInv, UNCHANGED transfer
    PROVE  TransfersKept /\ \A t \in Transfers : TransferHolds(t)'
BY DEF TablesInv, TransfersKept, TransferHolds

\* A write to one session, which may add to its missing pieces what the request
\* claims, and makes it pending only by a submit.
LEMMA SessionWrites ==
    ASSUME TablesInv, NEW s \in Slots, slot[s].op \in SessionOps,
           NEW r \in Session, SetSession(s, r),
           \A i \in Items : i \in r.missing => i \in session[slot[s].doc].missing \/ SpokenFor(i),
           r.status = "SUBMITTED" =>
               session[slot[s].doc].status = "SUBMITTED" \/ slot[s].op = "submitted",
           r.status \in {"NONE", "IN_PROGRESS"} => r.missing = {},
           StockTyped',
           \A i \in Items : stock'[i] # stock[i] =>
               ClaimedBy(slot[s], i) /\ stock'[i] # "IN_TRANSIT"
    PROVE  Write(s) /\ NoTransfer
<1>1. StockTyped /\ PaperTyped
  BY TypesByTable DEF TablesInv
<1>2. PICK d \in Sessions : d = slot[s].doc
  BY DEF TablesInv, RequestHolds
<1>3. /\ session' = [session EXCEPT ![d] = r]
      /\ slot' = [slot EXCEPT ![s] = Idle]
      /\ UNCHANGED <<transfer, vreturn, pledge, released>>
  BY <1>2 DEF SetSession, Finish
<1>4. PaperTyped' /\ \A a \in Sessions : session'[a] = IF a = d THEN r ELSE session[a]
  BY <1>1, <1>3 DEF PaperTyped
<1>5. ASSUME NEW a \in Sessions, Pending(a)' PROVE Pending(a)
  <2>1. CASE slot[s].op = "submitted" /\ a = d
    BY <1>2, <2>1 DEF Pending
  <2>2. CASE ~(slot[s].op = "submitted" /\ a = d)
    <3>1. session'[a].status = "SUBMITTED" => session[a].status = "SUBMITTED"
      BY <1>2, <1>4, <2>2
    <3> QED
      BY <1>3, <1>5, <3>1, PendingShrinks
  <2> QED
    BY <2>1, <2>2
<1>6. ASSUME NEW i \in Items, ClaimedOnPaper(i)' PROVE SpokenFor(i)
  <2>1. CASE \E a \in Sessions : Pending(a)' /\ i \in session'[a].missing
    <3>1. PICK a \in Sessions : Pending(a)' /\ i \in session'[a].missing
      BY <2>1
    <3>2. Pending(a) /\ (i \in session[a].missing \/ SpokenFor(i))
      BY <1>2, <1>4, <1>5, <3>1
    <3> QED
      BY <3>2 DEF SpokenFor, ClaimedOnPaper
  <2>2. CASE ~\E a \in Sessions : Pending(a)' /\ i \in session'[a].missing
    BY <1>3, <1>6, <2>2 DEF ClaimedOnPaper, SpokenFor, Active
  <2> QED
    BY <2>1, <2>2
<1>7. \A a \in Sessions : SessionHolds(a)'
  BY <1>4 DEF TablesInv, SessionHolds
<1> QED
  BY <1>3, <1>4, <1>6, <1>7, NoTransferKeeps DEF Write, NoTransfer

\* The session of a request.
LEMMA SessionOfRequest ==
    ASSUME TablesInv, NEW s \in Slots, slot[s].op \in SessionOps
    PROVE  /\ session[slot[s].doc] \in Session
           /\ SessionHolds(slot[s].doc)
BY DEF TablesInv, RequestHolds, BackroomTypeOK

LEMMA OpenWrites ==
    ASSUME TablesInv, NEW s \in Slots, OpenSession(s)
    PROVE  Write(s) /\ NoTransfer
<1>1. slot[s].to \in Branches \cup {None}
  BY DEF TablesInv, BackroomTypeOK
<1> DEFINE r == [status |-> "IN_PROGRESS", branch |-> slot[s].to, scanned |-> {}, missing |-> {}]
<1>2. r \in Session /\ r.missing = {} /\ r.status = "IN_PROGRESS"
  BY <1>1 DEF Session
<1>3. SetSession(s, r) /\ UNCHANGED stockVars /\ slot[s].op \in SessionOps
  BY DEF OpenSession, SessionOps
<1> HIDE DEF r
<1>4. StockTyped' /\ stock' = stock
  BY <1>3, TypesByTable DEF TablesInv, StockTyped, stockVars
<1> QED
  BY <1>2, <1>3, <1>4, SessionWrites

\* A scan, a submit and a cancellation change one session.
LEMMA ScanWrites ==
    ASSUME TablesInv, NEW s \in Slots,
           ScanItem(s) \/ SubmitSession(s) \/ CancelSession(s)
    PROVE  Write(s) /\ NoTransfer
<1>0. slot[s].op \in SessionOps
  BY DEF ScanItem, SubmitSession, CancelSession, SessionOps
<1>1. PICK a \in Session : a = session[slot[s].doc]
  BY <1>0, SessionOfRequest
<1>2. a.status \in {"NONE", "IN_PROGRESS"} => a.missing = {}
  BY <1>0, <1>1, SessionOfRequest DEF SessionHolds
<1>3. PICK lines \in SUBSET Items : lines = slot[s].lines
  BY DEF TablesInv, BackroomTypeOK
<1>4. StockTyped' /\ stock' = stock
  BY TypesByTable DEF TablesInv, StockTyped, stockVars, ScanItem, SubmitSession, CancelSession
<1>5. CASE ScanItem(s)
  <2> DEFINE r == [a EXCEPT !.scanned = a.scanned \cup lines]
  <2>1. r \in Session /\ r.missing = a.missing /\ r.status = a.status
    BY DEF Session
  <2>2. SetSession(s, r)
    BY <1>1, <1>3, <1>5 DEF ScanItem
  <2> HIDE DEF r
  <2> QED
    BY <1>0, <1>1, <1>2, <1>4, <2>1, <2>2, SessionWrites
<1>6. CASE SubmitSession(s)
  <2> DEFINE r == [a EXCEPT !.status = "SUBMITTED", !.missing = a.missing \cup lines]
  <2>1. r \in Session /\ r.missing = a.missing \cup lines /\ r.status = "SUBMITTED"
    BY DEF Session
  <2>2. SetSession(s, r) /\ slot[s].op = "submitted"
    BY <1>1, <1>3, <1>6 DEF SubmitSession
  <2> HIDE DEF r
  <2>3. \A i \in Items : i \in r.missing => i \in a.missing \/ SpokenFor(i)
    BY <1>3, <2>1, <2>2 DEF SpokenFor, ClaimedBy
  <2> QED
    BY <1>0, <1>1, <1>4, <2>1, <2>2, <2>3, SessionWrites
<1>7. CASE CancelSession(s)
  <2> DEFINE r == [a EXCEPT !.status = "CANCELLED"]
  <2>1. r \in Session /\ r.missing = a.missing /\ r.status = "CANCELLED"
    BY DEF Session
  <2>2. SetSession(s, r)
    BY <1>1, <1>7 DEF CancelSession
  <2> HIDE DEF r
  <2> QED
    BY <1>0, <1>1, <1>4, <2>1, <2>2, SessionWrites
<1> QED
  BY <1>5, <1>6, <1>7

\* A reconciliation writes off what the session had missing as it looked.
LEMMA ReconcileWrites ==
    ASSUME TablesInv, NEW s \in Slots, ReconcileSession(s)
    PROVE  Write(s) /\ NoTransfer
<1>0. slot[s].op \in SessionOps
  BY DEF ReconcileSession, SessionOps
<1>1. PICK a \in Session : a = session[slot[s].doc]
  BY <1>0, SessionOfRequest
<1>3. /\ slot[s].op = "reconcile" /\ Put(slot[s].lines, "AUDIT_MISSING")
      /\ UNCHANGED itemBranch
  BY DEF ReconcileSession
<1>4. StockTyped' /\ \A i \in Items : stock'[i] # stock[i] =>
         ClaimedBy(slot[s], i) /\ stock'[i] # "IN_TRANSIT"
  <2>1. StockTyped
    BY TypesByTable DEF TablesInv
  <2> QED
    BY <1>3, <2>1, PutMoves DEF StockTyped, ClaimedBy, Statuses
<1> DEFINE r == [a EXCEPT !.status = "RECONCILED"]
<1>5. r \in Session /\ r.missing = a.missing /\ r.status = "RECONCILED"
  BY DEF Session
<1>6. SetSession(s, r)
  BY <1>1 DEF ReconcileSession
<1> HIDE DEF r
<1> QED
  BY <1>0, <1>1, <1>4, <1>5, <1>6, SessionWrites

\* A piece goes to the vendor, to the karigar, or back to the shelf.
LEMMA PieceWrites ==
    ASSUME TablesInv, NEW s \in Slots,
           \/ ReturnToVendor(s) \/ IssueToKarigar(s) \/ ReleaseCollateral(s) \/ ReleaseOne(s)
    PROVE  Write(s) /\ NoTransfer
<1>1. StockTyped /\ PaperTyped
  BY TypesByTable DEF TablesInv
<1>2. PICK to \in {"AVAILABLE", "RETURNED_TO_VENDOR", "ISSUED_TO_KARIGAR"} : Put({slot[s].item}, to)
  BY DEF ReturnToVendor, IssueToKarigar, ReleaseCollateral, ReleaseOne
<1>3. /\ UNCHANGED <<itemBranch, transfer, session>> /\ slot' = [slot EXCEPT ![s] = Idle]
      /\ slot[s].op # "stockOut"
  BY DEF ReturnToVendor, IssueToKarigar, ReleaseCollateral, ReleaseOne, Finish, docVars
<1>4. StockTyped' /\ \A i \in Items : stock'[i] # stock[i] =>
         ClaimedBy(slot[s], i) /\ stock'[i] # "IN_TRANSIT"
  BY <1>1, <1>2, <1>3, PutMoves DEF StockTyped, ClaimedBy, Statuses
<1>5. /\ vreturn' \in [VendorReturns -> VendorReturn]
      /\ pledge' \in [Pledges -> Items \cup {None}] /\ released' \subseteq LenderPledges
      /\ \A g \in Pledges : pledge'[g] # pledge[g] => pledge'[g] = None
  <2>1. CASE ReturnToVendor(s)
    <3>1. PICK p : p = slot[s].doc
      OBVIOUS
    <3>2. /\ vreturn' = [vreturn EXCEPT ![p].status = "PROCESSED"]
          /\ UNCHANGED <<pledge, released>>
      BY <2>1, <3>1 DEF ReturnToVendor
    <3>3. \A q \in VendorReturns : [vreturn[q] EXCEPT !.status = "PROCESSED"] \in VendorReturn
      BY <1>1 DEF PaperTyped, VendorReturn
    <3> QED
      BY <1>1, <3>2, <3>3 DEF PaperTyped
  <2>2. CASE IssueToKarigar(s)
    BY <1>1, <2>2 DEF IssueToKarigar, docVars, PaperTyped
  <2>3. CASE ReleaseCollateral(s)
    <3>1. PICK g : g = slot[s].doc
      OBVIOUS
    <3>2. /\ pledge' = [pledge EXCEPT ![g] = None] /\ released' = released \ {g}
          /\ UNCHANGED vreturn
      BY <2>3, <3>1 DEF ReleaseCollateral
    <3> QED
      BY <1>1, <3>2 DEF PaperTyped
  <2>4. CASE ReleaseOne(s)
    <3>1. /\ slot[s].doc \in LenderPledges
          /\ released' = released \cup ({slot[s].doc} \ {h \in Pledges : pledge[h] = None})
          /\ UNCHANGED <<vreturn, pledge>>
      BY <2>4 DEF ReleaseOne, TablesInv, RequestHolds
    <3> QED
      BY <1>1, <3>1 DEF PaperTyped
  <2> QED
    BY <2>1, <2>2, <2>3, <2>4
<1>6. PaperTyped'
  BY <1>1, <1>3, <1>5 DEF PaperTyped
<1>7. \A a \in Sessions : SessionHolds(a)' /\ (Pending(a)' => Pending(a))
  BY <1>3, MissingShrinks
<1>8. \A i \in Items : ClaimedOnPaper(i)' => SpokenFor(i)
  BY <1>1, <1>3, <1>5, <1>7, NoneAssumption DEF ClaimedOnPaper, SpokenFor, Active
<1> QED
  BY <1>3, <1>4, <1>6, <1>7, <1>8, NoTransferKeeps DEF Write, NoTransfer

Moves(s) ==
    \/ \E r \in OfficeRequest : Look(s, r)
    \/ Write(s) /\ (NoTransfer \/ NewTransfer \/ TransferWrite(s))

LEMMA OfficeMoves ==
    ASSUME TablesInv, OfficeNext
    PROVE  \E s \in Slots : Moves(s)
<1>1. ASSUME NEW s \in Slots, NEW i \in Items, NEW b \in Branches, ReadForTransfer(s, i, b)
      PROVE  Moves(s)
  BY <1>1, LooksForTransfers DEF Moves
<1>2. ASSUME NEW s \in Slots, NEW t \in Transfers,
             \/ InsertTransfer(s, t)  \/ ReadForApprove(s, t) \/ ReadForReject(s, t)
             \/ ReadForDispatch(s, t) \/ ReadForReceive(s, t)
      PROVE  Moves(s)
  BY <1>2, InsertWrites, LooksAtTransfer DEF Moves
<1>3. ASSUME NEW s \in Slots, NEW a \in Sessions,
             \/ \E b \in Branches : ReadForSession(s, a, b)
             \/ \E i \in Items : ReadForScan(s, a, i)
             \/ ReadForSubmit(s, a) \/ ReadForReconcile(s, a) \/ ReadForCancelSession(s, a)
      PROVE  Moves(s)
  BY <1>3, LooksForSessions DEF Moves
<1>4. ASSUME NEW s \in Slots,
             \/ \E p \in VendorReturns : ReadForVendor(s, p)
             \/ \E o \in JobOrders, i \in Items : ReadForKarigar(s, o, i)
             \/ \E i \in Items : ReadForStockOut(s, i)
             \/ \E g \in Pledges : ReadForSettle(s, g) \/ ReadForRelease(s, g)
      PROVE  Moves(s)
  BY <1>4, LooksForPieces DEF Moves
<1>5. ASSUME NEW s \in Slots, CheckTransfer(s) \/ CheckSubmit(s) \/ Fail(s)
      PROVE  Moves(s)
  BY <1>5, LooksForTransfers, CheckSubmitLooks, FailLooks DEF Moves
<1>6. ASSUME NEW s \in Slots,
             ApproveTransfer(s) \/ RejectTransfer(s) \/ DispatchTransfer(s) \/ ReceiveTransfer(s)
      PROVE  Moves(s)
  BY <1>6, TransferWrites DEF Moves
<1>7. ASSUME NEW s \in Slots,
             OpenSession(s) \/ ScanItem(s) \/ SubmitSession(s) \/ ReconcileSession(s)
             \/ CancelSession(s)
      PROVE  Moves(s)
  BY <1>7, OpenWrites, ScanWrites, ReconcileWrites DEF Moves
<1>8. ASSUME NEW s \in Slots,
             ReturnToVendor(s) \/ IssueToKarigar(s) \/ ReleaseCollateral(s) \/ ReleaseOne(s)
      PROVE  Moves(s)
  BY <1>8, PieceWrites DEF Moves
<1>9. PICK s \in Slots :
         \/ \E i \in Items, b \in Branches : ReadForTransfer(s, i, b)
         \/ \E t \in Transfers : \/ InsertTransfer(s, t)  \/ ReadForApprove(s, t)
                                 \/ ReadForReject(s, t)   \/ ReadForDispatch(s, t)
                                 \/ ReadForReceive(s, t)
         \/ \E a \in Sessions : \/ \E b \in Branches : ReadForSession(s, a, b)
                                \/ \E i \in Items : ReadForScan(s, a, i)
                                \/ ReadForSubmit(s, a) \/ ReadForReconcile(s, a)
                                \/ ReadForCancelSession(s, a)
         \/ \E p \in VendorReturns : ReadForVendor(s, p)
         \/ \E o \in JobOrders, i \in Items : ReadForKarigar(s, o, i)
         \/ \E i \in Items : ReadForStockOut(s, i)
         \/ \E g \in Pledges : ReadForSettle(s, g) \/ ReadForRelease(s, g)
         \/ CheckTransfer(s) \/ ApproveTransfer(s) \/ RejectTransfer(s) \/ DispatchTransfer(s)
         \/ ReceiveTransfer(s) \/ OpenSession(s) \/ ScanItem(s) \/ CheckSubmit(s)
         \/ SubmitSession(s) \/ ReconcileSession(s) \/ CancelSession(s) \/ ReturnToVendor(s)
         \/ IssueToKarigar(s) \/ ReleaseCollateral(s) \/ ReleaseOne(s) \/ Fail(s)
  BY DEF OfficeNext
<1> QED
  BY <1>1, <1>2, <1>3, <1>4, <1>5, <1>6, <1>7, <1>8, <1>9

-----------------------------------------------------------------------------
(* The steps of the office keep the invariant.                             *)

\* The request slots after a step.
LEMMA SlotsAfter ==
    ASSUME TablesInv, NEW s \in Slots, NEW r \in OfficeRequest, slot' = [slot EXCEPT ![s] = r]
    PROVE  /\ slot' \in [Slots -> OfficeRequest]
           /\ slot'[s] = r /\ \A u \in Slots : u # s => slot'[u] = slot[u]
BY TypesByTable DEF TablesInv

\* What a request knows of its transfer stays true of it.
LEMMA RequestStays ==
    ASSUME NEW q, RequestHolds(q), TransfersKept PROVE RequestHolds(q)'
BY DEF RequestHolds, TransfersKept

\* The history variables are about pieces and transfers.
HistoryTyped == taken \subseteq Items /\ raced \subseteq Transfers /\ byHand \subseteq Items

LEMMA LookKeepsTables ==
    ASSUME TablesInv, NEW s \in Slots, NEW r \in OfficeRequest, Look(s, r), HistoryTyped'
    PROVE  TablesInv'
<1>1. /\ slot' \in [Slots -> OfficeRequest]
      /\ slot'[s] = r /\ \A u \in Slots : u # s => slot'[u] = slot[u]
  BY SlotsAfter DEF Look
<1>2. BackroomTypeOK'
  BY <1>1 DEF TablesInv, Look, stockVars, docVars, BackroomTypeOK, OfficeRequest, SlotOps,
              HistoryTyped
<1>3. ASSUME NEW u \in Slots PROVE RequestHolds(slot[u])'
  <2>1. PICK q : q = slot'[u]
    OBVIOUS
  <2>2. RequestHolds(q)
    BY <1>1, <2>1 DEF Look, Sound, TablesInv
  <2>3. TransfersKept
    BY DEF Look, docVars, TransfersKept
  <2>4. RequestHolds(q)'
    BY <2>2, <2>3, RequestStays
  <2> QED
    BY <2>1, <2>4 DEF RequestHolds
<1>4. /\ \A t \in Transfers : TransferHolds(t)'
      /\ \A a \in Sessions : SessionHolds(a)'
  BY DEF TablesInv, TransferHolds, SessionHolds, Look, docVars
<1> QED
  BY <1>2, <1>3, <1>4 DEF TablesInv

LEMMA WriteKeepsTables ==
    ASSUME TablesInv, NEW s \in Slots, Write(s), HistoryTyped'
    PROVE  TablesInv'
<1>1. Idle \in OfficeRequest /\ RequestHolds(Idle)
  BY IdleIsSound DEF Sound
<1>2. /\ slot' \in [Slots -> OfficeRequest]
      /\ slot'[s] = Idle /\ \A u \in Slots : u # s => slot'[u] = slot[u]
  BY <1>1, SlotsAfter DEF Write
<1>3. BackroomTypeOK'
  BY <1>2 DEF Write, StockTyped, PaperTyped, BackroomTypeOK, OfficeRequest, SlotOps,
              HistoryTyped
<1>4. ASSUME NEW u \in Slots PROVE RequestHolds(slot[u])'
  <2>1. PICK q : q = slot'[u]
    OBVIOUS
  <2>2. RequestHolds(q)
    BY <1>1, <1>2, <2>1 DEF TablesInv
  <2>3. RequestHolds(q)'
    BY <2>2, RequestStays DEF Write
  <2> QED
    BY <2>1, <2>3 DEF RequestHolds
<1> QED
  BY <1>3, <1>4 DEF TablesInv, Write

\* What was met on stays met on, and a transfer that was not is in one hand.
LEMMA RacedGrows ==
    ASSUME raced' = raced \cup {t \in Transfers : MetOn(t)'}
    PROVE  raced \subseteq raced' /\ \A t \in Transfers \ raced' : ~MetOn(t)'
OBVIOUS

\* A piece that no step has moved since a hand moved it stays so marked.
HandsRemembered == \A i \in byHand : stock'[i] = stock[i] => i \in byHand'

\* Where two requests have not met on a transfer, the others' transfers are not
\* the one a handler writes to.
LEMMA MoveKeepsRoad ==
    ASSUME TablesInv, RoadInv, NEW s \in Slots, Moves(s), HandsRemembered,
           raced' = raced \cup {t \in Transfers : MetOn(t)'}
    PROVE  RoadInv'
<1>1. /\ raced \subseteq raced' /\ \A t \in Transfers \ raced' : ~MetOn(t)'
      /\ \A t \in Transfers \ raced : ~MetOn(t)
      /\ \A u \in Slots : StatusIsTrue(slot[u])
      /\ \A i \in Items : OnTheRoad(i)
  BY RacedGrows DEF RoadInv
<1>2. ASSUME NEW r \in OfficeRequest, Look(s, r)
      PROVE  (\A u \in Slots : StatusIsTrue(slot[u])') /\ \A i \in Items : OnTheRoad(i)'
  <2>1. slot'[s] = r /\ \A u \in Slots : u # s => slot'[u] = slot[u]
    BY <1>2, SlotsAfter DEF Look
  <2>2. UNCHANGED <<stock, transfer>> /\ StatusIsTrue(r)
    BY <1>2 DEF Look, stockVars, docVars, Sound
  <2>3. \A i \in Items : OnTheRoad(i)'
    BY <1>1, <2>2 DEF OnTheRoad, HandsRemembered
  <2>4. ASSUME NEW u \in Slots PROVE StatusIsTrue(slot[u])'
    BY <1>1, <2>1, <2>2 DEF StatusIsTrue
  <2> QED
    BY <2>3, <2>4
<1>3. ASSUME Write(s)
      PROVE  /\ slot'[s] = Idle /\ \A u \in Slots : u # s => slot'[u] = slot[u]
             /\ StatusIsTrue(slot[s])'
  <2>1. Idle \in OfficeRequest
    BY IdleIsSound DEF Sound
  <2>2. slot'[s] = Idle /\ \A u \in Slots : u # s => slot'[u] = slot[u]
    BY <1>3, <2>1, SlotsAfter DEF Write
  <2>3. StatusIsTrue(slot[s])'
    BY <2>2 DEF StatusIsTrue, Idle, TransferOps
  <2> QED
    BY <2>2, <2>3
<1>4. ASSUME Write(s), NoTransfer
      PROVE  (\A u \in Slots : StatusIsTrue(slot[u])') /\ \A i \in Items : OnTheRoad(i)'
  <2>1. \A i \in Items : OnTheRoad(i)'
    BY <1>1, <1>4 DEF OnTheRoad, NoTransfer, HandsRemembered
  <2>2. ASSUME NEW u \in Slots PROVE StatusIsTrue(slot[u])'
    BY <1>1, <1>3, <1>4, <2>2 DEF StatusIsTrue, NoTransfer
  <2> QED
    BY <2>1, <2>2
<1>5. ASSUME Write(s), NewTransfer
      PROVE  (\A u \in Slots : StatusIsTrue(slot[u])') /\ \A i \in Items : OnTheRoad(i)'
  <2>1. PICK t \in Transfers :
           /\ transfer[t].status = "NONE" /\ transfer'[t].status = "REQUESTED"
           /\ \A u \in Transfers : u # t => transfer'[u] = transfer[u]
           /\ stock' = stock
    BY <1>5 DEF NewTransfer
  <2>2. \A i \in Items : OnTheRoad(i)'
    BY <1>1, <2>1 DEF OnTheRoad, HandsRemembered
  <2>3. ASSUME NEW u \in Slots, u # s PROVE StatusIsTrue(slot[u])'
    <3>1. slot[u].op \in TransferOps => slot[u].doc \in Transfers /\ slot[u].doc # t
      BY <2>1 DEF TablesInv, RequestHolds
    <3> QED
      BY <1>1, <1>3, <1>5, <2>1, <2>3, <3>1 DEF StatusIsTrue
  <2> QED
    BY <1>3, <1>5, <2>2, <2>3
<1>6. ASSUME Write(s), TransferWrite(s)
      PROVE  (\A u \in Slots : StatusIsTrue(slot[u])') /\ \A i \in Items : OnTheRoad(i)'
  <2>1. PICK d \in Transfers, op \in TransferOps, j \in Items :
           /\ d = slot[s].doc /\ op = slot[s].op /\ j = slot[s].item
           /\ j = transfer[d].item /\ transfer[d].status # "NONE"
    BY <1>6 DEF TransferWrite, TablesInv, RequestHolds, TransferHolds
  <2>2. d \notin raced => transfer[d].status = ReadStatus[op]
    BY <1>1, <2>1 DEF StatusIsTrue
  <2>3. /\ \A u \in Transfers : u # d => transfer'[u] = transfer[u]
        /\ transfer'[d].status = WrittenStatus[op] /\ transfer'[d].item = j
        /\ \A i \in Items :
              stock'[i] = IF i = j /\ op = "dispatch" THEN "IN_TRANSIT"
                          ELSE IF i = j /\ op = "receive" THEN "AVAILABLE"
                          ELSE stock[i]
    BY <1>6, <2>1 DEF TransferWrite
  <2>4. op \in {"approve", "reject", "dispatch", "receive"}
    BY DEF TransferOps
  <2>5. transfer'[d].status # "NONE"
    BY <1>6, <2>1 DEF Write, TransfersKept
  <2>6. ASSUME NEW i \in Items, stock'[i] = "IN_TRANSIT" PROVE OnTheRoad(i)'
    <3>1. CASE i = j /\ op = "dispatch"
      BY <2>3, <3>1 DEF WrittenStatus, OnTheRoad
    <3>2. CASE ~(i = j /\ op = "dispatch")
      <4>1. stock[i] = "IN_TRANSIT" /\ ~(i = j /\ op = "receive")
        BY <2>3, <2>6, <3>2
      <4>0. CASE i \in byHand
        BY <2>6, <4>0, <4>1 DEF OnTheRoad, HandsRemembered
      <4> SUFFICES ASSUME i \notin byHand PROVE OnTheRoad(i)'
        BY <4>0
      <4>2. PICK t \in Transfers :
               /\ transfer[t].item = i
               /\ \/ transfer[t].status = "DISPATCHED"
                  \/ t \in raced /\ transfer[t].status # "NONE"
        BY <1>1, <4>1 DEF OnTheRoad
      <4>3. CASE t # d
        BY <1>1, <2>3, <4>2, <4>3 DEF OnTheRoad
      <4>4. CASE t = d
        <5>1. d \in raced
          BY <2>1, <2>2, <2>4, <4>1, <4>2, <4>4 DEF ReadStatus
        <5> QED
          BY <1>1, <2>1, <2>3, <2>5, <4>2, <4>4, <5>1 DEF OnTheRoad
      <4> QED
        BY <4>3, <4>4
    <3> QED
      BY <3>1, <3>2
  <2>7. \A i \in Items : OnTheRoad(i)'
    BY <2>6 DEF OnTheRoad
  <2>8. ASSUME NEW u \in Slots, u # s PROVE StatusIsTrue(slot[u])'
    <3>1. slot[u].op \in TransferOps /\ slot[u].doc \notin raced =>
             slot[u].doc \in Transfers /\ slot[u].doc # d
      BY <1>1, <2>1, <2>8 DEF TablesInv, RequestHolds, MetOn
    <3> QED
      BY <1>1, <1>3, <1>6, <2>3, <2>8, <3>1 DEF StatusIsTrue
  <2> QED
    BY <1>3, <1>6, <2>7, <2>8
<1>7. (\A u \in Slots : StatusIsTrue(slot[u])') /\ \A i \in Items : OnTheRoad(i)'
  BY <1>2, <1>4, <1>5, <1>6 DEF Moves
<1> QED
  BY <1>1, <1>7 DEF RoadInv

\* A step of the office claims a piece only if the office claimed it before, or it
\* is on the shelf.
LEMMA MoveClaims ==
    ASSUME TablesInv, NEW s \in Slots, Moves(s), NEW i \in Items, SpokenFor(i)'
    PROVE  SpokenFor(i) \/ stock[i] = "AVAILABLE"
<1>1. ASSUME NEW r \in OfficeRequest, Look(s, r) PROVE SpokenFor(i) \/ stock[i] = "AVAILABLE"
  <2>1. slot'[s] = r /\ \A u \in Slots : u # s => slot'[u] = slot[u]
    BY <1>1, SlotsAfter DEF Look
  <2>2. UNCHANGED <<transfer, session, pledge>> /\ Sound(r)
    BY <1>1 DEF Look, docVars
  <2>3. CASE ClaimedOnPaper(i)'
    <3>1. CASE \E a \in Sessions : Pending(a)' /\ i \in session[a].missing
      <4>1. PICK a \in Sessions : Pending(a)' /\ i \in session[a].missing
        BY <3>1
      <4>2. CASE r.doc = a /\ r.op \in {"submit", "submitted"}
        BY <2>2, <4>1, <4>2 DEF Sound
      <4>3. CASE ~(r.doc = a /\ r.op \in {"submit", "submitted"})
        <5>1. Pending(a)
          BY <2>1, <2>2, <4>1, <4>3 DEF Pending
        <5> QED
          BY <4>1, <5>1 DEF SpokenFor, ClaimedOnPaper
      <4> QED
        BY <4>2, <4>3
    <3>2. CASE ~\E a \in Sessions : Pending(a)' /\ i \in session[a].missing
      BY <2>2, <2>3, <3>2 DEF ClaimedOnPaper, SpokenFor, Active
    <3> QED
      BY <3>1, <3>2
  <2>4. CASE \E u \in Slots : ClaimedBy(slot'[u], i)
    BY <2>1, <2>2, <2>4 DEF Sound, SpokenFor
  <2> QED
    BY <2>3, <2>4 DEF SpokenFor, ClaimedBy
<1>2. ASSUME Write(s) PROVE SpokenFor(i)
  <2>1. Idle \in OfficeRequest
    BY IdleIsSound DEF Sound
  <2>2. slot'[s] = Idle /\ \A u \in Slots : u # s => slot'[u] = slot[u]
    BY <1>2, <2>1, SlotsAfter DEF Write
  <2>3. CASE ClaimedOnPaper(i)'
    BY <1>2, <2>3 DEF Write
  <2>4. CASE \E u \in Slots : ClaimedBy(slot'[u], i)
    <3>1. ~ClaimedBy(Idle, i)
      BY NoneAssumption DEF ClaimedBy, Idle
    <3> QED
      BY <2>2, <2>4, <3>1 DEF SpokenFor
  <2> QED
    BY <2>3, <2>4 DEF SpokenFor, ClaimedBy
<1> QED
  BY <1>1, <1>2 DEF Moves

\* How the mark of what a counter took from under the office moves on.
TakenStep == taken' = {i \in Items : (i \in taken \/ Taken(i) \/ Pledged(i)) /\ SpokenFor(i)'}

\* It is enough that no step but a pledge claims what a counter has.
LEMMA KeepsHandsOff ==
    ASSUME HandsOff, TakenStep,
           \A i \in Items : WithCounter(i) /\ SpokenFor(i)' => SpokenFor(i) \/ Pledged(i)
    PROVE  HandsOff'
<1> SUFFICES ASSUME NEW i \in Items, i \notin taken', WithCounter(i)', SpokenFor(i)' PROVE FALSE
  BY DEF HandsOff
<1>1. i \notin taken /\ ~Taken(i) /\ ~Pledged(i)
  BY DEF TakenStep
<1>2. WithCounter(i)
  BY <1>1 DEF Taken
<1>3. SpokenFor(i)
  BY <1>1, <1>2
<1> QED
  BY <1>1, <1>2, <1>3 DEF HandsOff

LEMMA MoveKeepsHandsOff ==
    ASSUME TablesInv, HandsOff, NEW s \in Slots, Moves(s), TakenStep
    PROVE  HandsOff'
<1>1. \A i \in Items : WithCounter(i) /\ SpokenFor(i)' => SpokenFor(i)
  BY MoveClaims DEF WithCounter
<1> QED
  BY <1>1, KeepsHandsOff

-----------------------------------------------------------------------------
(* The steps of the counters, of hands and of the pawn desk keep it.       *)

\* A counter or a hand moves one piece, and touches no document.
PieceMoves ==
    /\ \E i \in Items, to \in Statuses : stock' = [stock EXCEPT ![i] = to]
    /\ itemBranch' \in [Items -> Branches]
    /\ UNCHANGED <<docVars, slot>>

LEMMA CounterMoves == ASSUME TablesInv, CounterNext PROVE PieceMoves
BY DEF CounterNext, Counter, PieceMoves, Statuses, TablesInv, BackroomTypeOK

\* A movement or an edit moves one piece; a stock-out is done after that.
LEMMA HandMoves ==
    ASSUME TablesInv, HandNext
    PROVE  PieceMoves \/ \E s \in Slots : StockOut(s)
<1>1. stock \in [Items -> Statuses] /\ itemBranch \in [Items -> Branches]
  BY DEF TablesInv, BackroomTypeOK
<1>2. ASSUME NEW i \in Items, PostMovement(i) PROVE PieceMoves
  BY <1>1, <1>2 DEF PostMovement, PieceMoves, Statuses
<1>3. ASSUME NEW i \in Items, EditItem(i) PROVE PieceMoves
  <2>1. PICK to \in Statuses : stock' = [stock EXCEPT ![i] = to]
    BY <1>1, <1>3 DEF EditItem, Statuses
  <2>2. itemBranch' \in [Items -> Branches] /\ UNCHANGED <<docVars, slot>>
    BY <1>1, <1>3 DEF EditItem
  <2> QED
    BY <2>1, <2>2 DEF PieceMoves
<1> QED
  BY <1>2, <1>3 DEF HandNext

LEMMA PieceMoveKeepsTables ==
    ASSUME TablesInv, PieceMoves, HistoryTyped'
    PROVE  TablesInv'
<1>1. BackroomTypeOK'
  BY DEF TablesInv, BackroomTypeOK, PieceMoves, docVars, HistoryTyped
<1>2. /\ \A t \in Transfers : TransferHolds(t)'
      /\ \A a \in Sessions : SessionHolds(a)'
  BY DEF TablesInv, TransferHolds, SessionHolds, PieceMoves, docVars
<1>3. ASSUME NEW u \in Slots PROVE RequestHolds(slot[u])'
  BY DEF TablesInv, RequestHolds, PieceMoves, docVars
<1> QED
  BY <1>1, <1>2, <1>3 DEF TablesInv

\* What a stock-out does to the tables.
LEMMA StockOutWrites ==
    ASSUME TablesInv, NEW s \in Slots, StockOut(s)
    PROVE  /\ UNCHANGED docVars /\ StockTyped'
           /\ slot' \in [Slots -> OfficeRequest]
           /\ slot'[s] = Idle /\ \A u \in Slots : u # s => slot'[u] = slot[u]
           /\ \A a \in Sessions : Pending(a)' => Pending(a)
<1>1. Put({slot[s].item}, "SOLD") /\ slot' = [slot EXCEPT ![s] = Idle]
      /\ UNCHANGED <<itemBranch, docVars>>
  BY DEF StockOut, Finish
<1>2. Idle \in OfficeRequest
  BY IdleIsSound DEF Sound
<1>3. StockTyped'
  BY <1>1, TypesByTable, PutMoves DEF TablesInv, StockTyped, Statuses
<1>4. \A a \in Sessions : Pending(a)' => Pending(a)
  BY <1>1, PendingShrinks DEF docVars
<1> QED
  BY <1>1, <1>2, <1>3, <1>4, SlotsAfter

LEMMA StockOutKeepsTables ==
    ASSUME TablesInv, NEW s \in Slots, StockOut(s), HistoryTyped'
    PROVE  TablesInv'
<1>1. Idle \in OfficeRequest /\ RequestHolds(Idle)
  BY IdleIsSound DEF Sound
<1>2. UNCHANGED <<transfer, session, vreturn, pledge, released>>
  BY StockOutWrites DEF docVars
<1>3. BackroomTypeOK'
  <2>1. PaperTyped'
    BY <1>2, TypesByTable DEF TablesInv, PaperTyped
  <2> QED
    BY <2>1, StockOutWrites
    DEF StockTyped, PaperTyped, BackroomTypeOK, OfficeRequest, SlotOps, HistoryTyped
<1>4. ASSUME NEW u \in Slots PROVE RequestHolds(slot[u])'
  <2>1. PICK q : q = slot'[u]
    OBVIOUS
  <2>2. RequestHolds(q)
    BY <1>1, <2>1, StockOutWrites DEF TablesInv
  <2>3. RequestHolds(q)'
    BY <1>2, <2>2 DEF RequestHolds
  <2> QED
    BY <2>1, <2>3 DEF RequestHolds
<1>5. /\ \A t \in Transfers : TransferHolds(t)'
      /\ \A a \in Sessions : SessionHolds(a)'
  BY <1>2 DEF TablesInv, TransferHolds, SessionHolds
<1> QED
  BY <1>3, <1>4, <1>5 DEF TablesInv

LEMMA PawnKeepsTables ==
    ASSUME TablesInv, PawnNext, HistoryTyped'
    PROVE  TablesInv'
<1>1. PICK g \in Pledges, i \in Items : AddCollateral(g, i)
  BY DEF PawnNext
<1>2. BackroomTypeOK'
  BY <1>1 DEF TablesInv, BackroomTypeOK, AddCollateral, stockVars, HistoryTyped
<1>3. /\ \A t \in Transfers : TransferHolds(t)'
      /\ \A a \in Sessions : SessionHolds(a)'
  BY <1>1 DEF TablesInv, TransferHolds, SessionHolds, AddCollateral
<1>4. ASSUME NEW u \in Slots PROVE RequestHolds(slot[u])'
  BY <1>1 DEF TablesInv, RequestHolds, AddCollateral
<1> QED
  BY <1>2, <1>3, <1>4 DEF TablesInv

\* Neither the counters nor the pawn desk nor a hand writes to a transfer, and only
\* a hand puts a piece on the road.
LEMMA OthersKeepRoad ==
    ASSUME TablesInv, RoadInv, HandsRemembered, UNCHANGED transfer,
           \A u \in Slots : slot'[u] \in {slot[u], Idle},
           \A i \in Items : stock[i] # stock'[i] => stock'[i] # "IN_TRANSIT" \/ i \in byHand',
           raced' = raced \cup {t \in Transfers : MetOn(t)'}
    PROVE  RoadInv'
<1>1. raced \subseteq raced' /\ \A t \in Transfers \ raced' : ~MetOn(t)'
  BY RacedGrows
<1>2. ASSUME NEW u \in Slots PROVE StatusIsTrue(slot[u])'
  <2>1. CASE slot'[u] = slot[u]
    BY <1>1, <2>1 DEF RoadInv, StatusIsTrue
  <2>2. CASE slot'[u] = Idle
    BY <2>2 DEF StatusIsTrue, Idle, TransferOps
  <2> QED
    BY <2>1, <2>2
<1>3. \A i \in Items : OnTheRoad(i)'
  BY <1>1 DEF RoadInv, OnTheRoad, HandsRemembered
<1> QED
  BY <1>1, <1>2, <1>3 DEF RoadInv

LEMMA CounterKeepsRoad ==
    ASSUME TablesInv, RoadInv, CounterNext, HandsRemembered,
           raced' = raced \cup {t \in Transfers : MetOn(t)'}
    PROVE  RoadInv'
<1>1. PICK i \in Items, from, to \in {"AVAILABLE", "ON_APPROVAL", "SOLD"} : Counter(i, from, to)
  BY DEF CounterNext
<1>2. UNCHANGED <<transfer, slot>> /\ stock' = [stock EXCEPT ![i] = to]
  BY <1>1 DEF Counter, docVars
<1>3. \A j \in Items : stock'[j] = stock[j] \/ stock'[j] # "IN_TRANSIT"
  BY <1>2 DEF TablesInv, BackroomTypeOK
<1> QED
  BY <1>2, <1>3, OthersKeepRoad

LEMMA HandKeepsRoad ==
    ASSUME TablesInv, RoadInv, HandNext, byHand' = byHand \cup Moved,
           raced' = raced \cup {t \in Transfers : MetOn(t)'}
    PROVE  RoadInv'
<1>1. HandsRemembered /\ \A i \in Items : stock'[i] # stock[i] => i \in byHand'
  BY DEF HandsRemembered, Moved
<1>2. UNCHANGED transfer /\ \A u \in Slots : slot'[u] \in {slot[u], Idle}
  <2>1. CASE PieceMoves
    BY <2>1 DEF PieceMoves, docVars
  <2>2. ASSUME NEW s \in Slots, StockOut(s)
        PROVE  UNCHANGED transfer /\ \A u \in Slots : slot'[u] \in {slot[u], Idle}
    BY <2>2, StockOutWrites DEF docVars
  <2> QED
    BY <2>1, <2>2, HandMoves
<1> QED
  BY <1>1, <1>2, OthersKeepRoad

LEMMA PawnKeepsRoad ==
    ASSUME TablesInv, RoadInv, PawnNext, HandsRemembered,
           raced' = raced \cup {t \in Transfers : MetOn(t)'}
    PROVE  RoadInv'
<1>1. UNCHANGED <<transfer, slot, stock>>
  BY DEF PawnNext, AddCollateral, stockVars
<1> QED
  BY <1>1, OthersKeepRoad

\* A counter and a hand claim nothing for the office.
LEMMA PieceMoveKeepsHandsOff ==
    ASSUME HandsOff, PieceMoves, TakenStep
    PROVE  HandsOff'
<1>1. ASSUME NEW i \in Items, SpokenFor(i)' PROVE SpokenFor(i)
  BY <1>1 DEF PieceMoves, docVars, SpokenFor, ClaimedOnPaper, ClaimedBy, Active, Pending
<1> QED
  BY <1>1, KeepsHandsOff

LEMMA StockOutKeepsHandsOff ==
    ASSUME TablesInv, HandsOff, NEW s \in Slots, StockOut(s), TakenStep
    PROVE  HandsOff'
<1>1. ASSUME NEW i \in Items, SpokenFor(i)' PROVE SpokenFor(i)
  <2>1. CASE ClaimedOnPaper(i)'
    <3>1. UNCHANGED <<transfer, session, pledge>>
      BY StockOutWrites DEF docVars
    <3> QED
      BY <2>1, <3>1, StockOutWrites DEF SpokenFor, ClaimedOnPaper, Active
  <2>2. CASE \E u \in Slots : ClaimedBy(slot'[u], i)
    <3>1. ~ClaimedBy(Idle, i)
      BY NoneAssumption DEF ClaimedBy, Idle
    <3> QED
      BY <2>2, <3>1, StockOutWrites DEF SpokenFor
  <2> QED
    BY <1>1, <2>1, <2>2 DEF SpokenFor, ClaimedBy
<1> QED
  BY <1>1, KeepsHandsOff

\* What a pledge claims is marked if a counter has it.
LEMMA PawnKeepsHandsOff ==
    ASSUME TablesInv, HandsOff, PawnNext, TakenStep
    PROVE  HandsOff'
<1>1. PICK g \in Pledges, i \in Items : AddCollateral(g, i)
  BY DEF PawnNext
<1>2. pledge[g] = None /\ pledge' = [pledge EXCEPT ![g] = i]
      /\ UNCHANGED <<transfer, session, slot>>
  BY <1>1 DEF AddCollateral
<1>3. pledge'[g] = i /\ \A h \in Pledges : h # g => pledge'[h] = pledge[h]
  BY <1>2 DEF TablesInv, BackroomTypeOK
<1>4. ASSUME NEW j \in Items, WithCounter(j), SpokenFor(j)' PROVE SpokenFor(j) \/ Pledged(j)
  <2>1. CASE j = i
    BY <1>2, <1>3, <1>4, <2>1, NoneAssumption DEF Pledged
  <2>2. CASE j # i
    BY <1>2, <1>3, <1>4, <2>2 DEF SpokenFor, ClaimedOnPaper, ClaimedBy, Active, Pending
  <2> QED
    BY <2>1, <2>2
<1> QED
  BY <1>4, KeepsHandsOff

-----------------------------------------------------------------------------
(* The invariant of the shop.                                              *)

LEMMA OfficeInit == Init => OfficeInv
<1> SUFFICES ASSUME Init PROVE OfficeInv
  OBVIOUS
<1>1. \A s \in Slots : slot[s] = Idle
  BY DEF Init
<1>2. Idle \in OfficeRequest /\ Idle.op = "idle" /\ Idle.doc = None /\ Idle.item = None
  BY DEF Idle, OfficeRequest, SlotOps
<1>3. BackroomTypeOK
  <2>1. StockTyped
    BY DEF Init, StockTyped, Statuses
  <2>2. PaperTyped
    <3>1. vreturn \in [VendorReturns -> VendorReturn]
      BY DEF Init, VendorReturn
    <3>2. session \in [Sessions -> Session] /\ transfer \in [Transfers -> Transfer]
      BY DEF Init, Session, Transfer
    <3> QED
      BY <3>1, <3>2 DEF Init, PaperTyped
  <2>3. /\ slot \in [Slots -> OfficeRequest]
        /\ taken \subseteq Items /\ raced \subseteq Transfers /\ byHand \subseteq Items
    BY <1>2 DEF Init
  <2> QED
    BY <2>1, <2>2, <2>3, TypesByTable
<1>4. TablesInv
  <2>1. /\ \A t \in Transfers : TransferHolds(t)
        /\ \A a \in Sessions : SessionHolds(a)
    BY DEF Init, TransferHolds, SessionHolds
  <2>2. \A s \in Slots : RequestHolds(slot[s])
    BY <1>1, <1>2 DEF RequestHolds, TransferOps, SessionOps
  <2> QED
    BY <1>3, <2>1, <2>2 DEF TablesInv
<1>5. RoadInv
  <2>1. \A t \in Transfers : ~MetOn(t)
    BY <1>1, <1>2, NoneAssumption DEF MetOn
  <2>2. \A s \in Slots : StatusIsTrue(slot[s])
    BY <1>1, <1>2 DEF StatusIsTrue, TransferOps
  <2>3. \A i \in Items : OnTheRoad(i)
    BY DEF Init, OnTheRoad
  <2> QED
    BY <2>1, <2>2, <2>3 DEF RoadInv
<1>6. HandsOff
  BY DEF Init, HandsOff, WithCounter
<1> QED
  BY <1>4, <1>5, <1>6 DEF OfficeInv

LEMMA OfficeStep == OfficeInv /\ [Step]_vars => OfficeInv'
<1> SUFFICES ASSUME OfficeInv, [Step]_vars PROVE OfficeInv'
  OBVIOUS
<1>0. TablesInv /\ RoadInv /\ HandsOff /\ HistoryTyped
  BY DEF OfficeInv, TablesInv, BackroomTypeOK, HistoryTyped
<1>1. CASE Step
  <2>1. raced' = raced \cup {t \in Transfers : MetOn(t)'} /\ TakenStep
    BY <1>1 DEF Step, History, TakenStep
  <2>2. byHand' \in {byHand \ Moved, byHand \cup Moved} /\ HandsRemembered
    BY <1>0, <1>1 DEF Step, Work, HandsRemembered, HistoryTyped, Moved
  <2>3. HistoryTyped'
    BY <1>0, <2>1, <2>2 DEF HistoryTyped, TakenStep, Moved
  <2>4. CASE OfficeNext
    <3>1. PICK s \in Slots : Moves(s)
      BY <1>0, <2>4, OfficeMoves
    <3>2. TablesInv'
      BY <1>0, <2>3, <3>1, LookKeepsTables, WriteKeepsTables DEF Moves
    <3> QED
      BY <1>0, <2>1, <2>2, <3>1, <3>2, MoveKeepsRoad, MoveKeepsHandsOff DEF OfficeInv
  <2>5. CASE PawnNext
    BY <1>0, <2>1, <2>2, <2>3, <2>5, PawnKeepsTables, PawnKeepsRoad, PawnKeepsHandsOff
    DEF OfficeInv
  <2>6. CASE CounterNext
    BY <1>0, <2>1, <2>2, <2>3, <2>6, CounterMoves, PieceMoveKeepsTables, CounterKeepsRoad,
       PieceMoveKeepsHandsOff
    DEF OfficeInv
  <2>7. CASE HandNext /\ byHand' = byHand \cup Moved
    <3>1. RoadInv'
      BY <1>0, <2>1, <2>7, HandKeepsRoad
    <3>2. CASE PieceMoves
      BY <1>0, <2>1, <2>3, <3>1, <3>2, PieceMoveKeepsTables, PieceMoveKeepsHandsOff DEF OfficeInv
    <3>3. CASE \E s \in Slots : StockOut(s)
      BY <1>0, <2>1, <2>3, <3>1, <3>3, StockOutKeepsTables, StockOutKeepsHandsOff DEF OfficeInv
    <3> QED
      BY <1>0, <2>7, <3>2, <3>3, HandMoves
  <2> QED
    BY <1>1, <2>4, <2>5, <2>6, <2>7 DEF Step, Work
<1>2. CASE UNCHANGED vars
  <2>1. UNCHANGED <<stock, itemBranch, transfer, session, vreturn, pledge, released, slot,
                    taken, raced, byHand>>
    BY <1>2 DEF vars, stockVars, docVars
  <2>2. BackroomTypeOK'
    BY <1>0, <2>1 DEF TablesInv, BackroomTypeOK
  <2>3. TablesInv'
    BY <1>0, <2>1, <2>2 DEF TablesInv, TransferHolds, RequestHolds, SessionHolds
  <2>4. RoadInv'
    BY <1>0, <2>1 DEF RoadInv, MetOn, StatusIsTrue, OnTheRoad
  <2>5. HandsOff'
    BY <1>0, <2>1 DEF HandsOff, WithCounter, SpokenFor, ClaimedOnPaper, ClaimedBy, Active, Pending
  <2> QED
    BY <2>3, <2>4, <2>5 DEF OfficeInv
<1> QED
  BY <1>1, <1>2

LEMMA ShopKeepsInv == Shop => []OfficeInv
BY OfficeInit, OfficeStep, PTL DEF Shop

\* What TLC explores is a part of it.
LEMMA PartOfTheShop == Spec => Shop
<1>1. [Next]_vars => [Step]_vars
  BY DEF Next, Step
<1> QED
  BY <1>1, PTL DEF Spec, Shop

-----------------------------------------------------------------------------

\* Every handler of the office, and every step of the counters, of a hand and of the
\* pawn desk, leaves rows and pieces in the states the tables provide for.
THEOREM BackroomTypeCorrect == Shop => []BackroomTypeOK
<1>1. OfficeInv => BackroomTypeOK
  BY DEF OfficeInv, TablesInv
<1> QED
  BY <1>1, ShopKeepsInv, PTL

\* However many pieces, transfers and requests there are, a piece that is
\* IN_TRANSIT is on a transfer that receiveTransfer will accept, unless two
\* requests met on a transfer of this very piece, or the last that moved it was a
\* hand.
THEOREM PiecesArrive == Shop => []NothingIsLostInTransit
<1>1. OfficeInv => NothingIsLostInTransit
  BY DEF OfficeInv, RoadInv, OnTheRoad, NothingIsLostInTransit
<1> QED
  BY <1>1, ShopKeepsInv, PTL

\* The documents of the office, whose handlers write a status without a condition,
\* never move a piece that a counter has sold or lent, unless one of them has spoken
\* for this very piece ever since the counter took it, or since it was pledged.  What
\* else moves it is a claim of the counters, or a movement or an edit by hand.
THEOREM CountersKeep == Shop => CountersKeepTheirPieces
<1> DEFINE Change ==
             \A i \in Items :
                 WithCounter(i) /\ stock'[i] # stock[i]
                    => i \in taken \/ i \in byHand' \/ ByACounter(i)
<1>1. OfficeInv /\ [Step]_vars => [Change]_stock
  <2> SUFFICES ASSUME OfficeInv, Step, NEW i \in Items \ taken,
                      WithCounter(i), stock'[i] # stock[i], i \notin byHand'
               PROVE  ByACounter(i)
    BY DEF vars, stockVars
  <2>0. TablesInv /\ HandsOff
    BY DEF OfficeInv
  <2>1. CASE OfficeNext
    <3>1. PICK s \in Slots : Moves(s)
      BY <2>0, <2>1, OfficeMoves
    <3>2. Write(s) /\ ClaimedBy(slot[s], i)
      BY <3>1 DEF Moves, Look, stockVars, Write
    <3>3. SpokenFor(i)
      BY <3>2 DEF SpokenFor
    <3> QED
      BY <2>0, <3>3 DEF HandsOff
  <2>2. CASE PawnNext
    BY <2>2 DEF PawnNext, AddCollateral, stockVars
  <2>3. CASE CounterNext
    <3>1. PICK j \in Items,
               from, to \in {"AVAILABLE", "ON_APPROVAL", "SOLD"} :
             /\ Counter(j, from, to)
             /\ <<from, to>> \in {<<"AVAILABLE", "SOLD">>, <<"AVAILABLE", "ON_APPROVAL">>,
                                  <<"ON_APPROVAL", "SOLD">>, <<"ON_APPROVAL", "AVAILABLE">>,
                                  <<"SOLD", "AVAILABLE">>}
      BY <2>3 DEF CounterNext
    <3>2. stock \in [Items -> Statuses]
      BY <2>0 DEF TablesInv, BackroomTypeOK
    <3>3. j = i /\ stock'[i] = to /\ stock[i] = from /\ UNCHANGED <<docVars, slot>>
      BY <3>1, <3>2 DEF Counter
    <3> QED
      BY <3>1, <3>3 DEF WithCounter, ByACounter
  <2>4. CASE HandNext /\ byHand' = byHand \cup Moved
    BY <2>4 DEF Moved
  <2> QED
    BY <2>1, <2>2, <2>3, <2>4 DEF Step, Work
<1>2. [][Change]_stock => CountersKeepTheirPieces
  BY DEF CountersKeepTheirPieces
<1>3. Shop => [][Change]_stock
  <2> HIDE DEF Change
  <2> QED
    BY <1>1, ShopKeepsInv, PTL DEF Shop
<1> QED
  BY <1>2, <1>3
=============================================================================
