# TLA+ models of the JMS back end

JMS is an ERP for jewellery shops: a React front end, an Express/TypeScript
back end (`src/jms-backend-main`) and PostgreSQL through Prisma. The back end
keeps no state of its own. Every request runs a service method that reads some
rows, decides, and then writes in one `prisma.$transaction`; what goes wrong in
such a program goes wrong *between* the reads and the writes, when another
request commits there. The models are about that.

## 1. Inventory

| Part | State | Operations | What must hold |
|---|---|---|---|
| Sales invoices, `modules/sales-invoices` | `sales_invoices`, `sales_invoice_items` | create, update, confirm, cancel | a piece is sold once; a confirmed invoice keeps its pieces and totals; status only advances |
| Pricing, `modules/pricing` | totals and line prices of an invoice | calculate | only drafts are priced |
| Metal rate lock, `modules/metal-rates` | one rate snapshot per invoice | lock | one snapshot, taken before pricing |
| Stock, `modules/inventory-items`, `stock-movements` | `inventory_items.status`, `branch_id`; `stock_movements` | claimed and journalled by every counter; moved and edited by hand | the journal explains the status of every piece |
| Approvals, `modules/approval` | `approvals`, `approval_items` | create, update, issue, cancel, return, purchase, deposits | an issued slip holds its pieces; one outcome, for all of them; nothing is stranded at a customer |
| Sales payments, `modules/sales-payments` | `sales_payments`, settlement columns of the invoice | record, reverse | never overpaid; columns equal the sum of the rows; a next number exists |
| Document numbers, `repositories/documentSeries.repository.ts` | `financial_years`, `document_series` | take the next number | no number twice; each document in its year; no request turned away |
| Sales returns and refunds, `modules/sales-returns`, `sales-refunds` | `sales_returns`, `sales_refunds` | request, approve, process, cancel; refund, reverse | pieces come back once, to the invoice that sold them; money only for pieces that came back, and once |
| Gold exchanges, `modules/gold-exchanges` | `customer_gold_exchanges`, credit of the invoice | create, value, apply, cancel | the credit of an invoice is one applied exchange |
| Transfers, stock audit | `inventory_transfers`, `stock_audit_*` | request, approve, reject, dispatch, receive; open, scan, submit, reconcile, cancel | a sold or lent piece stays where it is; nothing is lost on the road |
| Purchase returns, job work, third-party girvi | their tables and `inventory_items.status` | process; issue material; pledge, release, close | the same |
| Purchase orders, vendor bills, vendor payments, debit notes | `purchase_orders`, `purchase_bills`, `vendor_payments`, `vendor_debit_notes` | receive; create, edit, submit, approve, cancel; pay, reverse; debit | billed ≤ received ≤ ordered; a bill's columns follow its payments and notes |
| Girvi (pawn loans), `modules/girvi` | `girvi_loans`, `girvi_collections`, `girvi_collaterals`, `girvi_settlements` | collect, reverse, renew, update, cancel, pledge, settle | settled once; pledges leave when the principal is repaid |
| Approval deposits | `approval_deposits` | record, reverse | deposits within what is required; counted once |
| Users, roles, masters, tags, images, reports, HTTP layer | rows without a protocol | CRUD, queries | — |

The parts meet in the database only. Invoices, approvals, returns, transfers
and audits all write `inventory_items.status`; payments, exchanges, approvals
and returns all write the settlement columns of an invoice; invoices, approvals
and deposits all take numbers from `document_series`. There are no callbacks
and no background jobs that touch the tables. The hard behaviour is:

- reads before a transaction that are stale when it writes;
- transactions at READ COMMITTED that sum or count rows without locking them;
- rows locked in different orders, so that transactions wait in circles;
- find-or-create by requests that race for the first row;
- a transaction that fails half way, after some of its claims were made;
- dates: what the code does on 1 April and between January and March;
- a pool of database connections, of which one request may need two.

`PROJECT.json` lists every hazard at its line, with the properties that cover
it or the reason why none does yet.

## 2. Modules

```
ItemStock ← Requests ← SalesInvoices ← Approvals ← Showroom → Custody
                          ↑       ↑ MCSales         ↑ ShowroomRaces ← MCShowroom
                          |
                   SalesReturns ← MCReturns
ConfirmLocks → Custody      SalesPayments     DocumentSeries
   ↑ MCConfirmLocks            ↑ MCPayments      ↑ MCSeries
Backroom ← MCBackroom       VendorBills ← MCVendorBills     GirviLoans ← MCGirvi

proofs:  SumTheorems ← PaymentsProofs (and SalesPayments)
                     ← GirviProofs    (and GirviLoans)
                     ← VendorProofs   (and VendorBills)
                     ← CounterProofs  (and ShowroomRaces, SalesReturns)
                     ← LocksProofs    (and ConfirmLocks)
         DocumentSeries ← SeriesProofs
         Backroom ← BackroomProofs
```
(← is EXTENDS, → is INSTANCE)

**ItemStock** has the status and branch columns of the pieces and their
journal. `Claim` is the conditional `updateMany` whose count is checked, `Book`
is `stockMovement.create`, `Sellable` is the read that validates a payload.

**Requests** holds the handlers in flight. A slot of `call` remembers what a
handler has read (`Begin`) until its transaction commits (`Finish`) or it
throws (`Fail`); `Calls` says how many handlers may overlap.

**SalesInvoices** is the POS counter. Each handler is a read action
(`ReadForConfirm`, ...), where needed a check of the payload, and a write action
(`ConfirmInvoice`, ...) that changes what the handler changes even if the row is
no longer what was read. Money is reduced to *provenance*: `totals` says which
lines the header adds up and whether the payload, the pricing engine or a slip
supplied the prices.

**Approvals** is the approval counter on the same pieces: create, replace the
lines, issue, cancel, return, purchase (which writes a CONFIRMED invoice).
`rows` counts generations of `approval_items` rows, because a return updates its
rows by ids that an edit of the slip destroys.

**Custody** is the abstract specification: where each piece is (the shop, a
slip, an invoice), and that documents move pieces as a whole. **Showroom**
composes the two counters and states that they implement `CustodySpec` under
the mapping "the holder of a piece is the document of its last movement, unless
it is AVAILABLE". **ShowroomRaces** adds a history variable that remembers whether
two requests ever had one slip in hand at the same time, and states what the
slips keep as long as that has not happened.

**ConfirmLocks** opens up what SalesInvoices takes as one step: the
transactions of confirm, price and cancel, one row lock at a time, with
PostgreSQL's deadlock detector. It implements `Custody` again, by `soldBy`.

**SalesReturns** is the return desk next to the POS counter. A return is
requested, approved, processed or cancelled, each on a status read earlier; only
`ProcessReturn` claims its pieces (from SOLD). Refunds sum what was refunded
before their transaction opens. Each line is worth one unit.

**SalesPayments** follows `createPayment` and `reversePayment` statement by
statement — sum, count, insert and write — over small amounts of money, with
confirm and cancel of the invoice. Gold exchanges are there too: they write the
credit that says what remains payable, in the same columns. So are the deposits of
approvals: a slip is the invoice its purchase will create, not there yet while the
slip is out, and the purchase sums the deposits and books them as the invoice's
first payment. (A slip that is returned instead is, here, one that is never bought.)

**DocumentSeries** is the number generator: financial year and series are found
or created, the number is taken under FOR UPDATE, the document is inserted under
its unique number. The two unique indexes are those of
`prisma/migrations/20260819124400_database_redesign_constraints`. Time is
counted in January–March and April–December periods, which is all the code
looks at. Approvals catch a failure and number by date; invoices do not.
`Connections` is the pool of `database/client.ts`: an approval's transaction
holds one connection and its number needs another, so approvals can wait for
each other until the timeout of a transaction (`Expire`) gives one back, while
the handler goes on and finds its transaction closed (`FindExpired`).

**Backroom** has every update of the status of a piece, on both sides. The documents
of the office are transfers, stocktakes, vendor returns, job work, loans of customers
and loans at a lender. None of them claims the piece; they look at it, at the latest
when their document is made, and write by id. Then there is what a *hand* writes
without a document: `POST /stock-movements` (`PostMovement`, and `StockOut`, the one
movement for which the status that was read matters) and `PUT /inventory-items/:id`
(`EditItem`). They ask for no slip, invoice or document and write over any status, SOLD
and ON_APPROVAL included. The counters of Showroom and the return desk of
SalesReturns appear as what they do to one piece (`CounterNext`: conditional, from
AVAILABLE, ON_APPROVAL or SOLD). Creating a piece (by hand, by a receipt of an order
or of job work) makes a new row and deleting one is possible only before its first
movement; neither is modelled. The journal rows of all these handlers are left out: only
reports and that deletion read them, and SalesReturns and Showroom keep the journal of
the sales.

**VendorBills** is one order line with its receipts, bills, vendor payments and
the debit notes of purchase returns; **GirviLoans** one pawn loan with
collections and collaterals. Prices are one unit per piece, and interest is a
counter that `Accrue` advances.

In SalesPayments, VendorBills and Backroom the bounds of a run are kept apart from the program:
`Shop` is the specification of what may happen, and `Spec`, which TLC explores, is
`Shop` with the bounds of `Next` (the lemmas `PartOfTheShop` say that it is a part).
The theorems are about `Shop`.

### Granularity

- READ COMMITTED: a statement sees what is committed when it runs. Reads before
  a transaction are therefore an action of their own.
- A conditional `updateMany` locks the rows it changes until COMMIT, so its
  condition, once seen true, is still true at COMMIT. That makes the claims of
  one transaction one step, and it makes the row status tested under
  `SELECT ... FOR UPDATE` part of that step. ConfirmLocks drops this reduction
  for the confirm and shows that the atomic step is what results.
- `createSalesInvoice` and `createApproval` are one step. Nobody can name the
  new row before it is inserted; what was read of the pieces is only advisory,
  because confirm and issue claim them again.
- The list of pieces of a payload is checked in one step, the loop over it
  does not interleave.
- A unique index that makes the second of two inserts wait and then fail is a
  guard on the insert.
- `Fail` and `Broken` may end any request between its read and its commit:
  rollback, deadlock victim, Prisma's timeout, a crash of the server.

Left out on purpose: header fields that no property reads (customer, due date,
remarks), duplicate pieces within one payload, the slip statuses
`WITH_CUSTOMER` and `EXPIRED` (no code writes them), a purchased line whose unit
price is overridden, and branch changes of a piece at the counters (transfers,
movements and edits change `itemBranch` in Backroom). Showroom, ConfirmLocks and
SalesReturns are about the counters and the return desk only: the documents of the
office and the hands of Backroom are outside of them, and what those modules say of
pieces (`ConfirmedInvoicesHoldTheirItems`, `LedgerIsCustodyHistory`,
`ReturnsUndoTheirSale` and so on) holds as long as nobody posts a movement or edits the
status of a piece that is on an invoice or a slip, and no document of the office was
under way on it. What happens otherwise is the subject of Backroom.

Definitions whose comment begins with *Mutant* are plausible mistakes: each
differs from the definition after it in one guard, count or order, and breaks
the property `PROJECT.json` names with it. They are used by no action.

## 3. Model checking

| Run | Instance | Shows |
|---|---|---|
| Showroom | 1 invoice, 2 slips, 2 pieces, 2 overlapping requests, one edit of a slip's lines | pieces are sold once and by document, every sale is invoiced, the journal is a chain of custody, status only advances, both counters implement Custody; a slip on which no two requests met holds its pieces and ends as a whole |
| ConfirmLocks | 3 transactions of any kind on 2 invoices that share 2 pieces | row-by-row locking is still atomic, requests on one invoice deadlock only with pricing, and every request is answered |
| Payments | two invoices of 2, one of them from a slip that asks for a deposit of 3; 2 payments and 2 deposits of 1 or 2; 2 exchanges worth 1 or 3; 2 overlapping requests | an invoice is overpaid, or its columns differ from its rows, only if two requests met on it; its credit is one applied exchange; a purchase books what was deposited; the counted payment number never gets stuck |
| Numbers | 3 requests (2 of one branch), invoices or approvals, January of one year to March of the next, a new company or one with numbered documents, 2 connections | no invoice number twice although years and series are created by racing requests; a series never repeats a number; the fallback numbers without gaps; every request is answered |
| Returns | 1 piece, 2 invoices, 2 returns, 2 refunds, 1 POS request next to 2 at the desk | refunds only for pieces that came back; and unless two requests met on a piece at the desk, pieces return to the invoice that sold them and no invoice is refunded more than its lines |
| Backroom | 1 piece, 2 branches, 2 transfers, a stocktake, a vendor return, a job order, a customer's and a lender's pledge, movements and edits by hand, 2 overlapping requests | a piece on the road can be received unless two requests met on a transfer of it or a hand put it there; a piece that was sold or lent is moved by a counter or by hand, and by a document only if one has spoken for it ever since the counter took it, or since it was pledged |
| VendorBills | 2 ordered, 2 bills, 2 payments, 1 return, each request for 1 or 2, 2 overlapping requests | billed ≤ received ≤ ordered while no two requests met; a bill nobody met on is what its payments and notes say |
| Girvi | principal 1 or 2, interest up to 1, 2 collections, 2 collaterals, 2 overlapping requests | one payment settles the loan; everything pledged leaves when the principal is repaid, not before |
| TotalsRace, Overpay, YearTurn, OnApproval | | see section 4 |

Most handlers read without a lock and write without a condition, so much of what
one would like to state fails when two requests meet on one row. Instead of a run
with a single request, the modules carry *history variables* that record the
meeting, and the properties say what holds wherever it has not happened, while
requests overlap everywhere else: `crossed` (SalesReturns: two requests of the
desk on a piece; GirviLoans: a settlement and a request that changes the loan),
`late` (GirviLoans: a collection reversed after the settlement), `raced`
(SalesPayments: by invoice; Backroom: by transfer), `taken` (Backroom: the pieces
a counter took while a document or a request spoke for them, or that were pledged when
a counter had them, until nothing speaks for them any more), `byHand` (Backroom: the
pieces whose last change of status was made by hand), `met` (VendorBills: by document; a receipt that names its line twice meets
itself). The excuses are as small as TLC allowed: RefundsFollowPieces,
NextNumberIsFree, SettledOnce and all of Numbers have none, and two settlements, or
a settlement and a collection, are not excused in GirviLoans. Where a property
excuses the very meeting that a hazard names, the code does not survive it: a request
that was under way when a counter took its piece writes over SOLD or ON_APPROVAL
(OnApproval shows one such run), and what Backroom shows is that this ends with the
documents that were under way.

Why the bounds are enough to be interesting: a conflict needs two requests and
one shared row, an all-or-nothing failure needs two pieces of which one is gone,
a document that takes a piece from another needs two documents of a kind. The
circular wait of ConfirmLocks can have two or three members. An invoice of 2 is
filled by 1 + 1 and missed by 1 + 2; an exchange of 3 is worth more than any
invoice, and deposits of 3 more than the purchase can book. Three requests and two
connections let two approvals hold both while a third waits. `MaxEdits` bounds how often
the lines of a slip are replaced, `LastPeriod` the calendar, `MaxInterest` what accrues.
Some bounds end a run where its properties have little left to say: `ExchangesGoOn`
(SalesPayments) stops exchanges once requests met on an invoice, and `OneConcern` there
keeps purchases and exchanges, deposits and the invoices of the counter, in separate
behaviours, since they share no row; `MaxLoad` (Backroom) limits what there is at a
time: documents put to use, requests in flight, and pieces and transfers that are
excused (a hand counts for two) are four together, so that two requests overlap on two
documents, or meet on one, or a hand writes next to a document and a request, and a
behaviour goes on when a request is done or an excuse is over; `MaxMet` (VendorBills)
cuts off a run in which requests met on a second document. All of them only cut
behaviours off. In Numbers the requests of one branch arrive in the order of their names, which loses nothing: they differ in
nothing else. Deadlock is not checked in any run: a shop in which every document
is settled, or every request of the instance answered, has nothing more to do.
Symmetry is used over rows, pieces and request slots in the runs without
liveness.

Fairness. ConfirmLocks: the process goes on with every handler it started, the
database with every statement whose lock is free, and the deadlock detector
runs when `deadlock_timeout` has passed: weak fairness of each. DocumentSeries:
weak fairness of every step of a handler and of `Expire`, which is a timer of
Prisma's; waiting for a series row or a connection is a step that is not enabled.
Without `Expire` the requests can wait for ever, each with one connection: the
mutant of that property is exactly this. Failures and the calendar are under no
fairness. The other modules state no liveness.

## 4. Where code and documents differ

| Run | What happens |
|---|---|
| TotalsRace | `calculateInvoicePricing` and `updateSalesInvoice` test DRAFT before they write and do not ask again: overlapped by a confirm, they rewrite a CONFIRMED invoice. CHANGELOG.md:399 calls its pricing immutable. |
| Overpay | Two payments sum before either is inserted, and both fit. CHANGELOG.md:364 says the transaction prevents it; at READ COMMITTED it does not. (Two deposits both fit in the same way, which CHANGELOG.md:60 says is protected.) |
| OnApproval | A transfer is requested for a piece on the shelf, the piece is issued on approval, the transfer is dispatched: the piece is IN_TRANSIT while the customer has it. CHANGELOG.md:70 says an approval prevents transfers and job work of its pieces. |
| YearTurn | The year row is created with `isCurrent: true` and nothing resets it, while a unique index allows one such row per company. On 1 April no row contains today, the new one cannot be inserted, and every invoice is refused from then on (approvals go on with numbers by date). |

What the history variables excuse can be seen by removing the excuse from a
property. The shortest counterexamples are these:

- a cancel of a slip, overlapped by its issue, leaves its pieces ON_APPROVAL on a
  cancelled slip, which no endpoint takes back (`approval.service.ts:485`); an
  update replaces the lines of a slip that was issued since it was read (`:284`);
- two payments, or a payment and an exchange, leave the settlement columns of the
  later writer, which lack the other (`salesPayment.service.ts:94`);
- a cancel of a return is written over PROCESSED; the piece, sold again by
  another invoice, is then returned to the first (`salesReturn.service.ts:279`);
  two refunds are both within the return (`salesRefund.service.ts:43`);
- a rejection is written over a dispatch, and nobody can receive the piece
  (`inventoryTransfer.service.ts:140`); a stocktake, a vendor return, job work or a
  settled loan writes its status over a piece that was sold
  (`stockAudit.service.ts:232`, `purchaseReturn.service.ts:196`,
  `jobWork.service.ts:151`, `girvi.service.ts:738`);
- a movement posted by hand makes a piece AVAILABLE that is sold or out on approval, in
  one request and without looking at its status (`stockMovement.service.ts:84`), and so
  does an edit (`inventoryItem.service.ts:146`);
- one receipt with two rows for the same line is larger than what was ordered
  (`purchase.service.ts:469`), without any second request;
- a renewal, or a cancel, reopens a loan that was settled (`girvi.service.ts:521`),
  and a collection can be reversed when the pledges are gone (`:474`);
- two deposits are both within what is required (`approval.service.ts:826`);
- every branch prints `APP-00001` (`approval.service.ts:34`).

Not a disagreement but worth knowing: an update after pricing replaces the
totals and leaves `pricingCalculated` set, so an invoice can be confirmed at the
payload's prices without being priced again. A payment or a reversal on a vendor
bill recomputes what it owes without its debit notes (`vendorPayment.service.ts:134`),
which BillFollowsPayments allows and bounds. `approveGirviLoan` asks for DRAFT, a
status no code sets. A deposit can be reversed after the purchase has booked it as a
payment (`approval.service.ts:971`), and the payment stays; the status LATE of
SalesPayments tells such a deposit from one reversed in time (the column has REVERSED
for both).

## 5. Proofs

Every theorem is about all values of the constants: any number of pieces,
branches, documents, rows and overlapping requests.

| Module | Theorem | States |
|---|---|---|
| CounterProofs | `TypeCorrect` | `ShowroomSpec => []ApprovalTypeOK` |
| | `ConfirmedInvoicesHold` | pieces on a confirmed invoice are SOLD, and by it |
| | `NothingIsSoldTwice` | no two confirmed invoices share a piece |
| | `StatusAdvances` | cancelled stays cancelled; confirmed is at most cancelled |
| | `EverySaleIsInvoiced` | each SALE belongs to an invoice that lists the piece |
| | `JournalIsHistory` | each journal is an unbroken chain of custody |
| | `CountersImplementCustody` | Showroom implements CustodySpec |
| | `SlipsSettleWhole` | a slip becomes RETURNED or PURCHASED with all its pieces, however requests interleave |
| | `SlipsHoldTheirPieces` | a slip on which no two requests met holds its pieces while it is out, and only then |
| | `ReturnsAnswerIssues` | a piece comes back by the slip that took it out, with the same proviso |
| | `SlipsEndWhole` | the stricter half of Custody: slips lend once and end as a whole, with the same proviso |
| | `ReturnsTypeCorrect` | `ReturnsSpec => []ReturnsTypeOK` |
| | `RefundsAreForPieces` | money is refunded only for a return all of whose pieces came back |
| | `ReturnsUndoSales` | unless requests met on a piece, a return takes back what its own invoice sold |
| | `RefundsStayWithinSale` | unless requests met on a piece, all refunds of an invoice stay within its lines |
| PaymentsProofs | `PaymentsTypes` | `Shop => []TypeOK`; no column becomes negative |
| | `PaymentsNeverExceed` | an invoice is overpaid, or a slip over-deposited, only if requests met on it |
| | `SettlementIsKept` | the settlement columns of any other invoice are what its payments add up to |
| | `CreditIsKept` | its credit is its one applied exchange |
| | `DepositsAreKept` | its first payment is what had been deposited |
| | `PaymentsNeverStick` | the counted number of the next payment is never taken |
| SeriesProofs | `SeriesTypeCorrect` | `Spec => []TypeOK` |
| | `NoNumberTwice` | a series is ahead of all it gave out and gave out nothing twice |
| | `InvoiceNumbersNeverCollide` | no invoice is refused by the unique index on its number |
| | `NumberedInTheYear` | each number is of the year of its date |
| | `DatesHaveNoGaps` | the approvals numbered by one date are 1, 2, 3, ... |
| | `OnlyThePoolStopsRequests` | while requests are in flight, one can take its next step or approvals have the whole pool |
| GirviProofs | `GirviTypeCorrect` | `Spec => []GirviTypeOK` |
| | `PledgesLeaveWhenRepaid` | pledges leave when the principal is repaid, all of them, unless a change met the settlement |
| | `LoanIsSettledOnce` | a loan has one settling payment |
| VendorProofs | `VendorTypes` | `Shop => []VendorTypeOK` |
| | `BillsFollowReceipts` | billed ≤ received ≤ ordered until two requests meet |
| | `BillsFollowPayments` | a bill nobody met on agrees with its payments and debit notes, whatever meets elsewhere |
| LocksProofs | `LocksTypeCorrect` | `Spec => []TypeOK` |
| | `ConfirmedInvoicesAreSold` | a confirmed invoice has every piece on it sold by it |
| | `OneInvoiceCannotDeadlock` | confirms and cancels of one invoice never wait in a circle |
| | `NoSilentStandstill` | while transactions run, one can execute its next statement or some wait in a circle |
| | `ConfirmIsAtomic` | ConfirmLocks implements CustodySpec: confirming row by row is one sale |
| BackroomProofs | `BackroomTypeCorrect` | `Shop => []BackroomTypeOK` |
| | `PiecesArrive` | a piece on the road can be received, unless two requests met on a transfer of this piece or a hand put it there |
| | `CountersKeep` | no document of the office moves a piece that was sold or lent, unless one has spoken for this piece ever since the counter took it or it was pledged; all else that moves it is a claim of a counter, or a hand |

Assumptions, all of them named in the modules and evaluated by TLC:
`NoneAssumption` (NULL is no row; one in ItemStock, one in Backroom), `LinesAssumption`
(an invoice has finitely many lines, at least one; NULL is no row), `PledgesAssumption`
(pledges to a lender are pledges), `InvoicesAssumption` (invoices are documents,
baskets are not empty), `SlipsAssumption` (slips are documents and no invoices),
`ReturnsAssumption` (returns are documents and no invoices; pieces, returns and
refunds are finitely many; a refund is of a positive amount), `PaymentsAssumption`
(invoices created by purchases are invoices, NULL is none; requests are finitely
many; totals, required deposits and amounts are numbers, a payment positive),
`SeriesAssumption` (each request has a branch, what was numbered before is finite,
the calendar is not empty), `GirviAssumption` (a principal is positive; collections
are finitely many), `VendorAssumption` (rows of different tables have different
identities, NULL is none; bills, payments and returns are finitely many; what is asked
for is positive). Finitely many is what the tables are; it is what sums need.

**Sums.** Half of the properties compare a column with a sum over rows. The community
modules define `SumFunctionOnSet` by a fold, which is a recursive function on subsets;
what it computes would be an induction over an operator. SumTheorems gets around this
with smallest counterexamples: a set of subsets has a member none of whose proper
subsets is in it (`LeastSubset`, from the well-foundedness of strict subsets), and
such a member contradicts the equation of the fold. `FoldExists` shows in this way that
the recursive function exists, `FoldsAgree` that its values do not depend on the set it
is taken over, and then `SumRemove` (any element may be taken out first), `SumAdd`,
`SumSame`, `SumNat`, `SumMonotone` and `SumWithin` (what is bounded by disjoint parts
of a set adds up to no more than the set has). All other proofs use only these.

**The counters.** CounterProofs has three parts: sales and slips as Showroom runs them,
the races of ShowroomRaces, and the return desk next to the POS counter, which rests
on the lemmas of the first. `ClaimAndBook` says once what a claim followed by its
movements does to every piece (`Moves`). `StockStep` shows that only four handlers
touch the pieces — issue, return, confirm, purchase — each by one such move; all
other steps leave stock and journal alone, which keeps every later case split at
five cases instead of twenty-five. Three invariants are built on top of each other:

- `SaleInv`: types and `ConfirmedInvoicesHoldTheirItems`. This is inductive
  because no move starts from SOLD (`SoldStaysSold`): a confirm that runs with
  stale reads still claims from AVAILABLE.
- `JournalInv`: types, `SalesAreInvoiced` and `LedgerIsCustodyHistory`. A chain
  ends in the piece's status, and a move's origin is that status, so the new
  movement fits; `InvoiceStep` gives that lines of a confirmed or cancelled
  invoice never change.
- `HolderInv`: adds `HeldByDocument`, that a piece that is out was last moved by
  a slip and one that is sold by an invoice. Without it the refinement mapping
  could name a NULL document as a holder. For the abstract Sell one also needs
  that an invoice that was not confirmed holds nothing (`UnsoldHoldsNothing`),
  which follows from `SalesAreInvoiced`.

**Slips.** `RowsInv` says that the row ids a request has read name the lines it has
read: an edit takes new ids, so ids that still match show that the lines do. From that
alone `SlipsSettleWhole` follows, whatever interleaves, since a return counts the rows
it updated. The other three theorems are of RacesSpec, by `RacesInv`: while no two
requests have met on a slip, the status and the lines a request has read are still
those of its slip (`SlipReads`), because only the request that has the slip in hand
writes it. Two requests that overlap on *different* slips cannot disturb one piece:
what a slip has out was last moved by it (`HeldByDocument`). `SlipsEndWhole` is the
refinement of `SlipsMoveWhole`; a return or a purchase moves the pieces of the
lines it read, and these are all the pieces the slip holds.

The movement type SALE_RETURN belongs to ItemStock and so to these theorems:
`LedgerIsCustodyHistory` reads it, although Showroom itself never books one.

**The return desk.** `RefundsFollowPieces` reads the refund and the journal, and a
refund is decided long before it is written, on a return that may have been
overwritten since. The invariant `DeskHolds` therefore carries the fact through
every hand: a return that is PROCESSED has `Came` (each of its pieces has a
SALE_RETURN by it), so has the return of a refund request in flight, and the return of
a refund. It survives every other request because the journal only grows and
the lines of a return never change (`RowsKept`), even where its status goes back.

`ReturnsUndoTheirSale` and `NeverRefundedTwice` need more, in `SafetyInv`. `History`
holds whatever meets: a return was asked for pieces its invoice had sold. `Orderly`
holds until two requests of the desk meet on a piece: a piece is in one active return,
what a request has read of its return and its refunds is still so, and while a return
is due the last movement of its pieces is the sale it is for. The last part is where
the POS counter comes in, which is never excused: it could only disturb it by
selling the piece again, and a claim needs it AVAILABLE; by the chain of custody, what
follows a SALE in a journal is a SALE_RETURN. For a step of one request the
others are bystanders: their pieces, returns and refunds are disjoint from its own,
so their part of the invariant carries over by name (`OwnPieces`, `OwnReturn`). The
bound on refunds is `SumWithin`: the returns that were paid out have disjoint lines
among the lines of the invoice.

**Payments.** `PaymentsInv` is one invariant for all the books. `RowsOK` and `Holds` are
true whatever meets: references between rows, and what a request knows that nobody
can take away. For each invoice outside `raced` there is `Alone` (one request at most has it
in hand), `Books` (the four properties, of this invoice) and `Mine`: what the request
has read — the sum of the payments, the payable amount, that no exchange is applied —
is still true. A step writes rows of its own invoice only. For every other invoice it
is a bystander's step: none of its rows changes (`Same`), so neither do the sums
over them (`SameSums`) nor its books, and this is proved once instead of once per
action. For its own invoice the request is alone, `Mine` says that the sum it adds to
is the sum of the rows, and `SumAdd` or `SumRemove` gives the new one. A race on one
invoice thus says nothing against any other, which is what the properties claim.

`Counted` says that no number is larger than the count of payments, and `Holds` that a
number in flight is at most one larger: it was when it was counted, and the count
never falls, since reversed payments are counted too. The number of the next payment
is then larger than all, with no excuse.

**Document numbers.** `SeriesInv` has, besides the types, what each request has in
hand at its line of the code (`Progress`), that two requests at one series have
neither its lock nor one number in common (`Apart`), that there is one year and one
invoice series for each branch (`OneSeries`, from the two unique indexes and because
a year once created stays the current one), and that every printed invoice number is
behind its series and in nobody's hand (`PrintedByASeries`, `Behind`). `DatesInv`
says that the numbers of a date are 1..n and that a number in flight is at most
n + 1; of `SeriesInv` it needs the types and that finitely much is printed.

`OnlyThePoolStopsRequests` is about waiting. Whoever locks a series row has every
connection he needs until he commits, so the holder of a row always goes on. Where nobody
can, nobody is in getNextNumber's transaction, and a request that waits can only
wait for the pool; since it gets none, the transactions createApproval has opened
are at least as many as the connections. `TxInv` supplies that an approval in flight has
such a transaction, open or timed out. The second alternative is real: with two
connections, two approvals that arrive together are in it, until the timeout. It is the
safety half of `EveryRequestIsAnswered`, and says that this liveness hangs on Prisma's
timeout and on nothing else. Requests are assumed to be finitely many.

**Loans.** `OnePayment` is inductive because the unique index of the settlement admits
one insert. For the pledges, `LoanInv` says what a settlement in flight has seen
(`Insight`): that what it pays and what was collected cover the principal, and which
pledges there are. Overlapping collections only add to what is repaid, so it stays true
without an excuse for them; the requests that could spoil it are those that change
the loan, and `NoChangeIsDue` says that none of them is left in flight once the loan
is settled, unless it met the settlement.

**Buying.** `VendorInv` is built like `PaymentsInv`: `Books`, `Alone` and `Mine` of each
bill outside `met`. The order adds a second level. As long as nothing has met, at most one request
has the order in hand, and `Asked` says that what it was promised — room for a
receipt, or received goods that are not billed yet — is still there. Requests
that do not have the order in hand cannot use it up: they leave the received quantity,
and change a bill only so that no more is billed (`BilledShrinks`). A receipt that
names the line twice is promised its room twice, which is why it counts as a meeting. `BillOnlyStep`
is the one argument for all handlers that write a bill, and `NotedOnce` (the unique
index on debit notes) makes each return count once. `WriteStep` and `TurnStep` split
every action into what it writes and the general fact about bystanders.

**Row locks.** `LocksInv` describes a transaction in the middle of its statements by its
locks and by what its plan still has to lock. A confirm or cancel locks its invoice
before anything else and no row twice (`InvoiceFirst`), so while it runs nobody else can
change the invoice. `ConfirmHolds` says of each of its pieces that it is either locked
and was unsold when locked, or still in the plan: with the plan at its end, every piece
is locked and unsold, which is what the commit needs to be one sale of all of
them. A lock that is held keeps this true, since another transaction changes only rows
it has locked (`Bystander`). `DraftSellsNothing` shows that a sale by the invoice is its
first. The confirms of one invoice cannot wait in a circle, because whoever holds
something there holds the invoice row, which has one holder. The plans come in any
order of the lines; `OrdersCover` and `ConfirmPlanShape` say of every such order that it
names each piece once, by a cardinality argument.

`NoSilentStandstill` says that a standstill is always one PostgreSQL can see. If no
running transaction can execute its next statement, each waits for a row whose owner is
running too (`LocksInv`), and so waits in its turn. The smallest set of transactions in which
each waits for a member has no member nobody waits for, so it is the circle
the detector looks for (`WaitingMeansCircles`, by `LeastSubset`; requests are assumed to be
finitely many). It is the safety half of `EveryRequestIsAnswered` of ConfirmLocks.

In both theorems `CanGoOn` writes out the guards of the steps of a request, because ENABLED
is out of the prover's reach; on the instances above TLC finds it equal to
`ENABLED Step(t)` and to `ENABLED` of statement, commit or deadlock victim.

**The back office.** Neither property is inductive by itself. The thirty-two actions of
`OfficeNext` are put into two classes: a handler *looks* (`Look`: it remembers rows as they
are, and only pieces that are on the shelf or already claimed) or *writes* (`Write`: it
moves only pieces it claims, and puts no new piece on a document). `OfficeMoves` says
that this is all it does, and the two arguments then have a few cases instead of
thirty-two. The counters and the hands move one piece and touch no document
(`PieceMoves`); a stock-out is a write of its own.

`RoadInv` is for the road: on a transfer that is not in
`raced`, the status a request has read is the transfer's status
(`StatusIsTrue`), so only a receipt ends DISPATCHED, and it puts the piece on the shelf.
It needs that a transfer keeps its piece and destination, and that nothing but a dispatch
and a hand writes IN_TRANSIT. A race on one transfer is held against the pieces of that
transfer only, even while other transfers write to them.

`HandsOff` is for the counters: a piece that is sold or lent, and not in `taken`, is
claimed by no document and no request of the office. `taken` is given up as soon as
nothing speaks for the piece, so this must be kept by every step: no step but a
pledge makes the office claim a piece that a counter has (`KeepsHandsOff`), since a
look claims only what is on the shelf or claimed already (`MoveClaims`). It
has to speak of requests in flight, because a request that has lost
its document still writes, and a late submit makes a stocktake count again that was
reconciled, with the rows it had (`Pending`). That a submit which has only begun claims
nothing by that needs `SessionHolds`: a session has no missing rows before it is
submitted. What a session has *scanned* is no claim: a scan moves no piece, and a piece
that was scanned is not missing. A hand needs no claim and leaves none; what it moved
last is in `byHand` until something else moves the piece.

Every invariant and action property of the passing runs is thus a theorem. Only
model-checked are the two properties under fairness (`EveryRequestIsAnswered` of
ConfirmLocks and of DocumentSeries), which are out of the prover's reach, and the four
violations, which a run shows by a counterexample. The inductive invariants were checked
by TLC on the instances above before they were proved. Nothing in the models is
recursive, and apart from SumTheorems no proof needs induction over data: the journal
is reasoned about by its last element and its positions, counts by one element more,
plans by their positions.

## 6. Not modelled

Every component is in `PROJECT.json` with its status and the reason. In short:

- single-row CRUD, access control, the HTTP layer, reports and the front end have
  no protocol; PostgreSQL and Prisma are modelled as far as the code relies on
  them;
- the arithmetic of a line (weights, making charges, tax, rounding): the models say
  who computed a total and over which lines, not what it comes to;
- creation and deletion of a piece, its weights and its tag;
- weights and mismatches of a stocktake, wastage and receipts of job work, drafts
  and approvals of purchase orders and purchase returns: nothing else can refer to
  these rows yet, or they create new ones.

## 7. Plan

1. **Pricing**: the arithmetic of a line in paise against a reference
   definition, rounding included.
