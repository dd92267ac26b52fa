----------------------------- MODULE ItemStock -----------------------------
(***************************************************************************)
(* The two tables every counter of the shop writes: inventory_items (the   *)
(* status and branch columns) and stock_movements, the append-only journal *)
(* of what happened to each piece and on behalf of which document.         *)
(*                                                                         *)
(* PostgreSQL runs at READ COMMITTED.  A conditional update takes the row  *)
(* locks of the pieces it changes and keeps them until COMMIT, so the      *)
(* condition that held when the statement ran still holds when the         *)
(* transaction commits: the conditional claims of one transaction are one  *)
(* step, and a transaction that fails half way leaves no trace.            *)
(***************************************************************************)
EXTENDS Naturals, Sequences

CONSTANTS
    Items,      \* rows of inventory_items
    Branches,   \* rows of branches
    Documents,  \* rows a movement can refer to: invoices, slips, ...
    None        \* SQL NULL

ASSUME NoneAssumption == None \notin Items \cup Branches \cup Documents

VARIABLES
    stock,      \* item -> inventory_items.status
    itemBranch, \* item -> inventory_items.branch_id
    ledger      \* item -> its stock_movements rows, oldest first

stockVars == <<stock, itemBranch, ledger>>

StockStatus == {"AVAILABLE", "ON_APPROVAL", "SOLD"}
MovementType == {"STOCK_IN", "SALE", "SALE_RETURN", "APPROVAL_ISSUE", "APPROVAL_RETURN"}
Movement == [kind : MovementType, doc : Documents \cup {None}]

StockTypeOK ==
    /\ stock \in [Items -> StockStatus]
    /\ itemBranch \in [Items -> Branches]
    /\ ledger \in [Items -> Seq(Movement)]

\* createInventoryItem: the column default AVAILABLE, one STOCK_IN movement.
StockInit ==
    /\ stock = [i \in Items |-> "AVAILABLE"]
    /\ itemBranch \in [Items -> Branches]
    /\ ledger = [i \in Items |-> <<[kind |-> "STOCK_IN", doc |-> None]>>]

-----------------------------------------------------------------------------
(* What handlers do to the tables.                                         *)

\* validateInvoiceAssociations: every piece is in the branch and AVAILABLE.
Sellable(S, b) == \A i \in S : stock[i] = "AVAILABLE" /\ itemBranch[i] = b

\* Mutant: the count of the conditional update is ignored.
ClaimUncounted(S, b, from, to) ==
    /\ stock' = [i \in Items |-> IF i \in S /\ stock[i] = from /\ itemBranch[i] = b
                                THEN to ELSE stock[i]]
    /\ UNCHANGED itemBranch

\* inventoryItem.updateMany({where: {id, branchId: b, status: from}}), for
\* every piece of S; a count of 0 for any of them aborts the transaction.
Claim(S, b, from, to) ==
    /\ \A i \in S : stock[i] = from /\ itemBranch[i] = b
    /\ stock' = [i \in Items |-> IF i \in S THEN to ELSE stock[i]]
    /\ UNCHANGED itemBranch

\* Mutant: the movements are not written.
BookNothing(S, kind, doc) == UNCHANGED ledger

\* Mutant: the status the piece had is written as the movement's type.
BookStatus(S, kind, doc) ==
    ledger' = [i \in Items |->
                 IF i \in S THEN Append(ledger[i], [kind |-> stock[i], doc |-> doc])
                            ELSE ledger[i]]

\* stockMovement.create for every piece of S.
Book(S, kind, doc) ==
    ledger' = [i \in Items |->
                 IF i \in S THEN Append(ledger[i], [kind |-> kind, doc |-> doc])
                            ELSE ledger[i]]

-----------------------------------------------------------------------------
(* Reading the journal.                                                    *)

LastMovement(i) == ledger[i][Len(ledger[i])]

\* The custody a movement of each type leaves a piece in, and the custody it
\* may find it in: what the movement types mean, whoever writes them.
CustodyAfter ==
    [STOCK_IN        |-> "AVAILABLE",
     SALE            |-> "SOLD",
     SALE_RETURN     |-> "AVAILABLE",
     APPROVAL_ISSUE  |-> "ON_APPROVAL",
     APPROVAL_RETURN |-> "AVAILABLE"]

CustodyBefore ==
    [STOCK_IN        |-> {},
     SALE            |-> {"AVAILABLE", "ON_APPROVAL"},
     SALE_RETURN     |-> {"SOLD"},
     APPROVAL_ISSUE  |-> {"AVAILABLE"},
     APPROVAL_RETURN |-> {"ON_APPROVAL"}]

\* The journal of every piece reads as one unbroken chain of custody that
\* ends in the status the piece has now: no movement is missing, none is
\* booked twice, and none contradicts the one before it.
LedgerIsCustodyHistory ==
    \A i \in Items :
        /\ \A n \in 1..Len(ledger[i]) - 1 :
              CustodyAfter[ledger[i][n].kind]
                 \in CustodyBefore[ledger[i][n + 1].kind]
        /\ stock[i] = CustodyAfter[LastMovement(i).kind]
=============================================================================
