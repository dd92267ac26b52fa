---------------------------- MODULE ConfirmLocks ----------------------------
(***************************************************************************)
(* The transactions of confirm, price and cancel, statement by statement.  *)
(* SalesInvoices takes each of them as one step; here every statement      *)
(* takes its row lock on its own, waits for the holder, and all locks of a *)
(* transaction go at COMMIT or ROLLBACK.  The module shows that confirming *)
(* is still all-or-nothing, and that no request waits for ever although    *)
(* the transactions lock their rows in conflicting orders.                 *)
(***************************************************************************)
EXTENDS Integers, Sequences, SequencesExt, FiniteSets

CONSTANTS
    Items,
    Invoices,
    Lines,     \* invoice -> the pieces on it, fixed when it is created
    Requests,  \* the requests that run, each handled once
    None

ASSUME LinesAssumption ==
    /\ Lines \in [Invoices -> (SUBSET Items) \ {{}}]
    /\ \A v \in Invoices : IsFiniteSet(Lines[v])
    /\ None \notin Requests \cup Invoices

VARIABLES
    status,  \* invoice -> committed status
    soldBy,  \* item -> the invoice that sold it (committed), or None
    request, \* request -> [kind, inv, state]
    plan,    \* request -> rows its remaining statements lock, in order
    owner    \* row -> the transaction that holds its lock, or None

vars == <<status, soldBy, request, plan, owner>>

HeaderRow(v)  == <<"sales_invoices", v>>
ItemRow(i)    == <<"inventory_items", i>>
LineRow(v, i) == <<"sales_invoice_items", v, i>>

Rows == {HeaderRow(v) : v \in Invoices} \cup {ItemRow(i) : i \in Items}
        \cup UNION {{LineRow(v, i) : i \in Lines[v]} : v \in Invoices}

Kinds == {"confirm", "price", "cancel"}
States == {"new", "running", "done", "failed"}

TypeOK ==
    /\ status \in [Invoices -> {"DRAFT", "CONFIRMED", "CANCELLED"}]
    /\ soldBy \in [Items -> Invoices \cup {None}]
    /\ request \in [Requests -> [kind : Kinds, inv : Invoices, state : States]]
    /\ plan \in [Requests -> Seq(Rows)]
    /\ owner \in [Rows -> Requests \cup {None}]

Init ==
    /\ status = [v \in Invoices |-> "DRAFT"]
    /\ soldBy = [i \in Items |-> None]
    /\ request \in [Requests -> [kind : Kinds, inv : Invoices, state : {"new"}]]
    /\ plan = [t \in Requests |-> <<>>]
    /\ owner = [r \in Rows |-> None]

-----------------------------------------------------------------------------
(* The order in which each transaction locks rows.  The lines of an        *)
(* invoice come back from the database in no particular order.             *)

\* Mutant: the pieces are locked under other names than the others use.
ConfirmPlanUnnamed(v, order) == <<HeaderRow(v)>> \o order

\* Per line the conditional update of the piece, then the snapshot on the line.
LinesPlan(v, order) ==
    [n \in 1..(2 * Len(order)) |-> IF n % 2 = 1 THEN ItemRow(order[(n + 1) \div 2])
                                                ELSE LineRow(v, order[n \div 2])]

\* Mutant: the invoice is locked when its status is written, not before.
ConfirmHeaderLast(v, order) == LinesPlan(v, order) \o <<HeaderRow(v)>>

\* SELECT ... FOR UPDATE on the invoice, then the lines; the status write
\* locks nothing new.
ConfirmPlan(v, order) == <<HeaderRow(v)>> \o LinesPlan(v, order)

\* Every line, then the invoice.
PricePlan(v, order) == [n \in 1..Len(order) |-> LineRow(v, order[n])]
                       \o <<HeaderRow(v)>>

Plans(k, v) ==
    LET orders == SetToSeqs(Lines[v]) IN
    CASE k = "confirm" -> {ConfirmPlan(v, o) : o \in orders}
      [] k = "price"   -> {PricePlan(v, o) : o \in orders}
      [] k = "cancel"  -> {<<HeaderRow(v)>>}

-----------------------------------------------------------------------------

Inv(t) == request[t].inv
Running(t) == request[t].state = "running"

\* COMMIT and ROLLBACK release every lock of the transaction.
End(t, state) ==
    /\ request' = [request EXCEPT ![t].state = state]
    /\ owner' = [r \in Rows |-> IF owner[r] = t THEN None ELSE owner[r]]
    /\ plan' = [plan EXCEPT ![t] = <<>>]

Abort(t) == End(t, "failed") /\ UNCHANGED <<status, soldBy>>

\* Mutant: the check neither throws nor goes on.
Ignore(t) == UNCHANGED vars

\* A check throws: the transaction, if there is one, rolls back.
Refuse(t) == Abort(t)

\* The reads before the transaction: status, and for confirm the pieces.
Reads(t) ==
    /\ status[Inv(t)] = "DRAFT"
         \/ (request[t].kind = "cancel" /\ status[Inv(t)] = "CONFIRMED")
    /\ request[t].kind = "confirm" => \A i \in Lines[Inv(t)] : soldBy[i] = None

\* BEGIN, or the request is refused on what it read.
Open(t) ==
    /\ request[t].state = "new"
    /\ \/ /\ Reads(t)
          /\ request' = [request EXCEPT ![t].state = "running"]
          /\ \E p \in Plans(request[t].kind, Inv(t)) : plan' = [plan EXCEPT ![t] = p]
          /\ UNCHANGED owner
          /\ UNCHANGED <<status, soldBy>>
       \/ ~Reads(t) /\ Refuse(t)

\* Mutant: the pieces are not tested under the lock.
PassesAnyPiece(t, r) ==
    request[t].kind = "confirm" => (r = HeaderRow(Inv(t)) => status[Inv(t)] = "DRAFT")

\* What a confirm tests once it has the row's lock: DRAFT again, and a count
\* of 1 from the conditional update of each piece.  An update that waited
\* re-evaluates its WHERE on the row the holder left.
Passes(t, r) ==
    request[t].kind = "confirm" =>
        /\ r = HeaderRow(Inv(t)) => status[Inv(t)] = "DRAFT"
        /\ \A i \in Lines[Inv(t)] : r = ItemRow(i) => soldBy[i] = None

\* One statement, when the row's lock is free.
Statement(t) ==
    /\ Running(t)
    /\ plan[t] # <<>>
    /\ LET r == Head(plan[t]) IN
       /\ owner[r] = None
       /\ \/ /\ Passes(t, r)
             /\ owner' = [owner EXCEPT ![r] = t]
             /\ plan' = [plan EXCEPT ![t] = Tail(@)]
             /\ UNCHANGED <<status, soldBy, request>>
          \/ ~Passes(t, r) /\ Refuse(t)

Commit(t) ==
    /\ Running(t)
    /\ plan[t] = <<>>
    /\ status' = CASE request[t].kind = "confirm" -> [status EXCEPT ![Inv(t)] = "CONFIRMED"]
                   [] request[t].kind = "cancel"  -> [status EXCEPT ![Inv(t)] = "CANCELLED"]
                   [] request[t].kind = "price"   -> status
    /\ soldBy' = IF request[t].kind = "confirm"
                 THEN [i \in Items |-> IF i \in Lines[Inv(t)] THEN Inv(t) ELSE soldBy[i]]
                 ELSE soldBy
    /\ End(t, "done")

-----------------------------------------------------------------------------
(* PostgreSQL's deadlock detector, and failures of the client.             *)

WaitsFor(t, u) == Running(t) /\ plan[t] # <<>> /\ owner[Head(plan[t])] = u

\* In S everyone waits for a member and is waited for by one.  Each waits for
\* at most one other, so S is a set of circles.
InCircles(S) ==
    \A u \in S : (\E w \in S : WaitsFor(u, w)) /\ (\E w \in S : WaitsFor(w, u))

Deadlocked(t) == \E S \in SUBSET Requests : t \in S /\ InCircles(S)

DeadlockVictim(t) == Deadlocked(t) /\ Abort(t)

\* Transaction timeout, lost connection, crash of the server process.
Broken(t) == Running(t) /\ Abort(t)

-----------------------------------------------------------------------------

Next == \E t \in Requests :
    Open(t) \/ Statement(t) \/ Commit(t) \/ DeadlockVictim(t) \/ Broken(t)

\* The process runs every handler it started and the database every statement
\* whose lock is free; the detector runs after deadlock_timeout.  Failures
\* need not happen.
Fairness ==
    /\ \A t \in Requests : WF_vars(Open(t)) /\ WF_vars(Statement(t)) /\ WF_vars(Commit(t))
    /\ WF_vars(\E t \in Requests : DeadlockVictim(t))

Spec == Init /\ [][Next]_vars /\ Fairness

-----------------------------------------------------------------------------
(* Properties.                                                             *)

\* Although it locks row by row, a confirm sells all lines of its invoice in
\* one step, from the shelf, once, and for good.
C == INSTANCE Custody WITH Shop <- None, Slips <- {}, holder <- soldBy
SalesAreAtomic == C!CustodySpec

\* An invoice is CONFIRMED only with every piece on it sold by it.
ConfirmedMeansSold ==
    \A v \in Invoices : status[v] = "CONFIRMED" => \A i \in Lines[v] : soldBy[i] = v

\* Confirms and cancels of one invoice queue for its row before they lock
\* anything else: a circle of waits needs two invoices, or a pricing request,
\* which locks the lines first.
OneInvoiceNeverDeadlocks ==
    \A S \in SUBSET Requests : S # {} /\ InCircles(S) =>
        \/ \E u, w \in S : Inv(u) # Inv(w)
        \/ \E u \in S : request[u].kind = "price"

\* Every request is answered: no set of them waits in a circle for ever.
EveryRequestIsAnswered ==
    \A t \in Requests : <>(request[t].state \in {"done", "failed"})
=============================================================================
