----------------------------- MODULE LocksProofs -----------------------------
(***************************************************************************)
(* Proofs about the transactions of ConfirmLocks, for any number of        *)
(* pieces, invoices, lines and requests, and whatever failures: confirming *)
(* row by row is a sale in one step, a confirmed invoice has every piece   *)
(* on it, and a circle of waits needs two invoices or a pricing request.   *)
(*                                                                         *)
(* One inductive invariant carries all of it: what a running transaction   *)
(* holds, what it still has to lock, and what the rows it holds say.       *)
(***************************************************************************)
EXTENDS ConfirmLocks, SumTheorems

-----------------------------------------------------------------------------
(* Rows and plans.                                                         *)

\* The rows of the three tables differ.
LEMMA RowsDiffer ==
    /\ \A v, i : HeaderRow(v) # ItemRow(i)
    /\ \A v, w, i : HeaderRow(v) # LineRow(w, i)
    /\ \A i, w, j : ItemRow(i) # LineRow(w, j)
    /\ \A v, w : HeaderRow(v) = HeaderRow(w) => v = w
    /\ \A i, j : ItemRow(i) = ItemRow(j) => i = j
    /\ \A v, i, w, j : LineRow(v, i) = LineRow(w, j) => v = w /\ i = j
BY DEF HeaderRow, ItemRow, LineRow

\* What the plans are made of.
LEMMA RowTypes ==
    ASSUME NEW v \in Invoices
    PROVE  /\ HeaderRow(v) \in Rows
           /\ \A i \in Items : ItemRow(i) \in Rows
           /\ \A i \in Lines[v] : i \in Items /\ LineRow(v, i) \in Rows
<1>1. Lines[v] \subseteq Items
  BY LinesAssumption
<1>2. \A i \in Lines[v] : LineRow(v, i) \in UNION {{LineRow(w, j) : j \in Lines[w]} : w \in Invoices}
  OBVIOUS
<1> QED
  BY <1>1, <1>2 DEF Rows

\* The database may return the lines in any order, each of them once.
LEMMA OrdersCover ==
    ASSUME NEW v \in Invoices, NEW o \in SetToSeqs(Lines[v])
    PROVE  /\ o \in Seq(Lines[v])
           /\ \A m, n \in 1..Len(o) : o[m] = o[n] => m = n
           /\ \A i \in Lines[v] : \E n \in 1..Len(o) : o[n] = i
<1> DEFINE k == Cardinality(Lines[v])
<1>1. IsFiniteSet(Lines[v]) /\ k \in Nat
  BY LinesAssumption, FS_CardinalityType
<1>2. /\ o \in [1..k -> Lines[v]]
      /\ \A m, n \in 1..k : m # n => o[m] # o[n]
  BY DEF SetToSeqs
<1> HIDE DEF k
<1>3. o \in Seq(Lines[v]) /\ Len(o) = k
  BY <1>1, <1>2
<1>4. o \in Injection(1..k, Lines[v])
  BY <1>2 DEF Injection, IsInjective
<1>5. IsFiniteSet(1..k) /\ Cardinality(1..k) = k
  BY <1>1, FS_Interval
<1>6. Cardinality(1..k) = Cardinality(Lines[v])
  BY <1>5 DEF k
<1>7. o \in Surjection(1..k, Lines[v])
  BY <1>1, <1>4, <1>6, FS_Injection
<1> QED
  BY <1>2, <1>3, <1>7 DEF Surjection

\* The statements for the lines lock every piece and every line, each once,
\* and never the invoice.
LEMMA LinesPlanShape ==
    ASSUME NEW v \in Invoices, NEW o \in SetToSeqs(Lines[v])
    PROVE  LET q == LinesPlan(v, o) IN
           /\ q \in Seq(Rows)
           /\ \A m, n \in 1..Len(q) : q[m] = q[n] => m = n
           /\ \A n \in 1..Len(q) : q[n] # HeaderRow(v)
           /\ \A i \in Lines[v] : \E n \in 1..Len(q) : q[n] = ItemRow(i)
<1> DEFINE q == LinesPlan(v, o)
           k == Len(o)
<1>1. /\ k \in Nat
      /\ \A n \in 1..k : o[n] \in Lines[v]
      /\ \A m, n \in 1..k : o[m] = o[n] => m = n
      /\ \A i \in Lines[v] : \E n \in 1..k : o[n] = i
  BY OrdersCover
<1>2. q = [n \in 1..(2 * k) |-> IF n % 2 = 1 THEN ItemRow(o[(n + 1) \div 2])
                                             ELSE LineRow(v, o[n \div 2])]
  BY DEF LinesPlan
<1> HIDE DEF q, k
<1>3. \A n \in 1..(2 * k) :
         \/ n % 2 = 1 /\ (n + 1) \div 2 \in 1..k /\ n = 2 * ((n + 1) \div 2) - 1
         \/ n % 2 # 1 /\ n \div 2 \in 1..k /\ n = 2 * (n \div 2)
  BY <1>1
<1>4. ASSUME NEW n \in 1..(2 * k)
      PROVE  \/ \E m \in 1..k : n = 2 * m - 1 /\ q[n] = ItemRow(o[m])
             \/ \E m \in 1..k : n = 2 * m /\ q[n] = LineRow(v, o[m])
  <2>1. CASE n % 2 = 1 /\ (n + 1) \div 2 \in 1..k /\ n = 2 * ((n + 1) \div 2) - 1
    <3>1. q[n] = ItemRow(o[(n + 1) \div 2])
      BY <1>2, <2>1
    <3> QED
      BY <2>1, <3>1
  <2>2. CASE n % 2 # 1 /\ n \div 2 \in 1..k /\ n = 2 * (n \div 2)
    <3>1. q[n] = LineRow(v, o[n \div 2])
      BY <1>2, <2>2
    <3> QED
      BY <2>2, <3>1
  <2> QED
    BY <1>3, <2>1, <2>2
<1>5. \A n \in 1..(2 * k) : q[n] \in Rows /\ q[n] # HeaderRow(v)
  BY <1>1, <1>4, RowTypes, RowsDiffer
<1>6. q \in Seq(Rows) /\ Len(q) = 2 * k
  <2>1. q = [n \in 1..(2 * k) |-> q[n]]
    BY <1>2
  <2> QED
    BY <1>1, <1>5, <2>1
<1>7. ASSUME NEW m \in 1..(2 * k), NEW n \in 1..(2 * k), q[m] = q[n] PROVE m = n
  BY <1>1, <1>4, <1>7, RowsDiffer
<1>8. ASSUME NEW i \in Lines[v] PROVE \E n \in 1..(2 * k) : q[n] = ItemRow(i)
  <2>1. PICK m \in 1..k : o[m] = i
    BY <1>1
  <2>2. 2 * m - 1 \in 1..(2 * k)
    BY <1>1
  <2>3. 2 * m # 2 * m - 1 /\ \A j \in 1..k : 2 * m - 1 = 2 * j - 1 => j = m
    OBVIOUS
  <2>4. \A j \in 1..k : 2 * m - 1 # 2 * j
    OBVIOUS
  <2> QED
    BY <1>4, <2>1, <2>2, <2>3, <2>4
<1> QED
  BY <1>5, <1>6, <1>7, <1>8 DEF q

\* What a confirm sets out to do.
LEMMA ConfirmPlanShape ==
    ASSUME NEW v \in Invoices, NEW o \in SetToSeqs(Lines[v])
    PROVE  LET p == ConfirmPlan(v, o) IN
           /\ p \in Seq(Rows) /\ p # <<>> /\ Head(p) = HeaderRow(v)
           /\ \A m, n \in 1..Len(p) : p[m] = p[n] => m = n
           /\ \A i \in Lines[v] : \E n \in 1..Len(p) : p[n] = ItemRow(i)
<1> DEFINE q == LinesPlan(v, o)
           p == ConfirmPlan(v, o)
<1>1. /\ q \in Seq(Rows)
      /\ \A m, n \in 1..Len(q) : q[m] = q[n] => m = n
      /\ \A n \in 1..Len(q) : q[n] # HeaderRow(v)
      /\ \A i \in Lines[v] : \E n \in 1..Len(q) : q[n] = ItemRow(i)
  BY LinesPlanShape
<1>2. p = <<HeaderRow(v)>> \o q
  BY DEF ConfirmPlan
<1>3. HeaderRow(v) \in Rows
  BY RowTypes
<1> HIDE DEF q, p
<1>4. /\ p \in Seq(Rows) /\ Len(p) = Len(q) + 1 /\ p # <<>>
      /\ p[1] = HeaderRow(v) /\ Head(p) = HeaderRow(v)
      /\ \A n \in 1..Len(q) : p[n + 1] = q[n]
      /\ \A n \in 1..Len(p) : n = 1 \/ (n - 1 \in 1..Len(q) /\ p[n] = q[n - 1])
  BY <1>1, <1>2, <1>3
<1>5. ASSUME NEW m \in 1..Len(p), NEW n \in 1..Len(p), p[m] = p[n] PROVE m = n
  <2>1. CASE m = 1 \/ n = 1
    BY <1>1, <1>4, <1>5, <2>1
  <2>2. CASE m # 1 /\ n # 1
    <3>1. q[m - 1] = q[n - 1] /\ m - 1 \in 1..Len(q) /\ n - 1 \in 1..Len(q)
      BY <1>4, <1>5, <2>2
    <3>2. m - 1 = n - 1
      BY <1>1, <3>1
    <3> QED
      BY <3>2
  <2> QED
    BY <2>1, <2>2
<1>6. ASSUME NEW i \in Lines[v] PROVE \E n \in 1..Len(p) : p[n] = ItemRow(i)
  <2>1. PICK n \in 1..Len(q) : q[n] = ItemRow(i)
    BY <1>1
  <2>2. n + 1 \in 1..Len(p) /\ p[n + 1] = ItemRow(i)
    BY <1>1, <1>4, <2>1
  <2> QED
    BY <2>2
<1> QED
  BY <1>4, <1>5, <1>6 DEF p

\* Every plan locks rows that exist.
LEMMA PlanTypes ==
    ASSUME NEW k \in Kinds, NEW v \in Invoices, NEW p \in Plans(k, v)
    PROVE  p \in Seq(Rows)
<1>1. CASE k = "confirm"
  <2>1. PICK o \in SetToSeqs(Lines[v]) : p = ConfirmPlan(v, o)
    BY <1>1 DEF Plans
  <2> QED
    BY <2>1, ConfirmPlanShape
<1>2. CASE k = "price"
  <2>1. PICK o \in SetToSeqs(Lines[v]) : p = PricePlan(v, o)
    BY <1>2 DEF Plans
  <2> DEFINE q == [n \in 1..Len(o) |-> LineRow(v, o[n])]
  <2>2. o \in Seq(Lines[v])
    BY OrdersCover
  <2>3. q \in Seq(Rows)
    BY <2>2, RowTypes
  <2>4. p = q \o <<HeaderRow(v)>>
    BY <2>1 DEF PricePlan
  <2> HIDE DEF q
  <2> QED
    BY <2>3, <2>4, RowTypes
<1>3. CASE k = "cancel"
  <2>1. p = <<HeaderRow(v)>>
    BY <1>3 DEF Plans
  <2> QED
    BY <2>1, RowTypes
<1> QED
  BY <1>1, <1>2, <1>3 DEF Kinds

-----------------------------------------------------------------------------
(* Type correctness.                                                       *)

LEMMA TypeInit == Init => TypeOK
BY DEF Init, TypeOK, States

\* The end of a transaction, however it ends.
LEMMA EndType ==
    ASSUME TypeOK, NEW t \in Requests, NEW state \in States, End(t, state)
    PROVE  /\ request' \in [Requests -> [kind : Kinds, inv : Invoices, state : States]]
           /\ plan' \in [Requests -> Seq(Rows)]
           /\ owner' \in [Rows -> Requests \cup {None}]
<1>1. [request[t] EXCEPT !.state = state] \in [kind : Kinds, inv : Invoices, state : States]
  BY DEF TypeOK
<1>2. <<>> \in Seq(Rows)
  OBVIOUS
<1> QED
  BY <1>1, <1>2 DEF TypeOK, End

\* A row about to be locked.
LEMMA NextRow ==
    ASSUME TypeOK, NEW t \in Requests, plan[t] # <<>>
    PROVE  /\ plan[t] \in Seq(Rows) /\ Len(plan[t]) \in Nat /\ 1 \in 1..Len(plan[t])
           /\ Head(plan[t]) = plan[t][1] /\ Head(plan[t]) \in Rows
           /\ Tail(plan[t]) \in Seq(Rows)
           /\ Len(Tail(plan[t])) = Len(plan[t]) - 1
           /\ \A n \in 1..Len(Tail(plan[t])) :
                 n + 1 \in 1..Len(plan[t]) /\ Tail(plan[t])[n] = plan[t][n + 1]
<1>1. plan[t] \in Seq(Rows)
  BY DEF TypeOK
<1> QED
  BY <1>1

LEMMA TypeStep ==
    ASSUME TypeOK, [Next]_vars
    PROVE  TypeOK'
<1>1. ASSUME NEW t \in Requests, Open(t) PROVE TypeOK'
  <2>1. CASE Refuse(t)
    BY <2>1, EndType DEF Refuse, Abort, States, TypeOK
  <2>2. CASE ~Refuse(t)
    <3>1. PICK p \in Plans(request[t].kind, Inv(t)) : plan' = [plan EXCEPT ![t] = p]
      BY <1>1, <2>2 DEF Open
    <3>2. p \in Seq(Rows)
      BY PlanTypes DEF TypeOK, Inv
    <3>3. [request[t] EXCEPT !.state = "running"] \in [kind : Kinds, inv : Invoices, state : States]
      BY DEF TypeOK, States
    <3>4. /\ request' = [request EXCEPT ![t].state = "running"]
          /\ UNCHANGED <<status, soldBy, owner>>
      BY <1>1, <2>2 DEF Open
    <3> QED
      BY <3>1, <3>2, <3>3, <3>4 DEF TypeOK
  <2> QED
    BY <1>1, <2>1, <2>2 DEF Open
<1>2. ASSUME NEW t \in Requests, Statement(t) PROVE TypeOK'
  <2>1. CASE Refuse(t)
    BY <2>1, EndType DEF Refuse, Abort, States, TypeOK
  <2>2. CASE ~Refuse(t)
    <3>1. Head(plan[t]) \in Rows /\ Tail(plan[t]) \in Seq(Rows)
      BY <1>2, NextRow DEF Statement
    <3>2. /\ owner' = [owner EXCEPT ![Head(plan[t])] = t]
          /\ plan' = [plan EXCEPT ![t] = Tail(@)]
          /\ UNCHANGED <<status, soldBy, request>>
      BY <1>2, <2>2 DEF Statement
    <3> QED
      BY <3>1, <3>2 DEF TypeOK
  <2> QED
    BY <2>1, <2>2
<1>3. ASSUME NEW t \in Requests, Commit(t) PROVE TypeOK'
  <2>1. request[t].kind \in Kinds /\ Inv(t) \in Invoices
    BY DEF TypeOK, Inv
  <2>2. status' \in [Invoices -> {"DRAFT", "CONFIRMED", "CANCELLED"}]
    <3>1. CASE request[t].kind = "confirm"
      BY <1>3, <2>1, <3>1 DEF Commit, TypeOK
    <3>2. CASE request[t].kind = "cancel"
      BY <1>3, <2>1, <3>2 DEF Commit, TypeOK
    <3>3. CASE request[t].kind = "price"
      BY <1>3, <2>1, <3>3 DEF Commit, TypeOK
    <3> QED
      BY <2>1, <3>1, <3>2, <3>3 DEF Kinds
  <2>3. soldBy' \in [Items -> Invoices \cup {None}]
    BY <1>3, <2>1 DEF Commit, TypeOK
  <2> QED
    BY <1>3, <2>2, <2>3, EndType DEF Commit, States, TypeOK
<1>4. ASSUME NEW t \in Requests, Abort(t) PROVE TypeOK'
  BY <1>4, EndType DEF Abort, States, TypeOK
<1>5. CASE UNCHANGED vars
  BY <1>5 DEF vars, TypeOK
<1> QED
  BY <1>1, <1>2, <1>3, <1>4, <1>5 DEF Next, DeadlockVictim, Broken

\* Every plan locks rows that exist, every lock is held by a request, and
\* every piece is sold by an invoice or by none.
THEOREM LocksTypeCorrect == Spec => []TypeOK
BY TypeInit, TypeStep, PTL DEF Spec

-----------------------------------------------------------------------------
(* The inductive invariant.                                                *)

\* Locks are held by transactions that run.
LocksEnd == \A r \in Rows : owner[r] # None => Running(owner[r])

\* A confirm or a cancel locks its invoice first, and nothing twice.
InvoiceFirst(t) ==
    /\ \A m, n \in 1..Len(plan[t]) : plan[t][m] = plan[t][n] => m = n
    /\ \A n \in 1..Len(plan[t]) : owner[plan[t][n]] # t
    /\ \/ owner[HeaderRow(Inv(t))] = t
       \/ /\ plan[t] # <<>> /\ Head(plan[t]) = HeaderRow(Inv(t))
          /\ \A r \in Rows : owner[r] # t

\* A cancel needs no other row.
CancelHolds(t) ==
    (\A n \in 1..Len(plan[t]) : n = 1) /\ (owner[HeaderRow(Inv(t))] = t => plan[t] = <<>>)

\* Under its locks a confirm sees a draft, and pieces that nobody sold; the
\* pieces it has not locked are still to come.
ConfirmHolds(t) ==
    /\ owner[HeaderRow(Inv(t))] = t => status[Inv(t)] = "DRAFT"
    /\ \A i \in Lines[Inv(t)] :
          \/ owner[ItemRow(i)] = t /\ soldBy[i] = None
          \/ \E n \in 1..Len(plan[t]) : plan[t][n] = ItemRow(i)

Holds(t) ==
    Running(t) =>
        /\ request[t].kind \in {"confirm", "cancel"} => InvoiceFirst(t)
        /\ request[t].kind = "cancel" => CancelHolds(t)
        /\ request[t].kind = "confirm" => ConfirmHolds(t)

\* A draft has sold nothing.
DraftSellsNothing ==
    \A v \in Invoices : status[v] = "DRAFT" => \A i \in Items : soldBy[i] # v

LocksInv ==
    /\ TypeOK
    /\ LocksEnd
    /\ \A t \in Requests : Holds(t)
    /\ DraftSellsNothing
    /\ ConfirmedMeansSold

LEMMA InvInit == Init => LocksInv
<1> SUFFICES ASSUME Init PROVE LocksInv
  OBVIOUS
<1>1. \A t \in Requests : ~Running(t)
  BY DEF Init, Running
<1>2. \A v \in Invoices : status[v] = "DRAFT"
  BY DEF Init
<1>3. LocksEnd
  BY DEF Init, LocksEnd
<1>4. DraftSellsNothing
  BY LinesAssumption DEF Init, DraftSellsNothing
<1> QED
  BY <1>1, <1>2, <1>3, <1>4, TypeInit DEF LocksInv, Holds, ConfirmedMeansSold

\* What a transaction holds is not disturbed while its own plan and locks stay
\* as they are, and the invoice and the pieces it has locked do too.
LEMMA Bystander ==
    ASSUME TypeOK, NEW u \in Requests, Holds(u),
           request'[u] = request[u], plan'[u] = plan[u],
           \A r \in Rows : owner'[r] = u <=> owner[r] = u,
           owner[HeaderRow(Inv(u))] = u => status'[Inv(u)] = status[Inv(u)],
           \A i \in Items : owner[ItemRow(i)] = u => soldBy'[i] = soldBy[i]
    PROVE  Holds(u)'
<1> DEFINE v == Inv(u)
<1>1. PICK w \in Invoices : w = Inv(u)
  BY DEF TypeOK, Inv
<1>2. Inv(u)' = w /\ Inv(u) = w /\ (Running(u)' <=> Running(u))
  BY <1>1 DEF Inv, Running
<1>3. /\ HeaderRow(w) \in Rows
      /\ \A i \in Lines[w] : i \in Items /\ ItemRow(i) \in Rows
      /\ \A n \in 1..Len(plan[u]) : plan[u][n] \in Rows
  BY RowTypes DEF TypeOK
<1>4. InvoiceFirst(u) => InvoiceFirst(u)'
  BY <1>2, <1>3 DEF InvoiceFirst
<1>5. CancelHolds(u) => CancelHolds(u)'
  BY <1>2, <1>3 DEF CancelHolds
<1>6. ConfirmHolds(u) => ConfirmHolds(u)'
  BY <1>2, <1>3 DEF ConfirmHolds
<1> QED
  BY <1>2, <1>4, <1>5, <1>6 DEF Holds

\* An ended transaction has no locks, and the others have theirs.
LEMMA EndLocks ==
    ASSUME TypeOK, LocksEnd, NEW t \in Requests, NEW state \in {"done", "failed"}, End(t, state)
    PROVE  /\ LocksEnd'
           /\ Holds(t)'
           /\ \A u \in Requests : u # t =>
                 /\ request'[u] = request[u] /\ plan'[u] = plan[u]
                 /\ \A r \in Rows : owner'[r] = u <=> owner[r] = u
<1>1. ~Running(t)'
  BY DEF End, Running, TypeOK
<1>2. \A u \in Requests : u # t =>
         /\ request'[u] = request[u] /\ plan'[u] = plan[u]
         /\ \A r \in Rows : owner'[r] = u <=> owner[r] = u
  BY LinesAssumption DEF End, TypeOK
<1>3. ASSUME NEW r \in Rows, owner'[r] # None PROVE request'[owner'[r]].state = "running"
  <2>1. PICK u \in Requests : u = owner[r]
    BY <1>3 DEF End, TypeOK
  <2>2. u # t /\ owner'[r] = u
    BY <1>3, <2>1 DEF End, TypeOK
  <2>3. Running(u)
    BY <1>3, <2>1, LinesAssumption DEF LocksEnd
  <2> QED
    BY <1>2, <2>2, <2>3 DEF Running
<1>4. LocksEnd'
  BY <1>3 DEF LocksEnd, Running
<1>5. Holds(t)'
  BY <1>1 DEF Holds
<1> QED
  BY <1>2, <1>4, <1>5

\* A transaction that fails leaves what was committed.
LEMMA AbortInv ==
    ASSUME LocksInv, NEW t \in Requests, Abort(t), TypeOK'
    PROVE  LocksInv'
<1>1. End(t, "failed") /\ UNCHANGED <<status, soldBy>>
  BY DEF Abort
<1>2. /\ LocksEnd' /\ Holds(t)'
      /\ \A u \in Requests : u # t =>
            /\ request'[u] = request[u] /\ plan'[u] = plan[u]
            /\ \A r \in Rows : owner'[r] = u <=> owner[r] = u
  BY <1>1, EndLocks DEF LocksInv
<1>3. ASSUME NEW u \in Requests PROVE Holds(u)'
  <2>1. CASE u = t
    BY <1>2, <2>1
  <2>2. CASE u # t
    BY <1>1, <1>2, <2>2, Bystander DEF LocksInv
  <2> QED
    BY <2>1, <2>2
<1>4. DraftSellsNothing' /\ ConfirmedMeansSold'
  BY <1>1 DEF LocksInv, DraftSellsNothing, ConfirmedMeansSold
<1> QED
  BY <1>2, <1>3, <1>4 DEF LocksInv

\* A transaction begins: it holds nothing, and everything is still to come.
LEMMA OpenInv ==
    ASSUME LocksInv, NEW t \in Requests, Open(t), ~Refuse(t), TypeOK'
    PROVE  LocksInv'
<1>1. /\ request[t].state = "new"
      /\ request' = [request EXCEPT ![t].state = "running"]
      /\ UNCHANGED <<status, soldBy, owner>>
  BY DEF Open
<1>2. PICK p \in Plans(request[t].kind, Inv(t)) : plan' = [plan EXCEPT ![t] = p]
  BY DEF Open
<1>3. PICK v \in Invoices : v = Inv(t)
  BY DEF LocksInv, TypeOK, Inv
<1>4. /\ plan'[t] = p /\ request'[t].kind = request[t].kind /\ Inv(t)' = v
      /\ \A u \in Requests : u # t => request'[u] = request[u] /\ plan'[u] = plan[u]
      /\ \A u \in Requests : Running(u) => u # t /\ request'[u] = request[u]
  BY <1>1, <1>2, <1>3 DEF LocksInv, TypeOK, Inv, Running
<1>5. \A r \in Rows : owner[r] # t
  BY <1>1, LinesAssumption DEF LocksInv, LocksEnd, Running
<1>6. HeaderRow(v) \in Rows /\ \A i \in Lines[v] : ItemRow(i) \in Rows
  BY RowTypes
<1>7. Holds(t)'
  <2>1. CASE request[t].kind = "confirm"
    <3>1. PICK o \in SetToSeqs(Lines[v]) : p = ConfirmPlan(v, o)
      BY <1>2, <1>3, <2>1 DEF Plans
    <3>2. /\ p \in Seq(Rows) /\ p # <<>> /\ Head(p) = HeaderRow(v)
          /\ \A m, n \in 1..Len(p) : p[m] = p[n] => m = n
          /\ \A i \in Lines[v] : \E n \in 1..Len(p) : p[n] = ItemRow(i)
      BY <3>1, ConfirmPlanShape
    <3>3. \A n \in 1..Len(p) : p[n] \in Rows
      BY <3>2
    <3>4. InvoiceFirst(t)'
      BY <1>1, <1>4, <1>5, <3>2, <3>3 DEF InvoiceFirst
    <3>5. ConfirmHolds(t)'
      BY <1>1, <1>4, <1>5, <1>6, <3>2 DEF ConfirmHolds
    <3> QED
      BY <1>4, <2>1, <3>4, <3>5 DEF Holds
  <2>2. CASE request[t].kind = "cancel"
    <3>1. p = <<HeaderRow(v)>>
      BY <1>2, <1>3, <2>2 DEF Plans
    <3>2. p # <<>> /\ Head(p) = HeaderRow(v) /\ Len(p) = 1 /\ p[1] = HeaderRow(v)
      BY <3>1
    <3>3. \A n \in 1..Len(p) : n = 1
      BY <3>2
    <3>4. InvoiceFirst(t)' /\ CancelHolds(t)'
      BY <1>1, <1>4, <1>5, <1>6, <3>2, <3>3 DEF InvoiceFirst, CancelHolds
    <3> QED
      BY <1>4, <2>2, <3>4 DEF Holds
  <2> QED
    BY <1>4, <2>1, <2>2 DEF Holds
<1>8. ASSUME NEW u \in Requests PROVE Holds(u)'
  <2>1. CASE u = t
    BY <1>7, <2>1
  <2>2. CASE u # t
    BY <1>1, <1>4, <2>2, Bystander DEF LocksInv
  <2> QED
    BY <2>1, <2>2
<1>9. LocksEnd'
  <2>1. \A r \in Rows : owner[r] # None => owner[r] \in Requests /\ Running(owner[r])
    BY DEF LocksInv, TypeOK, LocksEnd
  <2> QED
    BY <1>1, <1>4, <2>1 DEF LocksEnd, Running
<1>10. DraftSellsNothing' /\ ConfirmedMeansSold'
  BY <1>1 DEF LocksInv, DraftSellsNothing, ConfirmedMeansSold
<1> QED
  BY <1>8, <1>9, <1>10 DEF LocksInv

\* A statement passes its test under the lock it takes.
LEMMA StatementInv ==
    ASSUME LocksInv, NEW t \in Requests, Statement(t), ~Refuse(t), TypeOK'
    PROVE  LocksInv'
<1>1. PICK r \in Rows : r = Head(plan[t])
  BY NextRow DEF LocksInv, Statement
<1>2. /\ Running(t) /\ plan[t] # <<>> /\ owner[r] = None /\ Passes(t, r)
      /\ owner' = [owner EXCEPT ![r] = t]
      /\ plan' = [plan EXCEPT ![t] = Tail(plan[t])]
      /\ UNCHANGED <<status, soldBy, request>>
  BY <1>1 DEF Statement
<1>3. /\ plan'[t] = Tail(plan[t])
      /\ \A u \in Requests : u # t => /\ plan'[u] = plan[u]
                                     /\ \A q \in Rows : owner'[q] = u <=> owner[q] = u
      /\ owner'[r] = t /\ \A q \in Rows : q # r => owner'[q] = owner[q]
  BY <1>2, LinesAssumption DEF LocksInv, TypeOK
<1>4. PICK v \in Invoices : v = Inv(t) /\ Inv(t)' = v
  BY <1>2 DEF LocksInv, TypeOK, Inv
<1>5. HeaderRow(v) \in Rows /\ \A i \in Lines[v] : ItemRow(i) \in Rows /\ i \in Items
  BY RowTypes
<1>6. /\ Len(plan[t]) \in Nat /\ 1 \in 1..Len(plan[t]) /\ plan[t][1] = r
      /\ Len(plan'[t]) = Len(plan[t]) - 1
      /\ \A n \in 1..Len(plan'[t]) : n + 1 \in 1..Len(plan[t]) /\ plan'[t][n] = plan[t][n + 1]
      /\ \A n \in 1..Len(plan[t]) : plan[t][n] \in Rows
  <2>1. TypeOK
    BY DEF LocksInv
  <2>2. \A n \in 1..Len(plan[t]) : plan[t][n] \in Rows
    BY <2>1 DEF TypeOK
  <2>3. /\ Len(plan[t]) \in Nat /\ 1 \in 1..Len(plan[t])
        /\ Head(plan[t]) = plan[t][1]
        /\ Len(Tail(plan[t])) = Len(plan[t]) - 1
        /\ \A n \in 1..Len(Tail(plan[t])) :
              n + 1 \in 1..Len(plan[t]) /\ Tail(plan[t])[n] = plan[t][n + 1]
    BY <1>2, <2>1, NextRow
  <2> QED
    BY <1>1, <1>3, <2>2, <2>3
<1>7. InvoiceFirst(t) => InvoiceFirst(t)'
  <2> SUFFICES ASSUME InvoiceFirst(t) PROVE InvoiceFirst(t)'
    OBVIOUS
  <2>1. ASSUME NEW m \in 1..Len(plan'[t]), NEW n \in 1..Len(plan'[t]), plan'[t][m] = plan'[t][n]
        PROVE  m = n
    <3>1. m + 1 = n + 1
      BY <1>6, <2>1 DEF InvoiceFirst
    <3> QED
      BY <3>1
  <2>2. ASSUME NEW n \in 1..Len(plan'[t]) PROVE owner'[plan'[t][n]] # t
    <3>1. n + 1 # 1 /\ n + 1 \in 1..Len(plan[t])
      BY <1>6
    <3>2. plan[t][n + 1] # r /\ owner[plan[t][n + 1]] # t
      BY <1>6, <3>1 DEF InvoiceFirst
    <3> QED
      BY <1>3, <1>6, <3>1, <3>2
  <2>3. owner'[HeaderRow(v)] = t
    BY <1>1, <1>3, <1>4, <1>5 DEF InvoiceFirst
  <2> QED
    BY <1>4, <2>1, <2>2, <2>3 DEF InvoiceFirst
<1>8. ConfirmHolds(t) /\ InvoiceFirst(t) /\ request[t].kind = "confirm" => ConfirmHolds(t)'
  <2> SUFFICES ASSUME ConfirmHolds(t), request[t].kind = "confirm" PROVE ConfirmHolds(t)'
    OBVIOUS
  <2>1. owner'[HeaderRow(v)] = t => status'[v] = "DRAFT"
    BY <1>2, <1>3, <1>4, <1>5 DEF ConfirmHolds, Passes
  <2>2. ASSUME NEW i \in Lines[v], ~(owner'[ItemRow(i)] = t /\ soldBy'[i] = None)
        PROVE  \E n \in 1..Len(plan'[t]) : plan'[t][n] = ItemRow(i)
    <3>1. ItemRow(i) # r
      BY <1>2, <1>3, <1>4, <2>2 DEF Passes
    <3>2. PICK n \in 1..Len(plan[t]) : plan[t][n] = ItemRow(i)
      BY <1>2, <1>3, <1>4, <1>5, <2>2, <3>1 DEF ConfirmHolds
    <3>3. n # 1
      BY <1>6, <3>1, <3>2
    <3>4. n - 1 \in 1..Len(plan'[t]) /\ (n - 1) + 1 = n
      BY <1>6, <3>3
    <3> QED
      BY <1>6, <3>2, <3>4
  <2> QED
    BY <1>4, <2>1, <2>2 DEF ConfirmHolds
<1>9. CancelHolds(t) => CancelHolds(t)'
  <2>1. plan'[t] \in Seq(Rows)
    BY DEF TypeOK
  <2>2. ASSUME CancelHolds(t), NEW n \in 1..Len(plan'[t]) PROVE FALSE
    BY <1>6, <2>2 DEF CancelHolds
  <2>3. CancelHolds(t) => plan'[t] = <<>>
    BY <2>1, <2>2
  <2> QED
    BY <2>2, <2>3 DEF CancelHolds
<1>10. ASSUME NEW u \in Requests PROVE Holds(u)'
  <2>1. CASE u = t
    BY <1>2, <1>7, <1>8, <1>9, <2>1 DEF LocksInv, Holds, Running
  <2>2. CASE u # t
    BY <1>2, <1>3, <2>2, Bystander DEF LocksInv
  <2> QED
    BY <2>1, <2>2
<1>11. LocksEnd'
  BY <1>2, <1>3 DEF LocksInv, LocksEnd, Running
<1>12. DraftSellsNothing' /\ ConfirmedMeansSold'
  BY <1>2 DEF LocksInv, DraftSellsNothing, ConfirmedMeansSold
<1> QED
  BY <1>10, <1>11, <1>12 DEF LocksInv

\* A transaction that commits has locked everything it set out to lock.
LEMMA CommitHolds ==
    ASSUME LocksInv, NEW t \in Requests, Commit(t)
    PROVE  /\ Inv(t) \in Invoices
           /\ request[t].kind \in {"confirm", "cancel"} => owner[HeaderRow(Inv(t))] = t
           /\ request[t].kind = "confirm" =>
                 /\ status[Inv(t)] = "DRAFT"
                 /\ \A i \in Lines[Inv(t)] : owner[ItemRow(i)] = t /\ soldBy[i] = None
<1>1. Running(t) /\ plan[t] = <<>> /\ Holds(t) /\ Inv(t) \in Invoices
  BY DEF LocksInv, TypeOK, Commit, Inv
<1>2. \A n \in 1..Len(plan[t]) : FALSE
  BY <1>1
<1>3. request[t].kind \in {"confirm", "cancel"} => owner[HeaderRow(Inv(t))] = t
  BY <1>1 DEF Holds, InvoiceFirst
<1>4. ASSUME request[t].kind = "confirm"
      PROVE  /\ status[Inv(t)] = "DRAFT"
             /\ \A i \in Lines[Inv(t)] : owner[ItemRow(i)] = t /\ soldBy[i] = None
  BY <1>1, <1>2, <1>3, <1>4 DEF Holds, ConfirmHolds
<1> QED
  BY <1>1, <1>3, <1>4

\* What a commit writes: the status of its invoice, if it is not a pricing,
\* and, if it is a confirm, the pieces of the invoice.
LEMMA CommitWrites ==
    ASSUME TypeOK, NEW t \in Requests, Commit(t)
    PROVE  /\ \A w \in Invoices : status'[w] # status[w] =>
                 w = Inv(t) /\ request[t].kind \in {"confirm", "cancel"}
           /\ request[t].kind = "confirm" => status'[Inv(t)] = "CONFIRMED"
           /\ request[t].kind = "cancel" => status'[Inv(t)] = "CANCELLED"
           /\ \A i \in Items :
                 soldBy'[i] = IF request[t].kind = "confirm" /\ i \in Lines[Inv(t)]
                              THEN Inv(t) ELSE soldBy[i]
<1>1. request[t].kind \in Kinds /\ Inv(t) \in Invoices
  BY DEF TypeOK, Inv
<1>2. \A i \in Items :
         soldBy'[i] = IF request[t].kind = "confirm" /\ i \in Lines[Inv(t)]
                      THEN Inv(t) ELSE soldBy[i]
  BY DEF Commit
<1>3. CASE request[t].kind = "confirm"
  BY <1>1, <1>2, <1>3 DEF Commit, TypeOK
<1>4. CASE request[t].kind = "cancel"
  BY <1>1, <1>2, <1>4 DEF Commit, TypeOK
<1>5. CASE request[t].kind = "price"
  BY <1>1, <1>2, <1>5 DEF Commit, TypeOK
<1> QED
  BY <1>1, <1>3, <1>4, <1>5 DEF Kinds

LEMMA CommitInv ==
    ASSUME LocksInv, NEW t \in Requests, Commit(t), TypeOK'
    PROVE  LocksInv'
<1>1. PICK v \in Invoices : v = Inv(t)
  BY CommitHolds
<1>2. /\ LocksEnd' /\ Holds(t)'
      /\ \A u \in Requests : u # t =>
            /\ request'[u] = request[u] /\ plan'[u] = plan[u]
            /\ \A r \in Rows : owner'[r] = u <=> owner[r] = u
  BY EndLocks DEF Commit, LocksInv
<1>3. /\ request[t].kind \in {"confirm", "cancel"} => owner[HeaderRow(v)] = t
      /\ request[t].kind = "confirm" =>
            /\ status[v] = "DRAFT"
            /\ \A i \in Lines[v] : owner[ItemRow(i)] = t /\ soldBy[i] = None
  BY <1>1, CommitHolds
<1>4. /\ \A w \in Invoices : status'[w] # status[w] =>
            w = v /\ request[t].kind \in {"confirm", "cancel"}
      /\ request[t].kind = "confirm" => status'[v] = "CONFIRMED"
      /\ request[t].kind = "cancel" => status'[v] = "CANCELLED"
      /\ \A i \in Items :
            soldBy'[i] = IF request[t].kind = "confirm" /\ i \in Lines[v] THEN v ELSE soldBy[i]
  BY <1>1, CommitWrites DEF LocksInv
<1>5. ASSUME NEW u \in Requests PROVE Holds(u)'
  <2>1. CASE u = t
    BY <1>2, <2>1
  <2>2. CASE u # t
    <3>1. PICK w \in Invoices : w = Inv(u)
      BY DEF LocksInv, TypeOK, Inv
    <3>2. owner[HeaderRow(w)] = u => status'[w] = status[w]
      BY <1>3, <1>4, <2>2
    <3>3. \A i \in Items : owner[ItemRow(i)] = u => soldBy'[i] = soldBy[i]
      BY <1>3, <1>4, <2>2
    <3> QED
      BY <1>2, <2>2, <3>1, <3>2, <3>3, Bystander DEF LocksInv
  <2> QED
    BY <2>1, <2>2
<1>6. ASSUME NEW w \in Invoices, status'[w] = "DRAFT", NEW i \in Items PROVE soldBy'[i] # w
  <2>1. status[w] = "DRAFT" /\ (request[t].kind = "confirm" => w # v)
    BY <1>4, <1>6
  <2> QED
    BY <1>4, <2>1 DEF LocksInv, DraftSellsNothing
<1>7. ASSUME NEW w \in Invoices, status'[w] = "CONFIRMED", NEW i \in Lines[w]
      PROVE  soldBy'[i] = w
  <2>1. i \in Items
    BY LinesAssumption
  <2>2. CASE w = v /\ request[t].kind = "confirm"
    BY <1>4, <2>1, <2>2
  <2>3. CASE ~(w = v /\ request[t].kind = "confirm")
    <3>1. status[w] = "CONFIRMED" /\ soldBy[i] = w
      BY <1>4, <1>7, <2>3 DEF LocksInv, ConfirmedMeansSold
    <3>2. ~(request[t].kind = "confirm" /\ i \in Lines[v])
      BY <1>3, <3>1, LinesAssumption
    <3> QED
      BY <1>4, <2>1, <3>1, <3>2
  <2> QED
    BY <2>2, <2>3
<1> QED
  BY <1>2, <1>5, <1>6, <1>7 DEF LocksInv, DraftSellsNothing, ConfirmedMeansSold

LEMMA InvStep ==
    ASSUME LocksInv, [Next]_vars
    PROVE  LocksInv'
<1>1. TypeOK'
  BY TypeStep DEF LocksInv
<1>2. ASSUME NEW t \in Requests, Open(t) PROVE LocksInv'
  BY <1>1, <1>2, OpenInv, AbortInv DEF Refuse
<1>3. ASSUME NEW t \in Requests, Statement(t) PROVE LocksInv'
  BY <1>1, <1>3, StatementInv, AbortInv DEF Refuse
<1>4. ASSUME NEW t \in Requests, Commit(t) PROVE LocksInv'
  BY <1>1, <1>4, CommitInv
<1>5. ASSUME NEW t \in Requests, Abort(t) PROVE LocksInv'
  BY <1>1, <1>5, AbortInv
<1>6. CASE UNCHANGED vars
  <2>1. ASSUME NEW u \in Requests PROVE Holds(u)'
    BY <1>6, Bystander DEF LocksInv, vars
  <2>2. LocksEnd' /\ DraftSellsNothing' /\ ConfirmedMeansSold'
    BY <1>6 DEF LocksInv, vars, LocksEnd, Running, DraftSellsNothing, ConfirmedMeansSold
  <2> QED
    BY <1>1, <2>1, <2>2 DEF LocksInv
<1> QED
  BY <1>2, <1>3, <1>4, <1>5, <1>6 DEF Next, DeadlockVictim, Broken

LEMMA LocksInvariant == Spec => []LocksInv
BY InvInit, InvStep, PTL DEF Spec

\* An invoice is CONFIRMED only with every piece on it sold by it, although
\* its pieces are locked and tested one by one between other transactions.
THEOREM ConfirmedInvoicesAreSold == Spec => []ConfirmedMeansSold
<1>1. LocksInv => ConfirmedMeansSold
  BY DEF LocksInv
<1> QED
  BY <1>1, LocksInvariant, PTL

-----------------------------------------------------------------------------
(* Circles of waits.                                                       *)

\* A confirm or a cancel that holds a row and waits for another is a confirm
\* that holds its invoice.
LEMMA WhoCanBlock ==
    ASSUME LocksInv, NEW u \in Requests, Running(u), request[u].kind # "price",
           plan[u] # <<>>, NEW r \in Rows, owner[r] = u
    PROVE  owner[HeaderRow(Inv(u))] = u
<1>1. request[u].kind \in {"confirm", "cancel"}
  BY DEF LocksInv, TypeOK, Kinds
<1>2. InvoiceFirst(u)
  BY <1>1 DEF LocksInv, Holds
<1> QED
  BY <1>2 DEF InvoiceFirst

LEMMA NoCircle ==
    ASSUME LocksInv
    PROVE  OneInvoiceNeverDeadlocks
<1> SUFFICES ASSUME NEW S \in SUBSET Requests, S # {}, InCircles(S),
                    \A u, w \in S : Inv(u) = Inv(w),
                    \A u \in S : request[u].kind # "price"
             PROVE  FALSE
  BY DEF OneInvoiceNeverDeadlocks
<1>1. ASSUME NEW u \in S PROVE Running(u) /\ plan[u] # <<>> /\ owner[HeaderRow(Inv(u))] = u
  <2>1. PICK w \in S : WaitsFor(w, u)
    BY DEF InCircles
  <2>2. Head(plan[w]) \in Rows /\ owner[Head(plan[w])] = u
    BY <2>1, NextRow DEF WaitsFor, LocksInv
  <2>3. Running(u) /\ plan[u] # <<>>
    BY DEF InCircles, WaitsFor
  <2> QED
    BY <2>2, <2>3, WhoCanBlock
<1>2. PICK u \in S : TRUE
  OBVIOUS
<1>3. PICK w \in S : WaitsFor(u, w)
  BY DEF InCircles
<1>4. w = u
  BY <1>1
<1>5. owner[Head(plan[u])] = u /\ Head(plan[u]) = plan[u][1] /\ 1 \in 1..Len(plan[u])
  BY <1>3, <1>4, NextRow DEF WaitsFor, LocksInv
<1>6. request[u].kind \in {"confirm", "cancel"}
  BY DEF LocksInv, TypeOK, Kinds
<1>7. InvoiceFirst(u)
  BY <1>1, <1>6 DEF LocksInv, Holds
<1> QED
  BY <1>5, <1>7 DEF InvoiceFirst

\* However many confirms and cancels of one invoice overlap, they never wait
\* for each other in a circle: each of them locks the invoice before anything
\* else.  A circle needs two invoices, or a pricing request, which locks the
\* lines first.
THEOREM OneInvoiceCannotDeadlock == Spec => []OneInvoiceNeverDeadlocks
BY LocksInvariant, NoCircle, PTL

-----------------------------------------------------------------------------
(* Standstill.                                                             *)

\* Its next statement or its COMMIT can run, or the deadlock detector ends it.
CanGoOn(t) ==
    /\ Running(t)
    /\ \/ plan[t] = <<>>
       \/ owner[Head(plan[t])] = None
       \/ Deadlocked(t)

\* While transactions run, one of them can go on.
NeverStuck == (\E t \in Requests : Running(t)) => \E t \in Requests : CanGoOn(t)

\* Where everyone waits for another of them, some wait in circles: the smallest
\* set in which everyone waits for a member has no member nobody waits for.
LEMMA WaitingMeansCircles ==
    ASSUME NEW W \in SUBSET Requests, IsFiniteSet(W), W # {},
           \A u \in W : \E w \in W : WaitsFor(u, w)
    PROVE  \E t \in W : Deadlocked(t)
<1> DEFINE Closed(S) == S # {} /\ \A u \in S : \E w \in S : WaitsFor(u, w)
           T == {S \in SUBSET W : Closed(S)}
<1>1. T \subseteq SUBSET W /\ W \in T
  OBVIOUS
<1>2. PICK m \in T : \A S \in T : S \subseteq m => S = m
  <2> HIDE DEF T
  <2> QED
    BY <1>1, LeastSubset
<1>3. m \subseteq W /\ Closed(m)
  OBVIOUS
<1>4. ASSUME NEW u \in m, \A w \in m : ~WaitsFor(w, u) PROVE FALSE
  <2> DEFINE S == m \ {u}
  <2>1. S # {}
    BY <1>3, <1>4
  <2>2. ASSUME NEW x \in S PROVE \E w \in S : WaitsFor(x, w)
    BY <1>3, <1>4
  <2>3. S \in T
    BY <1>3, <2>1, <2>2
  <2> QED
    BY <1>2, <2>3
<1>5. InCircles(m)
  BY <1>3, <1>4 DEF InCircles
<1>6. PICK t \in m : TRUE
  BY <1>3
<1> QED
  BY <1>3, <1>5, <1>6 DEF Deadlocked

\* Whatever rows the transactions have locked, and in whatever order, they never
\* come to a standstill that PostgreSQL does not see: if none of them can run
\* its next statement, some of them wait in a circle.  It is what the liveness
\* of the requests rests on, next to fairness.
THEOREM NoSilentStandstill ==
    ASSUME IsFiniteSet(Requests) PROVE Spec => []NeverStuck
<1>1. ASSUME LocksInv PROVE NeverStuck
  <2> SUFFICES ASSUME \E t \in Requests : Running(t), \A t \in Requests : ~CanGoOn(t)
               PROVE  FALSE
    BY DEF NeverStuck
  <2> DEFINE W == {t \in Requests : Running(t)}
  <2>1. W \in SUBSET Requests /\ W # {} /\ IsFiniteSet(W)
    BY FS_Subset
  <2>2. ASSUME NEW u \in W PROVE \E w \in W : WaitsFor(u, w)
    <3>1. plan[u] # <<>> /\ owner[Head(plan[u])] # None
      BY DEF CanGoOn
    <3>2. Head(plan[u]) \in Rows
      BY <1>1, <3>1, NextRow DEF LocksInv
    <3>3. owner[Head(plan[u])] \in Requests /\ Running(owner[Head(plan[u])])
      BY <1>1, <3>1, <3>2 DEF LocksInv, TypeOK, LocksEnd
    <3> QED
      BY <3>1, <3>3 DEF WaitsFor
  <2>3. PICK t \in W : Deadlocked(t)
    <3> HIDE DEF W
    <3> QED
      BY <2>1, <2>2, WaitingMeansCircles
  <2> QED
    BY <2>3 DEF CanGoOn
<1> QED
  BY <1>1, LocksInvariant, PTL

-----------------------------------------------------------------------------
(* Row by row, and yet in one step: ConfirmLocks implements Custody.       *)

LEMMA CustodyStep ==
    ASSUME LocksInv, [Next]_vars
    PROVE  [C!CustodyNext]_soldBy
<1>1. ASSUME NEW t \in Requests, Commit(t), request[t].kind = "confirm"
      PROVE  C!CustodyNext
  <2>1. PICK v \in Invoices : v = Inv(t)
    BY <1>1, CommitHolds
  <2>2. Lines[v] \in SUBSET Items /\ Lines[v] # {}
    BY LinesAssumption
  <2>3. status[v] = "DRAFT" /\ \A i \in Lines[v] : soldBy[i] = None
    BY <1>1, <2>1, CommitHolds
  <2>4. C!Held(v) = {}
    BY <2>3 DEF C!Held, LocksInv, DraftSellsNothing
  <2>5. C!Move(Lines[v], v)
    BY <1>1, <2>1 DEF Commit, C!Move
  <2>6. C!Sell(Lines[v], v)
    BY <2>2, <2>3, <2>4, <2>5 DEF C!Sell
  <2> QED
    BY <2>2, <2>6 DEF C!CustodyNext
<1>2. ASSUME NEW t \in Requests, Commit(t), request[t].kind # "confirm"
      PROVE  UNCHANGED soldBy
  BY <1>2 DEF Commit
<1>3. ASSUME NEW t \in Requests, Open(t) \/ Statement(t) \/ Abort(t)
      PROVE  UNCHANGED soldBy
  BY <1>3 DEF Open, Statement, Refuse, Abort
<1>4. CASE UNCHANGED vars
  BY <1>4 DEF vars
<1> QED
  BY <1>1, <1>2, <1>3, <1>4 DEF Next, DeadlockVictim, Broken

\* Although it locks and tests row by row, waits, fails and is rolled back, a
\* confirm sells all lines of its invoice in one step, from the shelf, once,
\* and for good.
THEOREM ConfirmIsAtomic == Spec => SalesAreAtomic
<1>1. Init => C!CustodyInit
  BY DEF Init, C!CustodyInit
<1>2. LocksInv /\ [Next]_vars => [C!CustodyNext]_soldBy
  BY CustodyStep
<1> QED
  BY <1>1, <1>2, LocksInvariant, PTL DEF Spec, SalesAreAtomic, C!CustodySpec
=============================================================================
