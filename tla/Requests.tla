------------------------------ MODULE Requests ------------------------------
(***************************************************************************)
(* HTTP requests in flight.  A handler reads what it needs before its      *)
(* transaction opens and awaits between the two, so a request is a slot    *)
(* that remembers what the handler read: other requests run in between.    *)
(* A handler with one database round trip needs no slot.                   *)
(***************************************************************************)
EXTENDS ItemStock

CONSTANTS Calls  \* request slots: how many handlers may overlap

VARIABLES call   \* slot -> what the handler in it has read so far

Idle == [op |-> "idle", doc |-> None, branch |-> None, setBranch |-> None,
         items |-> {}, rows |-> 0]

Ops == {"idle", "update", "updateChecked", "lockRate", "price", "confirm",
        "cancel", "updateSlip", "issue", "issueChecked", "cancelSlip",
        "return", "purchase"}

Request == [op : Ops, doc : Documents \cup {None},
            branch : Branches \cup {None}, setBranch : Branches \cup {None},
            items : SUBSET Items, rows : Nat]

RequestTypeOK == call \in [Calls -> Request]

RequestInit == call = [c \in Calls |-> Idle]

Begin(c, r) == call[c] = Idle /\ call' = [call EXCEPT ![c] = r]

Finish(c) == call' = [call EXCEPT ![c] = Idle]

\* The handler throws and its transaction rolls back: a check it repeats
\* fails, a unique index rejects the row, the database picks it as a deadlock
\* victim, Prisma's transaction timeout fires, or the server process dies.
Fail(c) ==
    /\ call[c] # Idle
    /\ Finish(c)
    /\ UNCHANGED stockVars
=============================================================================
