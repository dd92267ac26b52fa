--------------------------- MODULE DocumentSeries ---------------------------
(***************************************************************************)
(* document_series: where invoice and approval numbers come from           *)
(* (documentSeries.repository.ts), for one company.  A request finds or    *)
(* creates the financial year, then in a transaction of its own finds or   *)
(* creates the series of its branch and kind and takes a number under      *)
(* FOR UPDATE, and then inserts its document, whose number is unique among *)
(* the documents of its kind.  Unique indexes allow one current financial  *)
(* year per company and one series per branch, kind and year.              *)
(*                                                                         *)
(* Every query and transaction borrows a connection of the pool.  An       *)
(* approval is numbered inside a transaction that has one already, which   *)
(* Prisma closes after a timeout whatever its handler is doing.            *)
(*                                                                         *)
(* The calendar is counted in periods: 2k is January to March of year k,   *)
(* 2k + 1 is April to December of it.  Financial year k is 2k+1 and 2k+2.  *)
(***************************************************************************)
EXTENDS Naturals, Sequences, FiniteSets

CONSTANTS
    Branches,
    Requests,         \* create requests, each handled once
    BranchOf,         \* request -> branch; those of a branch are numbered as they arrive
    Connections,      \* size of the connection pool
    FirstPeriod, LastPeriod,
    Seedings,         \* sets of branches that may have numbered documents before
    None

ASSUME SeriesAssumption ==
    /\ Seedings \subseteq SUBSET Branches /\ \A S \in Seedings : IsFiniteSet(S)
    /\ Requests \subseteq Nat
    /\ BranchOf \in [Requests -> Branches]
    /\ Connections \in Nat \ {0}
    /\ FirstPeriod \in Nat \ {0} /\ LastPeriod \in Nat /\ FirstPeriod <= LastPeriod

VARIABLES
    today,   \* the period it is
    years,   \* financial_years rows by id, all is_current: the year each is for
    series,  \* document_series rows by id
    req,     \* request -> progress
    printed  \* numbers of the documents that were inserted

vars == <<today, years, series, req, printed>>

Kinds == {"INV", "APP"}

Covers(year, period) == period \in {2 * year + 1, 2 * year + 2}

CalendarYear(period) == period \div 2

\* The prefix a request brings; the series keeps that of its first request.
Prefix(kind, b, period) ==
    IF kind = "INV" THEN <<kind, b, CalendarYear(period)>> ELSE <<kind, None, 0>>

Prefixes == (Kinds \cup {"date"}) \X (Branches \cup {None}) \X Nat

SeriesRow == [kind : Kinds, branch : Branches, year : Nat, prefix : Prefixes, next : Nat]

NoRequest == [kind |-> None, at |-> "new", tx |-> "none", began |-> 0,
              year |-> 0, series |-> 0, number |-> 0]

States == {"new", "started", "needsYear", "hasYear", "needsSeries", "hasSeries", "locked",
           "numberless", "numbered", "dated", "done", "refused"}

RequestRow == [kind : Kinds \cup {None}, at : States, tx : {"none", "open", "expired"},
               began : Nat, year : Nat, series : Nat, number : Nat]

TypeOK ==
    /\ today \in FirstPeriod..LastPeriod
    /\ years \in Seq(Nat)
    /\ series \in Seq(SeriesRow)
    /\ req \in [Requests -> RequestRow]
    /\ printed \subseteq [prefix : Prefixes, number : Nat]

\* Either the company has no document yet, or this year's row and the series of some
\* branches are there, with 1 as the number they took last.
Init ==
    /\ today = FirstPeriod
    /\ \E S \in Seedings :
          /\ years = IF S = {} THEN <<>> ELSE <<(FirstPeriod - 1) \div 2>>
          /\ \E s \in [1..Cardinality(Kinds \X S) -> Kinds \X S] :
                /\ \A m, n \in DOMAIN s : s[m] = s[n] => m = n
                /\ series = [n \in DOMAIN s |->
                       [kind |-> s[n][1], branch |-> s[n][2], year |-> 1,
                        prefix |-> Prefix(s[n][1], s[n][2], FirstPeriod), next |-> 2]]
    /\ req = [t \in Requests |-> NoRequest]
    /\ printed = {}

-----------------------------------------------------------------------------

Goto(t, state) == req' = [req EXCEPT ![t].at = state]

\* The request is answered, with its document or an error; its
\* transaction, if it had one, is over.
Answer(t, state) == req' = [req EXCEPT ![t] = [NoRequest EXCEPT !.at = state]]

InTransaction(t) == req[t].at \in {"needsSeries", "hasSeries", "locked"}

\* A connection is free: a request in both transactions has two.
CanQuery == Cardinality({t \in Requests : req[t].tx = "open"})
            + Cardinality({t \in Requests : InTransaction(t)}) < Connections

\* createApproval opens its transaction and then asks for the number,
\* createSalesInvoice asks for it without one.
Arrive(t, kind) ==
    /\ req[t].at = "new"
    /\ \A u \in Requests : u < t /\ BranchOf[u] = BranchOf[t] => req[u].at # "new"
    /\ kind = "APP" => CanQuery
    /\ req' = [req EXCEPT ![t] = [@ EXCEPT !.at = "started", !.kind = kind,
                                           !.tx = IF kind = "APP" THEN "open" ELSE "none"]]
    /\ UNCHANGED <<today, years, series, printed>>

\* getNextNumber throws: the approval service catches that and numbers by
\* date, the invoice service lets it end the request.
GiveUp(t, answer) ==
    IF req[t].kind # "APP" THEN Answer(t, answer)
    ELSE req' = [req EXCEPT ![t].at = "numberless", ![t].year = 0, ![t].series = 0,
                            ![t].number = 0]

\* Mutant: the dates of the rows are not asked for.
AnyYearRow(period) == 1..Len(years)

YearsOf(period) == {y \in 1..Len(years) : Covers(years[y], period)}

\* financialYear.findFirst over the rows that contain now.
FindYear(t) ==
    /\ req[t].at = "started" /\ CanQuery
    /\ IF YearsOf(today) = {}
       THEN req' = [req EXCEPT ![t].at = "needsYear", ![t].began = today]
       ELSE \E y \in YearsOf(today) :
               req' = [req EXCEPT ![t].at = "hasYear", ![t].began = today, ![t].year = y]
    /\ UNCHANGED <<today, years, series, printed>>

\* Mutant: uq_company_current_financial_year is dropped.
AnyYear == TRUE

\* uq_company_current_financial_year: isCurrent is set here and nowhere reset.
YearIsNew == years = <<>>

\* The row runs from 1 April of the calendar year now is in, so from January
\* to March it does not contain now.
CreateYear(t) ==
    /\ req[t].at = "needsYear" /\ CanQuery
    /\ IF YearIsNew
       THEN /\ years' = Append(years, CalendarYear(req[t].began))
            /\ req' = [req EXCEPT ![t].at = "hasYear", ![t].year = Len(years) + 1]
       ELSE GiveUp(t, "refused") /\ UNCHANGED years
    /\ UNCHANGED <<today, series, printed>>

SeriesFor(t) == {n \in 1..Len(series) :
                    /\ series[n].kind = req[t].kind /\ series[n].branch = BranchOf[t]
                    /\ series[n].year = req[t].year}

\* BEGIN, which needs a connection, and documentSeries.findFirst; committed rows only.
FindSeries(t) ==
    /\ req[t].at = "hasYear" /\ CanQuery
    /\ IF SeriesFor(t) = {}
       THEN Goto(t, "needsSeries")
       ELSE \E n \in SeriesFor(t) :
               req' = [req EXCEPT ![t].at = "hasSeries", ![t].series = n]
    /\ UNCHANGED <<today, years, series, printed>>

\* Mutant: the new row is not given its branch.
SeriesOfNoBranch(t) ==
    [kind |-> req[t].kind, branch |-> None, year |-> req[t].year,
     prefix |-> Prefix(req[t].kind, BranchOf[t], req[t].began), next |-> 2]

NewSeries(t) ==
    [kind |-> req[t].kind, branch |-> BranchOf[t], year |-> req[t].year,
     prefix |-> Prefix(req[t].kind, BranchOf[t], req[t].began), next |-> 2]

\* uq_branch_document_series: the insert waits for a rival and then fails.
SeriesIsNew(t) == SeriesFor(t) = {}

\* The row, created with 1, is locked, read and set to 2 by the transaction
\* that inserts it; others see it when that commits.
CreateSeries(t) ==
    /\ req[t].at = "needsSeries"
    /\ IF SeriesIsNew(t)
       THEN /\ series' = Append(series, NewSeries(t))
            /\ req' = [req EXCEPT ![t].at = "numbered", ![t].series = Len(series) + 1,
                                  ![t].number = 1]
       ELSE GiveUp(t, "refused") /\ UNCHANGED series
    /\ UNCHANGED <<today, years, printed>>

\* Mutant: the row is read without FOR UPDATE.
SeriesNotLocked(n) == TRUE

SeriesIsFree(n) == \A u \in Requests : ~(req[u].at = "locked" /\ req[u].series = n)

\* SELECT ... FOR UPDATE waits for the holder and reads the row it left.
LockSeries(t) ==
    /\ req[t].at = "hasSeries"
    /\ SeriesIsFree(req[t].series)
    /\ req' = [req EXCEPT ![t].at = "locked", ![t].number = series[req[t].series].next]
    /\ UNCHANGED <<today, years, series, printed>>

\* nextNumber := nextNum + 1, COMMIT.
TakeNumber(t) ==
    /\ req[t].at = "locked"
    /\ series' = [series EXCEPT ![req[t].series].next = req[t].number + 1]
    /\ Goto(t, "numbered")
    /\ UNCHANGED <<today, years, printed>>

\* The number as printed: the prefix is the stored one of the series, or the
\* date of the fallback.
Printed(t) ==
    [prefix |-> IF req[t].at = "dated" THEN <<"date", None, req[t].began>>
                                       ELSE series[req[t].series].prefix,
     number |-> req[t].number]

\* Mutant: the documents are counted whatever their prefix.
AllPrinted(period) == printed

Dated(period) == {d \in printed : d.prefix = <<"date", None, period>>}

\* The fallback of the approval service, in the approval's transaction: one more than the
\* documents of the date, then on to the first number none of them has.
NumberByDate(t) ==
    LET taken == {d.number : d \in Dated(req[t].began)}
        first == Cardinality(taken) + 1
    IN
    /\ req[t].at = "numberless" /\ req[t].tx = "open"
    /\ \E n \in first..(first + Cardinality(taken)) :
          /\ n \notin taken
          /\ first..(n - 1) \subseteq taken
          /\ req' = [req EXCEPT ![t].at = "dated", ![t].number = n]
    /\ UNCHANGED <<today, years, series, printed>>

\* The insert of the document; the number that was taken stays taken.
InsertDocument(t) ==
    /\ req[t].at \in {"numbered", "dated"}
    /\ IF req[t].kind = "APP" THEN req[t].tx = "open" ELSE CanQuery
    /\ IF Printed(t) \in printed
       THEN Answer(t, "refused") /\ UNCHANGED printed
       ELSE Answer(t, "done") /\ printed' = printed \cup {Printed(t)}
    /\ UNCHANGED <<today, years, series>>

\* Mutant: the transaction of an approval has no timeout.
NeverExpires(t) == FALSE /\ UNCHANGED vars

\* The transaction of an approval is closed by its timeout, and its connection given back.
\* The handler goes on until it uses it next.
Expire(t) ==
    /\ req[t].tx = "open"
    /\ req' = [req EXCEPT ![t].tx = "expired"]
    /\ UNCHANGED <<today, years, series, printed>>

FindExpired(t) ==
    /\ req[t].tx = "expired" /\ req[t].at \in {"numberless", "numbered", "dated"}
    /\ Answer(t, "done")
    /\ UNCHANGED <<today, years, series, printed>>

\* getNextNumber fails and its transaction rolls back, or gets no connection in time;
\* or the request fails before or at its insert.
Fail(t) ==
    /\ IF req[t].at \in {"numberless", "numbered", "dated"} THEN Answer(t, "done")
       ELSE /\ req[t].at \in {"started", "needsYear", "hasYear", "needsSeries",
                              "hasSeries", "locked"}
            /\ GiveUp(t, "done")
    /\ UNCHANGED <<today, years, series, printed>>

\* The calendar, as far as the model follows it.
TurnPeriod ==
    /\ today < LastPeriod
    /\ today' = today + 1
    /\ UNCHANGED <<years, series, req, printed>>

Step(t) == \/ FindYear(t) \/ CreateYear(t) \/ FindSeries(t) \/ CreateSeries(t)
           \/ LockSeries(t) \/ TakeNumber(t) \/ NumberByDate(t) \/ InsertDocument(t)
           \/ FindExpired(t)

Next ==
    \/ \E t \in Requests : Step(t) \/ Expire(t) \/ Fail(t)
    \/ \E t \in Requests, kind \in Kinds : Arrive(t, kind)
    \/ TurnPeriod

\* The server runs every handler it started and Prisma its timers; failures need not
\* happen.
Spec == Init /\ [][Next]_vars 
        /\ \A t \in Requests : WF_vars(Step(t)) /\ WF_vars(Expire(t))

-----------------------------------------------------------------------------
(* Properties.                                                             *)

Numbered(t) == req[t].at = "numbered"

\* One series never hands out a number twice, and stays ahead of all it has
\* handed out (the FOR UPDATE in getNextNumber).
SeriesStaysAhead ==
    \A t \in Requests : Numbered(t) =>
        /\ req[t].number < series[req[t].series].next
        /\ \A u \in Requests \ {t} :
              Numbered(u) /\ req[u].series = req[t].series => req[u].number # req[t].number

\* No number that was handed out for an invoice is on an invoice already, whoever
\* created year and series and whenever: the insert is never refused for it.
NumbersNeverCollide ==
    \A t \in Requests : req[t].kind = "INV" /\ Numbered(t) => Printed(t) \notin printed

\* No create request is turned away for its number.
NoRequestIsRefused == \A t \in Requests : req[t].at # "refused"

\* A document is numbered in the financial year of its date, except that the very first
\* ones of a company, from January to March, are numbered in the year that begins then.
NumberedInItsYear ==
    \A t \in Requests : Numbered(t) =>
        LET year == years[req[t].year] IN
        Covers(year, req[t].began) \/ req[t].began = 2 * year

\* The approvals of a date are numbered 1, 2, 3, ... without a gap, so the
\* search for a free number always ends at the first.
NoGapsInADay ==
    \A p \in FirstPeriod..LastPeriod :
        {d.number : d \in Dated(p)} = 1..Cardinality(Dated(p))

\* Every create request is answered, though requests queue for the series and hold one
\* connection while they wait for another: again and again none is open.
EveryRequestIsAnswered ==
    []<>(\A t \in Requests : req[t].at \in {"new", "done", "refused"})
=============================================================================
