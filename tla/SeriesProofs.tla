---------------------------- MODULE SeriesProofs ----------------------------
(***************************************************************************)
(* Proofs about the document numbers, for any number of requests,          *)
(* branches, connections and periods: no series hands out a number twice,  *)
(* and no number handed out for an invoice is on an invoice already.       *)
(* A request waits at the pool of connections and nowhere for good.        *)
(***************************************************************************)
EXTENDS DocumentSeries, FiniteSetTheorems, TLAPS

HasYear == {"hasYear", "needsSeries", "hasSeries", "locked", "numbered"}
HasSeries == {"hasSeries", "locked", "numbered"}

\* What a request in its state has in hand: its kind, the row of its year, the
\* row of its series, and a number the series has not passed.
Progress(t) ==
    /\ req[t].at \notin {"new", "done", "refused"} => req[t].kind \in Kinds
    /\ req[t].at \in HasYear =>
          /\ req[t].year \in 1..Len(years)
          /\ \/ Covers(years[req[t].year], req[t].began)
             \/ req[t].began = 2 * years[req[t].year]
    /\ req[t].at \in HasSeries =>
          /\ req[t].series \in 1..Len(series)
          /\ series[req[t].series].kind = req[t].kind
    /\ req[t].at = "locked" => req[t].number = series[req[t].series].next
    /\ req[t].at = "numbered" => req[t].number < series[req[t].series].next

\* Two requests at one series: only one has its lock, and they do not have
\* the same number.
Apart(t, u) ==
    t # u /\ req[t].series = req[u].series =>
        /\ ~(req[t].at = "locked" /\ req[u].at = "locked")
        /\ Numbered(t) /\ Numbered(u) => req[t].number # req[u].number

\* There is one financial year, and one invoice series for each branch.
OneSeries ==
    /\ Len(years) <= 1
    /\ \A n \in 1..Len(series) :
          /\ series[n].year = 1
          /\ series[n].prefix[1] = series[n].kind
          /\ series[n].kind = "INV" => series[n].prefix[2] = series[n].branch
    /\ \A m, n \in 1..Len(series) :
          /\ series[m].kind = "INV" /\ series[n].kind = "INV"
          /\ series[m].branch = series[n].branch
          => m = n

\* What is printed for an invoice comes from a series that has passed it, and
\* is in nobody's hand any more.
PrintedByASeries ==
    \A d \in printed : d.prefix[1] = "INV" =>
        \E n \in 1..Len(series) : series[n].prefix = d.prefix

Behind(d, n) ==
    series[n].kind = "INV" /\ d.prefix = series[n].prefix =>
        /\ d.number < series[n].next
        /\ \A t \in Requests : Numbered(t) /\ req[t].series = n => req[t].number # d.number

SeriesInv ==
    /\ TypeOK
    /\ IsFiniteSet(printed)
    /\ \A t \in Requests : Progress(t)
    /\ \A t, u \in Requests : Apart(t, u)
    /\ OneSeries
    /\ PrintedByASeries
    /\ \A d \in printed, n \in 1..Len(series) : Behind(d, n)

-----------------------------------------------------------------------------
(* The rows.                                                               *)

\* What the calendar and the prefixes come to.
LEMMA CalendarType ==
    /\ FirstPeriod..LastPeriod \subseteq Nat
    /\ \A n \in Nat : CalendarYear(n) \in Nat
    /\ \A n \in Nat : Covers(CalendarYear(n), n) \/ n = 2 * CalendarYear(n)
BY SeriesAssumption DEF CalendarYear, Covers

\* A prefix names its kind, and that of an invoice its branch.
LEMMA PrefixType ==
    ASSUME NEW kind \in Kinds, NEW b \in Branches, NEW n \in Nat
    PROVE  /\ Prefix(kind, b, n) \in Prefixes
           /\ Prefix(kind, b, n)[1] = kind
           /\ kind = "INV" => Prefix(kind, b, n)[2] = b
<1>1. CalendarYear(n) \in Nat
  BY CalendarType
<1>2. CASE kind = "INV"
  BY <1>1, <1>2 DEF Prefix, Prefixes, Kinds
<1>3. CASE kind # "INV"
  BY <1>3, 0 \in Nat DEF Prefix, Prefixes, Kinds
<1> QED
  BY <1>2, <1>3

\* What a row of document_series holds.
LEMMA RowType ==
    ASSUME TypeOK, NEW n \in 1..Len(series)
    PROVE  /\ series[n] \in SeriesRow
           /\ series[n].next \in Nat /\ series[n].kind \in Kinds
           /\ series[n].branch \in Branches /\ series[n].prefix \in Prefixes
<1>1. series[n] \in SeriesRow
  BY DEF TypeOK
<1> QED
  BY <1>1 DEF SeriesRow

\* The row of a request that has been answered.
LEMMA AnsweredType ==
    ASSUME NEW state \in {"done", "refused"}
    PROVE  [NoRequest EXCEPT !.at = state] \in RequestRow
BY 0 \in Nat DEF NoRequest, RequestRow, States

-----------------------------------------------------------------------------
(* Steps that change one request.                                          *)

\* A request that goes on, and comes to no number it had not, keeps the
\* invariant.
LEMMA OneRequest ==
    ASSUME SeriesInv, NEW t \in Requests, NEW q \in RequestRow,
           req' = [req EXCEPT ![t] = q], UNCHANGED <<years, series, printed>>,
           today' \in FirstPeriod..LastPeriod,
           Progress(t)', \A u \in Requests : Apart(t, u)' /\ Apart(u, t)',
           q.at = "numbered" =>
              Numbered(t) /\ q.series = req[t].series /\ q.number = req[t].number
    PROVE  SeriesInv'
<1>0. /\ req' \in [Requests -> RequestRow] /\ req'[t] = q
      /\ \A u \in Requests : u # t => req'[u] = req[u]
  BY DEF SeriesInv, TypeOK
<1>1. TypeOK' /\ IsFiniteSet(printed)'
  BY <1>0 DEF SeriesInv, TypeOK
<1>2. ASSUME NEW u \in Requests PROVE Progress(u)'
  <2>1. CASE u # t
    BY <1>0, <2>1 DEF SeriesInv, Progress
  <2>2. CASE u = t
    BY <2>2 DEF Progress
  <2> QED
    BY <2>1, <2>2
<1>3. ASSUME NEW u \in Requests, NEW v \in Requests PROVE Apart(u, v)'
  <2>1. CASE u # t /\ v # t
    BY <1>0, <2>1 DEF SeriesInv, Apart, Numbered
  <2>2. CASE u = t \/ v = t
    BY <2>2 DEF Apart, Numbered
  <2> QED
    BY <2>1, <2>2
<1>4. OneSeries' /\ PrintedByASeries'
  BY DEF SeriesInv, OneSeries, PrintedByASeries
<1>5. ASSUME NEW d \in printed, NEW n \in 1..Len(series) PROVE Behind(d, n)'
  <2>1. Behind(d, n)
    BY DEF SeriesInv
  <2>2. ASSUME NEW u \in Requests, Numbered(u)', req'[u].series = n
        PROVE  Numbered(u) /\ req[u].series = n /\ req'[u].number = req[u].number
    BY <1>0, <2>2 DEF Numbered
  <2> QED
    BY <2>1, <2>2 DEF Behind
<1> QED
  BY <1>1, <1>2, <1>3, <1>4, <1>5 DEF SeriesInv

\* In particular one that has neither a lock nor a number after the step.
LEMMA EmptyHanded ==
    ASSUME SeriesInv, NEW t \in Requests, NEW q \in RequestRow,
           req' = [req EXCEPT ![t] = q], UNCHANGED <<years, series, printed>>,
           today' \in FirstPeriod..LastPeriod,
           q.at \notin {"locked", "numbered"}, Progress(t)'
    PROVE  SeriesInv'
<1>1. req'[t] = q
  BY DEF SeriesInv, TypeOK
<1>2. \A u \in Requests : Apart(t, u)' /\ Apart(u, t)'
  BY <1>1 DEF Apart, Numbered
<1> QED
  BY <1>1, <1>2, OneRequest

\* And one that ends.
LEMMA Answered ==
    ASSUME SeriesInv, NEW t \in Requests, NEW state \in {"done", "refused"},
           Answer(t, state), UNCHANGED <<today, years, series, printed>>
    PROVE  SeriesInv'
<1> DEFINE q == [NoRequest EXCEPT !.at = state]
<1>1. q \in RequestRow /\ q.at = state
  BY AnsweredType DEF NoRequest
<1>2. req' = [req EXCEPT ![t] = q]
  BY DEF Answer
<1> HIDE DEF q
<1>3. req'[t] = q /\ today' \in FirstPeriod..LastPeriod
  BY <1>2 DEF SeriesInv, TypeOK
<1>4. Progress(t)'
  BY <1>1, <1>3 DEF Progress, HasYear, HasSeries
<1> QED
  BY <1>1, <1>2, <1>3, <1>4, EmptyHanded

\* And one that was given no number.
LEMMA GivenUp ==
    ASSUME SeriesInv, NEW t \in Requests, NEW state \in {"done", "refused"},
           req[t].at \notin {"new", "done", "refused"},
           GiveUp(t, state), UNCHANGED <<today, years, series, printed>>
    PROVE  SeriesInv'
<1>1. CASE req[t].kind # "APP"
  BY <1>1, Answered DEF GiveUp
<1>2. CASE req[t].kind = "APP"
  <2> DEFINE q == [req[t] EXCEPT !.at = "numberless", !.year = 0, !.series = 0, !.number = 0]
  <2>1. req[t] \in RequestRow
    BY DEF SeriesInv, TypeOK
  <2>2. q \in RequestRow /\ q.at = "numberless" /\ q.kind = req[t].kind
    BY <2>1, 0 \in Nat DEF RequestRow, States
  <2>3. req' = [req EXCEPT ![t] = q]
    BY <1>2, <2>1 DEF GiveUp, SeriesInv, TypeOK
  <2> HIDE DEF q
  <2>4. req'[t] = q /\ today' \in FirstPeriod..LastPeriod
    BY <2>3 DEF SeriesInv, TypeOK
  <2>5. Progress(t)'
    BY <1>2, <2>2, <2>4 DEF Progress, HasYear, HasSeries, Kinds
  <2> QED
    BY <2>2, <2>3, <2>4, <2>5, EmptyHanded
<1> QED
  BY <1>1, <1>2

-----------------------------------------------------------------------------
(* The steps that read.                                                    *)

\* A request arrives.
LEMMA ArriveStep ==
    ASSUME SeriesInv, NEW t \in Requests, NEW kind \in Kinds, Arrive(t, kind)
    PROVE  SeriesInv'
<1> DEFINE q == [req[t] EXCEPT !.at = "started", !.kind = kind,
                               !.tx = IF kind = "APP" THEN "open" ELSE "none"]
<1>1. req[t] \in RequestRow
  BY DEF SeriesInv, TypeOK
<1>2. q \in RequestRow /\ q.at = "started" /\ q.kind = kind
  BY <1>1 DEF RequestRow, States
<1>3. req' = [req EXCEPT ![t] = q] /\ UNCHANGED <<today, years, series, printed>>
  BY DEF Arrive
<1> HIDE DEF q
<1>4. req'[t] = q /\ today' \in FirstPeriod..LastPeriod
  BY <1>3 DEF SeriesInv, TypeOK
<1>5. Progress(t)'
  BY <1>2, <1>4 DEF Progress, HasYear, HasSeries
<1> QED
  BY <1>2, <1>3, <1>4, <1>5, EmptyHanded

\* It looks for the row of the financial year, which covers today.
LEMMA FindYearStep ==
    ASSUME SeriesInv, NEW t \in Requests, FindYear(t)
    PROVE  SeriesInv'
<1>0. req[t] \in RequestRow /\ today \in FirstPeriod..LastPeriod /\ today \in Nat
  BY CalendarType DEF SeriesInv, TypeOK
<1>1. Progress(t) /\ req[t].at = "started" /\ UNCHANGED <<today, years, series, printed>>
  BY DEF SeriesInv, FindYear
<1>2. CASE YearsOf(today) = {}
  <2> DEFINE q == [req[t] EXCEPT !.at = "needsYear", !.began = today]
  <2>1. q \in RequestRow /\ q.at = "needsYear" /\ q.kind = req[t].kind
    BY <1>0 DEF RequestRow, States
  <2>2. req' = [req EXCEPT ![t] = q]
    BY <1>2 DEF FindYear, SeriesInv, TypeOK
  <2> HIDE DEF q
  <2>3. req'[t] = q
    BY <2>2 DEF SeriesInv, TypeOK
  <2>4. Progress(t)'
    BY <1>1, <2>1, <2>3 DEF Progress, HasYear, HasSeries
  <2> QED
    BY <1>0, <1>1, <2>1, <2>2, <2>4, EmptyHanded
<1>3. CASE YearsOf(today) # {}
  <2>1. PICK y \in YearsOf(today) :
           req' = [req EXCEPT ![t].at = "hasYear", ![t].began = today, ![t].year = y]
    BY <1>3 DEF FindYear
  <2>2. y \in Nat /\ y \in 1..Len(years) /\ Covers(years[y], today)
    BY DEF YearsOf, SeriesInv, TypeOK
  <2> DEFINE q == [req[t] EXCEPT !.at = "hasYear", !.began = today, !.year = y]
  <2>3. /\ q \in RequestRow /\ q.at = "hasYear" /\ q.kind = req[t].kind
        /\ q.began = today /\ q.year = y
    BY <1>0, <2>2 DEF RequestRow, States
  <2>4. req' = [req EXCEPT ![t] = q]
    BY <2>1 DEF SeriesInv, TypeOK
  <2> HIDE DEF q
  <2>5. req'[t] = q
    BY <2>4 DEF SeriesInv, TypeOK
  <2>6. Progress(t)'
    BY <1>1, <2>2, <2>3, <2>5 DEF Progress, HasYear, HasSeries
  <2> QED
    BY <1>0, <1>1, <2>3, <2>4, <2>6, EmptyHanded
<1> QED
  BY <1>2, <1>3

\* It looks for the row of its series.
LEMMA FindSeriesStep ==
    ASSUME SeriesInv, NEW t \in Requests, FindSeries(t)
    PROVE  SeriesInv'
<1>0. req[t] \in RequestRow /\ today' \in FirstPeriod..LastPeriod
  BY DEF SeriesInv, TypeOK, FindSeries
<1>1. Progress(t) /\ req[t].at = "hasYear" /\ UNCHANGED <<today, years, series, printed>>
  BY DEF SeriesInv, FindSeries
<1>2. CASE SeriesFor(t) = {}
  <2> DEFINE q == [req[t] EXCEPT !.at = "needsSeries"]
  <2>1. /\ q \in RequestRow /\ q.at = "needsSeries" /\ q.kind = req[t].kind
        /\ q.year = req[t].year /\ q.began = req[t].began
    BY <1>0 DEF RequestRow, States
  <2>2. req' = [req EXCEPT ![t] = q]
    BY <1>2 DEF FindSeries, Goto, SeriesInv, TypeOK
  <2> HIDE DEF q
  <2>3. req'[t] = q
    BY <2>2 DEF SeriesInv, TypeOK
  <2>4. Progress(t)'
    BY <1>1, <2>1, <2>3 DEF Progress, HasYear, HasSeries
  <2> QED
    BY <1>0, <1>1, <2>1, <2>2, <2>4, EmptyHanded
<1>3. CASE SeriesFor(t) # {}
  <2>1. PICK n \in SeriesFor(t) : req' = [req EXCEPT ![t].at = "hasSeries", ![t].series = n]
    BY <1>3 DEF FindSeries
  <2>2. n \in Nat /\ n \in 1..Len(series) /\ series[n].kind = req[t].kind
    BY DEF SeriesFor, SeriesInv, TypeOK
  <2> DEFINE q == [req[t] EXCEPT !.at = "hasSeries", !.series = n]
  <2>3. /\ q \in RequestRow /\ q.at = "hasSeries" /\ q.kind = req[t].kind
        /\ q.year = req[t].year /\ q.began = req[t].began /\ q.series = n
    BY <1>0, <2>2 DEF RequestRow, States
  <2>4. req' = [req EXCEPT ![t] = q]
    BY <2>1 DEF SeriesInv, TypeOK
  <2> HIDE DEF q
  <2>5. req'[t] = q
    BY <2>4 DEF SeriesInv, TypeOK
  <2>6. Progress(t)'
    BY <1>1, <2>2, <2>3, <2>5 DEF Progress, HasYear, HasSeries
  <2> QED
    BY <1>0, <1>1, <2>3, <2>4, <2>6, EmptyHanded
<1> QED
  BY <1>2, <1>3

\* It gets the lock of the row, which nobody has, and reads the next number.
LEMMA LockSeriesStep ==
    ASSUME SeriesInv, NEW t \in Requests, LockSeries(t)
    PROVE  SeriesInv'
<1>0. /\ req[t] \in RequestRow /\ today' \in FirstPeriod..LastPeriod
      /\ Progress(t) /\ req[t].at = "hasSeries" /\ UNCHANGED <<today, years, series, printed>>
  BY DEF SeriesInv, TypeOK, LockSeries
<1>1. req[t].series \in 1..Len(series) /\ series[req[t].series].kind = req[t].kind
  BY <1>0 DEF Progress, HasSeries
<1>2. series[req[t].series].next \in Nat
  BY <1>1, RowType DEF SeriesInv
<1> DEFINE q == [req[t] EXCEPT !.at = "locked", !.number = series[req[t].series].next]
<1>3. /\ q \in RequestRow /\ q.at = "locked" /\ q.kind = req[t].kind
      /\ q.year = req[t].year /\ q.began = req[t].began /\ q.series = req[t].series
      /\ q.number = series[req[t].series].next
  BY <1>0, <1>2 DEF RequestRow, States
<1>4. req' = [req EXCEPT ![t] = q]
  BY DEF LockSeries, SeriesInv, TypeOK
<1> HIDE DEF q
<1>5. req'[t] = q /\ \A u \in Requests : u # t => req'[u] = req[u]
  BY <1>4 DEF SeriesInv, TypeOK
<1>6. Progress(t)'
  BY <1>0, <1>1, <1>3, <1>5 DEF Progress, HasYear, HasSeries
<1>7. ASSUME NEW u \in Requests PROVE Apart(t, u)' /\ Apart(u, t)'
  BY <1>3, <1>5 DEF LockSeries, SeriesIsFree, Apart, Numbered
<1> QED
  BY <1>0, <1>3, <1>4, <1>6, <1>7, OneRequest

\* An approval looks for a number among those of its date.
LEMMA NumberByDateStep ==
    ASSUME SeriesInv, NEW t \in Requests, NumberByDate(t)
    PROVE  SeriesInv'
<1> DEFINE D == Dated(req[t].began)
           taken == {d.number : d \in D}
<1>0. /\ req[t] \in RequestRow /\ today' \in FirstPeriod..LastPeriod
      /\ Progress(t) /\ req[t].at = "numberless" /\ UNCHANGED <<today, years, series, printed>>
  BY DEF SeriesInv, TypeOK, NumberByDate
<1>1. Cardinality(taken) \in Nat
  <2>1. IsFiniteSet(D)
    BY FS_Subset DEF SeriesInv, Dated
  <2> DEFINE f == [d \in D |-> d.number]
  <2>2. f \in Surjection(D, taken)
    BY DEF Surjection
  <2>3. IsFiniteSet(taken)
    BY <2>1, <2>2, FS_Surjection
  <2> QED
    BY <2>3, FS_CardinalityType
<1>2. PICK n \in Nat : req' = [req EXCEPT ![t].at = "dated", ![t].number = n]
  <2>1. \E n \in (Cardinality(taken) + 1)..(Cardinality(taken) + 1 + Cardinality(taken)) :
           req' = [req EXCEPT ![t].at = "dated", ![t].number = n]
    BY DEF NumberByDate
  <2> HIDE DEF taken
  <2>2. (Cardinality(taken) + 1)..(Cardinality(taken) + 1 + Cardinality(taken)) \subseteq Nat
    BY <1>1
  <2> QED
    BY <2>1, <2>2
<1> DEFINE q == [req[t] EXCEPT !.at = "dated", !.number = n]
<1>3. q \in RequestRow /\ q.at = "dated" /\ q.kind = req[t].kind
  BY <1>0 DEF RequestRow, States
<1>4. req' = [req EXCEPT ![t] = q]
  BY <1>2 DEF SeriesInv, TypeOK
<1> HIDE DEF q
<1>5. req'[t] = q
  BY <1>4 DEF SeriesInv, TypeOK
<1>6. Progress(t)'
  BY <1>0, <1>3, <1>5 DEF Progress, HasYear, HasSeries
<1> QED
  BY <1>0, <1>3, <1>4, <1>6, EmptyHanded

\* The timeout closes the transaction of an approval, and nothing else.
LEMMA ExpireStep ==
    ASSUME SeriesInv, NEW t \in Requests, Expire(t)
    PROVE  SeriesInv'
<1>0. /\ req[t] \in RequestRow /\ today' \in FirstPeriod..LastPeriod
      /\ Progress(t) /\ UNCHANGED <<today, years, series, printed>>
  BY DEF SeriesInv, TypeOK, Expire
<1> DEFINE q == [req[t] EXCEPT !.tx = "expired"]
<1>1. /\ q \in RequestRow /\ q.at = req[t].at /\ q.kind = req[t].kind
      /\ q.year = req[t].year /\ q.began = req[t].began /\ q.series = req[t].series
      /\ q.number = req[t].number
  BY <1>0 DEF RequestRow
<1>2. req' = [req EXCEPT ![t] = q]
  BY DEF Expire, SeriesInv, TypeOK
<1> HIDE DEF q
<1>3. req'[t] = q /\ \A u \in Requests : u # t => req'[u] = req[u]
  BY <1>2 DEF SeriesInv, TypeOK
<1>4. Progress(t)'
  BY <1>0, <1>1, <1>3 DEF Progress, HasYear, HasSeries
<1>5. ASSUME NEW u \in Requests PROVE Apart(t, u)' /\ Apart(u, t)'
  BY <1>1, <1>3 DEF SeriesInv, Apart, Numbered
<1> QED
  BY <1>0, <1>1, <1>2, <1>4, <1>5, OneRequest DEF Numbered

-----------------------------------------------------------------------------
(* The steps that write.                                                   *)

\* The row of the first financial year.
LEMMA CreateYearStep ==
    ASSUME SeriesInv, NEW t \in Requests, CreateYear(t)
    PROVE  SeriesInv'
<1>0. /\ req[t] \in RequestRow /\ today' \in FirstPeriod..LastPeriod /\ years \in Seq(Nat)
      /\ Progress(t) /\ req[t].at = "needsYear" /\ UNCHANGED <<today, series, printed>>
  BY DEF SeriesInv, TypeOK, CreateYear
<1>1. CASE years # <<>>
  BY <1>0, <1>1, GivenUp DEF CreateYear, YearIsNew
<1>2. CASE years = <<>>
  <2> DEFINE y == CalendarYear(req[t].began)
             q == [req[t] EXCEPT !.at = "hasYear", !.year = 1]
  <2>1. y \in Nat /\ (Covers(y, req[t].began) \/ req[t].began = 2 * y)
    BY <1>0, CalendarType DEF RequestRow
  <2>2. /\ q \in RequestRow /\ q.at = "hasYear" /\ q.kind = req[t].kind /\ q.year = 1
        /\ q.began = req[t].began
    BY <1>0, 1 \in Nat DEF RequestRow, States
  <2>3. years' = Append(years, y)
    BY <1>2 DEF CreateYear, YearIsNew
  <2>4. req' = [req EXCEPT ![t] = q]
    <3>1. req' = [req EXCEPT ![t].at = "hasYear", ![t].year = Len(years) + 1]
      BY <1>2 DEF CreateYear, YearIsNew
    <3>2. Len(years) + 1 = 1
      BY <1>2
    <3> QED
      BY <3>1, <3>2 DEF SeriesInv, TypeOK
  <2> HIDE DEF q, y
  <2>5. years' \in Seq(Nat) /\ Len(years') = 1 /\ years'[1] = y
    BY <1>2, <2>1, <2>3
  <2>6. /\ req' \in [Requests -> RequestRow] /\ req'[t] = q
        /\ \A u \in Requests : u # t => req'[u] = req[u]
    BY <2>2, <2>4 DEF SeriesInv, TypeOK
  <2>7. TypeOK' /\ IsFiniteSet(printed)'
    BY <1>0, <2>5, <2>6 DEF SeriesInv, TypeOK
  <2>8. ASSUME NEW u \in Requests PROVE Progress(u)'
    <3>1. CASE u = t
      <4>1. Progress(t)'
        BY <1>0, <2>1, <2>2, <2>5, <2>6 DEF Progress, HasYear, HasSeries
      <4> QED
        BY <3>1, <4>1 DEF Progress
    <3>2. CASE u # t
      <4>1. Progress(u) /\ req'[u] = req[u]
        BY <2>6, <3>2 DEF SeriesInv
      <4>2. req[u].at \notin HasYear
        BY <1>2, <4>1 DEF Progress
      <4> QED
        BY <1>0, <4>1, <4>2 DEF Progress, HasYear, HasSeries
    <3> QED
      BY <3>1, <3>2
  <2>9. ASSUME NEW u \in Requests, NEW v \in Requests PROVE Apart(u, v)'
    <3>1. Apart(u, v)
      BY DEF SeriesInv
    <3> QED
      BY <2>2, <2>6, <3>1 DEF Apart, Numbered
  <2>10. OneSeries' /\ PrintedByASeries'
    BY <1>0, <2>5 DEF SeriesInv, OneSeries, PrintedByASeries
  <2>11. ASSUME NEW d \in printed, NEW n \in 1..Len(series) PROVE Behind(d, n)'
    <3>1. Behind(d, n)
      BY DEF SeriesInv
    <3>2. ASSUME NEW u \in Requests, Numbered(u)'
          PROVE  Numbered(u) /\ req'[u] = req[u]
      BY <2>2, <2>6, <3>2 DEF Numbered
    <3> QED
      BY <1>0, <3>1, <3>2 DEF Behind
  <2> QED
    BY <1>0, <2>7, <2>8, <2>9, <2>10, <2>11 DEF SeriesInv
<1> QED
  BY <1>1, <1>2

\* The number a request takes is behind the series and in nobody else's hand.
LEMMA TakeNumberStep ==
    ASSUME SeriesInv, NEW t \in Requests, TakeNumber(t)
    PROVE  SeriesInv'
<1>0. /\ req[t] \in RequestRow /\ today' \in FirstPeriod..LastPeriod
      /\ Progress(t) /\ req[t].at = "locked" /\ UNCHANGED <<today, years, printed>>
  BY DEF SeriesInv, TypeOK, TakeNumber
<1>1. PICK n \in 1..Len(series) : /\ n = req[t].series /\ series[n].kind = req[t].kind
                                  /\ req[t].number = series[n].next
  BY <1>0 DEF Progress, HasSeries
<1>2. series \in Seq(SeriesRow) /\ series[n] \in SeriesRow /\ series[n].next \in Nat
  BY RowType DEF SeriesInv, TypeOK
<1> DEFINE w == [series[n] EXCEPT !.next = series[n].next + 1]
           q == [req[t] EXCEPT !.at = "numbered"]
<1>3. /\ w \in SeriesRow /\ w.kind = series[n].kind /\ w.branch = series[n].branch
      /\ w.year = series[n].year /\ w.prefix = series[n].prefix
      /\ w.next = series[n].next + 1
  <2> DEFINE row == series[n]
             after == series[n].next + 1
  <2>1. row \in SeriesRow /\ after \in Nat
    BY <1>2
  <2> HIDE DEF row, after
  <2>2. LET x == [row EXCEPT !.next = after] IN
           /\ x \in SeriesRow /\ x.kind = row.kind /\ x.branch = row.branch
           /\ x.year = row.year /\ x.prefix = row.prefix /\ x.next = after
    BY <2>1 DEF SeriesRow
  <2> QED
    BY <2>2 DEF row, after
<1>4. series' = [series EXCEPT ![n] = w]
  BY <1>1, <1>2 DEF TakeNumber
<1>5. /\ q \in RequestRow /\ q.at = "numbered" /\ q.kind = req[t].kind
      /\ q.year = req[t].year /\ q.began = req[t].began /\ q.series = n
      /\ q.number = series[n].next
  BY <1>0, <1>1 DEF RequestRow, States
<1>6. req' = [req EXCEPT ![t] = q]
  BY DEF TakeNumber, Goto, SeriesInv, TypeOK
<1> HIDE DEF w, q
<1>7. /\ series' \in Seq(SeriesRow) /\ Len(series') = Len(series) /\ series'[n] = w
      /\ \A m \in 1..Len(series) : m # n => series'[m] = series[m]
  BY <1>2, <1>3, <1>4
<1>8. /\ req' \in [Requests -> RequestRow] /\ req'[t] = q
      /\ \A u \in Requests : u # t => req'[u] = req[u]
  BY <1>5, <1>6 DEF SeriesInv, TypeOK
<1>9. TypeOK' /\ IsFiniteSet(printed)'
  BY <1>0, <1>7, <1>8 DEF SeriesInv, TypeOK
<1>10. \A m \in 1..Len(series) :
          /\ series'[m].kind = series[m].kind /\ series'[m].branch = series[m].branch
          /\ series'[m].year = series[m].year /\ series'[m].prefix = series[m].prefix
          /\ series[m].next \in Nat
          /\ series'[m].next = IF m = n THEN series[m].next + 1 ELSE series[m].next
  BY <1>3, <1>7, RowType DEF SeriesInv
<1>11. ASSUME NEW u \in Requests PROVE Progress(u)'
  <2>1. CASE u = t
    <3>1. Progress(t)'
      <4>1. /\ q.kind \in Kinds /\ q.year \in 1..Len(years')
            /\ \/ Covers(years'[q.year], q.began)
               \/ q.began = 2 * years'[q.year]
        BY <1>0, <1>5 DEF Progress, HasYear
      <4>2. /\ q.series \in 1..Len(series') /\ series'[q.series].kind = q.kind
            /\ q.number < series'[q.series].next
        BY <1>1, <1>2, <1>3, <1>5, <1>7
      <4> QED
        BY <1>5, <1>8, <4>1, <4>2 DEF Progress
    <3> QED
      BY <2>1, <3>1 DEF Progress
  <2>2. CASE u # t
    <3>1. Progress(u) /\ Apart(t, u) /\ req'[u] = req[u] /\ req[u] \in RequestRow
      BY <1>8, <2>2 DEF SeriesInv, TypeOK
    <3>2. req[u].number \in Nat
      BY <3>1 DEF RequestRow
    <3>3. req[u].at = "locked" => req[u].series # n
      BY <1>0, <1>1, <2>2, <3>1 DEF Apart
    <3>4. CASE req[u].at \notin HasSeries
      BY <1>0, <3>1, <3>4 DEF Progress, HasYear, HasSeries
    <3>5. CASE req[u].at \in HasSeries
      <4>1. PICK m \in 1..Len(series) : m = req[u].series /\ series[m].kind = req[u].kind
        BY <3>1, <3>5 DEF Progress
      <4>2. req[u].at = "locked" => req[u].number = series'[m].next
        BY <1>10, <3>1, <3>3, <4>1 DEF Progress
      <4>3. req[u].at = "numbered" => req[u].number < series'[m].next
        <5>1. series'[m].next \in Nat /\ series[m].next <= series'[m].next
          BY <1>10
        <5>2. req[u].at = "numbered" => req[u].number < series[m].next
          BY <3>1, <4>1 DEF Progress
        <5> QED
          BY <1>10, <3>2, <5>1, <5>2
      <4>4. m \in 1..Len(series') /\ series'[m].kind = req[u].kind
        <5>1. series'[m].kind = series[m].kind
          BY <1>10
        <5> QED
          BY <1>7, <4>1, <5>1
      <4>5. /\ req'[u].at \notin {"new", "done", "refused"} => req'[u].kind \in Kinds
            /\ req'[u].at \in HasYear =>
                  /\ req'[u].year \in 1..Len(years')
                  /\ \/ Covers(years'[req'[u].year], req'[u].began)
                     \/ req'[u].began = 2 * years'[req'[u].year]
        BY <1>0, <3>1 DEF Progress
      <4>6. /\ req'[u].series \in 1..Len(series')
            /\ series'[req'[u].series].kind = req'[u].kind
            /\ req'[u].at = "locked" => req'[u].number = series'[req'[u].series].next
            /\ req'[u].at = "numbered" => req'[u].number < series'[req'[u].series].next
        BY <3>1, <4>1, <4>2, <4>3, <4>4
      <4> QED
        BY <4>5, <4>6 DEF Progress
    <3> QED
      BY <3>4, <3>5
  <2> QED
    BY <2>1, <2>2
<1>12. ASSUME NEW u \in Requests, u # t, Numbered(u), req[u].series = n
       PROVE  req[u].number < series[n].next /\ req[u].number \in Nat
  <2>1. Progress(u) /\ req[u] \in RequestRow
    BY DEF SeriesInv, TypeOK
  <2>2. req[u].number \in Nat
    BY <2>1 DEF RequestRow
  <2> QED
    BY <1>12, <2>1, <2>2 DEF Progress, Numbered
<1>13. ASSUME NEW u \in Requests, NEW v \in Requests PROVE Apart(u, v)'
  <2>1. CASE u # t /\ v # t
    <3>1. Apart(u, v)
      BY DEF SeriesInv
    <3> QED
      BY <1>8, <2>1, <3>1 DEF Apart, Numbered
  <2>2. ASSUME NEW x \in Requests, x # t, req'[x].series = req'[t].series, Numbered(x)'
        PROVE  req'[x].number # req'[t].number
    BY <1>2, <1>5, <1>8, <1>12, <2>2 DEF Numbered
  <2>3. CASE u = t /\ v # t
    BY <1>5, <1>8, <2>2, <2>3 DEF Apart, Numbered
  <2>4. CASE v = t /\ u # t
    BY <1>5, <1>8, <2>2, <2>4 DEF Apart, Numbered
  <2>5. CASE u = t /\ v = t
    BY <2>5 DEF Apart
  <2> QED
    BY <2>1, <2>3, <2>4, <2>5
<1>14. OneSeries'
  <2>1. /\ Len(series') = Len(series)
        /\ \A m \in 1..Len(series) :
              /\ series'[m].kind = series[m].kind /\ series'[m].branch = series[m].branch
              /\ series'[m].year = series[m].year /\ series'[m].prefix = series[m].prefix
    BY <1>7, <1>10
  <2>2. Len(years') <= 1
    BY <1>0 DEF SeriesInv, OneSeries
  <2>3. ASSUME NEW m \in 1..Len(series)
        PROVE  /\ series'[m].year = 1
               /\ series'[m].prefix[1] = series'[m].kind
               /\ series'[m].kind = "INV" => series'[m].prefix[2] = series'[m].branch
    BY <2>1 DEF SeriesInv, OneSeries
  <2>4. ASSUME NEW m \in 1..Len(series), NEW k \in 1..Len(series),
               series'[m].kind = "INV", series'[k].kind = "INV",
               series'[m].branch = series'[k].branch
        PROVE  m = k
    BY <2>1, <2>4 DEF SeriesInv, OneSeries
  <2> QED
    BY <2>1, <2>2, <2>3, <2>4 DEF OneSeries
<1>15. PrintedByASeries'
  BY <1>0, <1>7, <1>10 DEF SeriesInv, PrintedByASeries
<1>16. ASSUME NEW d \in printed, NEW m \in 1..Len(series) PROVE Behind(d, m)'
  <2>1. Behind(d, m) /\ d.number \in Nat
    BY DEF SeriesInv, TypeOK
  <2>2. ASSUME NEW u \in Requests, Numbered(u)', req'[u].series = m,
               series[m].kind = "INV", d.prefix = series[m].prefix
        PROVE  req'[u].number # d.number
    <3>1. CASE u # t
      BY <1>8, <2>1, <2>2, <3>1 DEF Behind, Numbered
    <3>2. CASE u = t
      BY <1>2, <1>5, <1>8, <2>1, <2>2, <3>2 DEF Behind
    <3> QED
      BY <3>1, <3>2
  <2> QED
    BY <1>0, <1>10, <2>1, <2>2 DEF Behind
<1> QED
  BY <1>0, <1>7, <1>9, <1>11, <1>13, <1>14, <1>15, <1>16 DEF SeriesInv

\* A series that is created is the first of its branch and kind, and gives
\* out 1: no document can have one of its numbers.
LEMMA CreateSeriesStep ==
    ASSUME SeriesInv, NEW t \in Requests, CreateSeries(t)
    PROVE  SeriesInv'
<1>0. /\ req[t] \in RequestRow /\ today' \in FirstPeriod..LastPeriod
      /\ Progress(t) /\ req[t].at = "needsSeries" /\ UNCHANGED <<today, years, printed>>
  BY DEF SeriesInv, TypeOK, CreateSeries
<1>1. CASE SeriesFor(t) # {}
  BY <1>0, <1>1, GivenUp DEF CreateSeries, SeriesIsNew
<1>2. CASE SeriesFor(t) = {}
  <2> DEFINE w == NewSeries(t)
             n == Len(series) + 1
             q == [req[t] EXCEPT !.at = "numbered", !.series = n, !.number = 1]
  <2>1. /\ req[t].kind \in Kinds /\ req[t].year \in 1..Len(years) /\ req[t].began \in Nat
        /\ series \in Seq(SeriesRow) /\ Len(series) \in Nat
    BY <1>0 DEF SeriesInv, TypeOK, Progress, HasYear, RequestRow
  <2>2. req[t].year = 1
    BY <2>1 DEF SeriesInv, TypeOK, OneSeries
  <2>3. BranchOf[t] \in Branches
    BY SeriesAssumption
  <2>4. /\ w \in SeriesRow /\ w.kind = req[t].kind /\ w.branch = BranchOf[t]
        /\ w.year = 1 /\ w.next = 2 /\ w.prefix[1] = w.kind
        /\ w.kind = "INV" => w.prefix[2] = w.branch
    BY <2>1, <2>2, <2>3, PrefixType, 1 \in Nat, 2 \in Nat DEF NewSeries, SeriesRow
  <2>5. /\ q \in RequestRow /\ q.at = "numbered" /\ q.kind = req[t].kind
        /\ q.year = req[t].year /\ q.began = req[t].began /\ q.series = n /\ q.number = 1
    <3>1. n \in Nat
      BY <2>1
    <3> HIDE DEF n
    <3> QED
      BY <1>0, <3>1, 1 \in Nat DEF RequestRow, States
  <2>6. series' = Append(series, w)
    BY <1>2 DEF CreateSeries, SeriesIsNew
  <2>7. req' = [req EXCEPT ![t] = q]
    BY <1>2 DEF CreateSeries, SeriesIsNew, SeriesInv, TypeOK
  <2>8. \A m \in 1..Len(series) :
           ~(series[m].kind = req[t].kind /\ series[m].branch = BranchOf[t])
    BY <1>2, <2>2 DEF SeriesFor, SeriesInv, OneSeries
  <2> HIDE DEF w, q
  <2>9. /\ series' \in Seq(SeriesRow) /\ Len(series') = n /\ series'[n] = w
        /\ \A m \in 1..Len(series) : series'[m] = series[m]
    BY <2>1, <2>4, <2>6
  <2>10. n \in Nat /\ 1..n = 1..Len(series) \cup {n} /\ n \notin 1..Len(series)
    BY <2>1
  <2> HIDE DEF n
  <2>11. /\ req' \in [Requests -> RequestRow] /\ req'[t] = q
         /\ \A u \in Requests : u # t => req'[u] = req[u]
    BY <2>5, <2>7 DEF SeriesInv, TypeOK
  <2>12. TypeOK' /\ IsFiniteSet(printed)'
    BY <1>0, <2>9, <2>11 DEF SeriesInv, TypeOK
  <2>13. ASSUME NEW u \in Requests PROVE Progress(u)'
    <3>1. CASE u = t
      <4>1. Progress(t)'
        BY <1>0, <2>4, <2>5, <2>9, <2>10, <2>11 DEF Progress, HasYear, HasSeries
      <4> QED
        BY <3>1, <4>1 DEF Progress
    <3>2. CASE u # t
      <4>1. Progress(u) /\ req'[u] = req[u]
        BY <2>11, <3>2 DEF SeriesInv
      <4>2. CASE req[u].at \notin HasSeries
        BY <1>0, <4>1, <4>2 DEF Progress, HasYear, HasSeries
      <4>3. CASE req[u].at \in HasSeries
        <5>1. req[u].series \in 1..Len(series)
          BY <4>1, <4>3 DEF Progress
        <5>2. req[u].series \in 1..n /\ series'[req[u].series] = series[req[u].series]
          BY <2>9, <2>10, <5>1
        <5> QED
          BY <1>0, <2>9, <4>1, <5>2 DEF Progress
      <4> QED
        BY <4>2, <4>3
    <3> QED
      BY <3>1, <3>2
  <2>14. ASSUME NEW u \in Requests, u # t, req[u].at \in HasSeries
         PROVE  req'[u].series # n
    <3>1. Progress(u)
      BY DEF SeriesInv
    <3> QED
      BY <2>10, <2>11, <2>14, <3>1 DEF Progress
  <2>15. ASSUME NEW u \in Requests, NEW v \in Requests PROVE Apart(u, v)'
    <3>1. CASE u # t /\ v # t
      <4>1. Apart(u, v)
        BY DEF SeriesInv
      <4> QED
        BY <2>11, <3>1, <4>1 DEF Apart, Numbered
    <3>2. CASE u = t /\ v # t
      BY <2>5, <2>11, <2>14, <3>2 DEF Apart, Numbered, HasSeries
    <3>3. CASE v = t /\ u # t
      BY <2>5, <2>11, <2>14, <3>3 DEF Apart, Numbered, HasSeries
    <3>4. CASE u = t /\ v = t
      BY <3>4 DEF Apart
    <3> QED
      BY <3>1, <3>2, <3>3, <3>4
  <2>16. OneSeries'
    <3>1. Len(years') <= 1
      BY <1>0 DEF SeriesInv, OneSeries
    <3>2. ASSUME NEW m \in 1..n
          PROVE  /\ series'[m].year = 1
                 /\ series'[m].prefix[1] = series'[m].kind
                 /\ series'[m].kind = "INV" => series'[m].prefix[2] = series'[m].branch
      BY <2>4, <2>9, <2>10 DEF SeriesInv, OneSeries
    <3>3. ASSUME NEW m \in 1..n, NEW k \in 1..n,
                 series'[m].kind = "INV", series'[k].kind = "INV",
                 series'[m].branch = series'[k].branch
          PROVE  m = k
      <4>1. CASE m \in 1..Len(series) /\ k \in 1..Len(series)
        BY <2>9, <3>3, <4>1 DEF SeriesInv, OneSeries
      <4>2. CASE m = n /\ k \in 1..Len(series)
        BY <2>4, <2>8, <2>9, <3>3, <4>2
      <4>3. CASE k = n /\ m \in 1..Len(series)
        BY <2>4, <2>8, <2>9, <3>3, <4>3
      <4> QED
        BY <2>10, <4>1, <4>2, <4>3
    <3> QED
      BY <2>9, <3>1, <3>2, <3>3 DEF OneSeries
  <2>17. PrintedByASeries'
    BY <1>0, <2>9, <2>10 DEF SeriesInv, PrintedByASeries
  <2>18. ASSUME NEW d \in printed, NEW m \in 1..n PROVE Behind(d, m)'
    <3>1. CASE m \in 1..Len(series)
      <4>1. Behind(d, m)
        BY <3>1 DEF SeriesInv
      <4>2. ASSUME NEW u \in Requests, Numbered(u)', req'[u].series = m
            PROVE  Numbered(u) /\ req'[u] = req[u]
        BY <2>5, <2>10, <2>11, <3>1, <4>2 DEF Numbered
      <4> QED
        BY <2>9, <3>1, <4>1, <4>2 DEF Behind
    <3>2. CASE m = n
      <4> SUFFICES ASSUME w.kind = "INV", d.prefix = w.prefix PROVE FALSE
        BY <2>9, <3>2 DEF Behind
      <4>1. d.prefix[1] = "INV" /\ d.prefix[2] = BranchOf[t]
        BY <2>4
      <4>2. PICK k \in 1..Len(series) : series[k].prefix = d.prefix
        BY <1>0, <4>1 DEF SeriesInv, PrintedByASeries
      <4>3. series[k].kind = "INV" /\ series[k].branch = BranchOf[t]
        BY <4>1, <4>2 DEF SeriesInv, OneSeries
      <4> QED
        BY <2>4, <2>8, <4>3
    <3> QED
      BY <2>10, <3>1, <3>2
  <2> QED
    BY <1>0, <2>9, <2>12, <2>13, <2>15, <2>16, <2>17, <2>18 DEF SeriesInv
<1> QED
  BY <1>1, <1>2

\* What is printed leaves the hand of its request, and it was in no other.
LEMMA InsertDocumentStep ==
    ASSUME SeriesInv, NEW t \in Requests, InsertDocument(t)
    PROVE  SeriesInv'
<1>0. /\ req[t] \in RequestRow /\ today' \in FirstPeriod..LastPeriod /\ Progress(t)
      /\ req[t].at \in {"numbered", "dated"} /\ UNCHANGED <<today, years, series>>
  BY DEF SeriesInv, TypeOK, InsertDocument
<1>1. CASE Printed(t) \in printed
  BY <1>0, <1>1, Answered DEF InsertDocument
<1>2. CASE Printed(t) \notin printed
  <2> DEFINE q == [NoRequest EXCEPT !.at = "done"]
             e == Printed(t)
  <2>1. q \in RequestRow /\ q.at = "done"
    BY AnsweredType DEF NoRequest
  <2>2. req' = [req EXCEPT ![t] = q] /\ printed' = printed \cup {e}
    BY <1>2 DEF InsertDocument, Answer
  <2>3. ASSUME req[t].at = "dated"
        PROVE  e \in [prefix : Prefixes, number : Nat] /\ e.prefix[1] = "date"
    BY <1>0, <2>3 DEF Printed, Prefixes, RequestRow
  <2>4. ASSUME Numbered(t)
        PROVE  /\ e \in [prefix : Prefixes, number : Nat] /\ e.number = req[t].number
               /\ req[t].series \in 1..Len(series) /\ e.prefix = series[req[t].series].prefix
    <3>1. req[t].series \in 1..Len(series) /\ req[t].number \in Nat
      BY <1>0, <2>4 DEF Progress, Numbered, HasSeries, RequestRow
    <3>2. series[req[t].series].prefix \in Prefixes
      BY <3>1, RowType DEF SeriesInv
    <3> QED
      BY <2>4, <3>1, <3>2 DEF Printed, Numbered
  <2> HIDE DEF q, e
  <2>5. /\ req' \in [Requests -> RequestRow] /\ req'[t] = q
        /\ \A u \in Requests : u # t => req'[u] = req[u]
    BY <2>1, <2>2 DEF SeriesInv, TypeOK
  <2>6. e \in [prefix : Prefixes, number : Nat]
    BY <1>0, <2>3, <2>4 DEF Numbered
  <2>7. TypeOK'
    BY <1>0, <2>2, <2>5, <2>6 DEF SeriesInv, TypeOK
  <2>8. IsFiniteSet(printed)'
    BY <2>2, FS_AddElement DEF SeriesInv
  <2>9. ASSUME NEW u \in Requests PROVE Progress(u)'
    <3>1. CASE u = t
      <4>1. Progress(t)'
        BY <2>1, <2>5 DEF Progress, HasYear, HasSeries
      <4> QED
        BY <3>1, <4>1 DEF Progress
    <3>2. CASE u # t
      BY <1>0, <2>5, <3>2 DEF SeriesInv, Progress
    <3> QED
      BY <3>1, <3>2
  <2>10. ASSUME NEW u \in Requests, NEW v \in Requests PROVE Apart(u, v)'
    <3>1. Apart(u, v)
      BY DEF SeriesInv
    <3> QED
      BY <2>1, <2>5, <3>1 DEF Apart, Numbered
  <2>11. OneSeries'
    BY <1>0 DEF SeriesInv, OneSeries
  <2>12. PrintedByASeries'
    <3>1. e.prefix[1] = "INV" => \E n \in 1..Len(series) : series[n].prefix = e.prefix
      BY <1>0, <2>3, <2>4 DEF Numbered
    <3> QED
      BY <1>0, <2>2, <3>1 DEF SeriesInv, PrintedByASeries
  <2>13. ASSUME NEW u \in Requests, Numbered(u)'
         PROVE  u # t /\ Numbered(u) /\ req'[u] = req[u]
    BY <2>1, <2>5, <2>13 DEF Numbered
  <2>14. ASSUME NEW d \in printed, NEW n \in 1..Len(series) PROVE Behind(d, n)'
    <3>1. Behind(d, n)
      BY DEF SeriesInv
    <3> QED
      BY <1>0, <2>13, <3>1 DEF Behind
  <2>15. ASSUME NEW n \in 1..Len(series), series[n].kind = "INV", e.prefix = series[n].prefix
         PROVE  /\ e.number < series[n].next
                /\ \A u \in Requests :
                      Numbered(u)' /\ req'[u].series = n => req'[u].number # e.number
    <3>1. e.prefix[1] = "INV" /\ e.prefix[2] = series[n].branch
      BY <2>15 DEF SeriesInv, OneSeries
    <3>2. Numbered(t)
      BY <1>0, <2>3, <3>1 DEF Numbered
    <3>3. PICK m \in 1..Len(series) : m = req[t].series /\ e.prefix = series[m].prefix
      BY <2>4, <3>2
    <3>4. series[m].kind = "INV" /\ series[m].branch = series[n].branch
      BY <3>1, <3>3 DEF SeriesInv, OneSeries
    <3>5. m = n
      BY <2>15, <3>4 DEF SeriesInv, OneSeries
    <3>6. e.number < series[n].next
      BY <1>0, <2>4, <3>2, <3>3, <3>5 DEF Progress, Numbered
    <3>7. ASSUME NEW u \in Requests, Numbered(u)', req'[u].series = n
          PROVE  req'[u].number # e.number
      <4>1. Apart(t, u)
        BY DEF SeriesInv
      <4> QED
        BY <2>4, <2>13, <3>2, <3>3, <3>5, <3>7, <4>1 DEF Apart
    <3> QED
      BY <3>6, <3>7
  <2>16. ASSUME NEW d \in printed', NEW n \in 1..Len(series) PROVE Behind(d, n)'
    <3>1. CASE d = e
      BY <1>0, <2>15, <3>1 DEF Behind
    <3> QED
      BY <2>2, <2>14, <3>1
  <2> QED
    BY <1>0, <2>7, <2>8, <2>9, <2>10, <2>11, <2>12, <2>16 DEF SeriesInv
<1> QED
  BY <1>1, <1>2

-----------------------------------------------------------------------------
(* The invariant.                                                          *)

\* A company starts with no year, or with one and some series of it.
LEMMA SeriesInvInit == ASSUME Init PROVE SeriesInv
<1>1. /\ today \in FirstPeriod..LastPeriod
      /\ req \in [Requests -> RequestRow] /\ \A t \in Requests : req[t].at = "new"
      /\ printed = {} /\ IsFiniteSet(printed)
  BY SeriesAssumption, FS_EmptySet, 0 \in Nat DEF Init, NoRequest, RequestRow, States
<1>2. PICK S \in Seedings :
         /\ years = IF S = {} THEN <<>> ELSE <<(FirstPeriod - 1) \div 2>>
         /\ \E s \in [1..Cardinality(Kinds \X S) -> Kinds \X S] :
               /\ \A m, n \in DOMAIN s : s[m] = s[n] => m = n
               /\ series = [n \in DOMAIN s |->
                      [kind |-> s[n][1], branch |-> s[n][2], year |-> 1,
                       prefix |-> Prefix(s[n][1], s[n][2], FirstPeriod), next |-> 2]]
  BY DEF Init
<1> DEFINE N == Cardinality(Kinds \X S)
<1>3. PICK s \in [1..N -> Kinds \X S] :
         /\ \A m, n \in 1..N : s[m] = s[n] => m = n
         /\ series = [n \in 1..N |->
                [kind |-> s[n][1], branch |-> s[n][2], year |-> 1,
                 prefix |-> Prefix(s[n][1], s[n][2], FirstPeriod), next |-> 2]]
  <2>1. \A s \in [1..N -> Kinds \X S] : DOMAIN s = 1..N
    OBVIOUS
  <2>2. PICK s \in [1..N -> Kinds \X S] :
           /\ \A m, n \in DOMAIN s : s[m] = s[n] => m = n
           /\ series = [n \in DOMAIN s |->
                  [kind |-> s[n][1], branch |-> s[n][2], year |-> 1,
                   prefix |-> Prefix(s[n][1], s[n][2], FirstPeriod), next |-> 2]]
    BY <1>2
  <2>3. DOMAIN s = 1..N
    BY <2>1
  <2> HIDE DEF N
  <2> QED
    BY <2>2, <2>3
<1>4. N \in Nat
  <2>1. IsFiniteSet(Kinds)
    <3>1. IsFiniteSet({}) /\ IsFiniteSet({} \cup {"INV"})
      BY FS_EmptySet, FS_AddElement
    <3>2. IsFiniteSet(({} \cup {"INV"}) \cup {"APP"})
      BY <3>1, FS_AddElement
    <3>3. Kinds = ({} \cup {"INV"}) \cup {"APP"}
      BY DEF Kinds
    <3> QED
      BY <3>2, <3>3
  <2>2. IsFiniteSet(Kinds \X S)
    BY <2>1, SeriesAssumption, FS_Product
  <2> QED
    BY <2>2, FS_CardinalityType
<1> HIDE DEF N
<1>5. (FirstPeriod - 1) \div 2 \in Nat
  BY SeriesAssumption
<1>6. years \in Seq(Nat) /\ Len(years) <= 1
  BY <1>2, <1>5
<1>7. ASSUME NEW n \in 1..N
      PROVE  /\ s[n] = <<s[n][1], s[n][2]>> /\ s[n][1] \in Kinds /\ s[n][2] \in Branches
             /\ series[n] \in SeriesRow
             /\ series[n].kind = s[n][1] /\ series[n].branch = s[n][2]
             /\ series[n].year = 1
             /\ series[n].prefix[1] = series[n].kind
             /\ series[n].kind = "INV" => series[n].prefix[2] = series[n].branch
  <2>1. s[n] = <<s[n][1], s[n][2]>> /\ s[n][1] \in Kinds /\ s[n][2] \in Branches
    BY <1>3, SeriesAssumption
  <2> DEFINE w == [kind |-> s[n][1], branch |-> s[n][2], year |-> 1,
                   prefix |-> Prefix(s[n][1], s[n][2], FirstPeriod), next |-> 2]
  <2>2. series[n] = w
    BY <1>3
  <2>3. /\ w \in SeriesRow /\ w.kind = s[n][1] /\ w.branch = s[n][2] /\ w.year = 1
        /\ w.prefix[1] = w.kind
        /\ w.kind = "INV" => w.prefix[2] = w.branch
    BY <2>1, PrefixType, SeriesAssumption, 1 \in Nat, 2 \in Nat DEF SeriesRow
  <2> QED
    BY <2>1, <2>2, <2>3
<1>8. series \in Seq(SeriesRow) /\ Len(series) = N
  BY <1>3, <1>4, <1>7
<1>9. OneSeries
  <2>1. ASSUME NEW m \in 1..N, NEW n \in 1..N,
               series[m].kind = series[n].kind, series[m].branch = series[n].branch
        PROVE  m = n
    <3>1. s[m] = s[n]
      BY <1>7, <2>1
    <3> QED
      BY <1>3, <3>1
  <2> QED
    BY <1>6, <1>7, <1>8, <2>1 DEF OneSeries
<1>10. \A t \in Requests : Progress(t)
  BY <1>1 DEF Progress, HasYear, HasSeries
<1>11. \A t, u \in Requests : Apart(t, u)
  BY <1>1 DEF Apart, Numbered
<1>12. TypeOK
  BY <1>1, <1>6, <1>8 DEF TypeOK
<1> QED
  BY <1>1, <1>9, <1>10, <1>11, <1>12 DEF SeriesInv, PrintedByASeries

\* Every step keeps it.
LEMMA SeriesInvStep == ASSUME SeriesInv, [Next]_vars PROVE SeriesInv'
<1>1. ASSUME NEW t \in Requests, FindExpired(t) PROVE SeriesInv'
  BY <1>1, Answered DEF FindExpired
<1>2. ASSUME NEW t \in Requests, Fail(t) PROVE SeriesInv'
  BY <1>2, Answered, GivenUp DEF Fail
<1>3. ASSUME NEW t \in Requests, Step(t) PROVE SeriesInv'
  BY <1>1, <1>3, FindYearStep, CreateYearStep, FindSeriesStep, CreateSeriesStep,
     LockSeriesStep, TakeNumberStep, NumberByDateStep, InsertDocumentStep DEF Step
<1>4. CASE today' \in FirstPeriod..LastPeriod /\ UNCHANGED <<years, series, req, printed>>
  BY <1>4 DEF SeriesInv, TypeOK, Progress, Apart, Numbered, OneSeries, PrintedByASeries, Behind
<1>5. CASE TurnPeriod
  <2>1. today' \in FirstPeriod..LastPeriod
    BY <1>5, SeriesAssumption DEF TurnPeriod, SeriesInv, TypeOK
  <2> QED
    BY <1>4, <1>5, <2>1 DEF TurnPeriod
<1>6. CASE UNCHANGED vars
  BY <1>4, <1>6 DEF vars, SeriesInv, TypeOK
<1> QED
  BY <1>2, <1>3, <1>5, <1>6, ExpireStep, ArriveStep DEF Next

\* So it holds for good.
LEMMA SeriesInvariant == Spec => []SeriesInv
<1> QED
  BY SeriesInvInit, SeriesInvStep, PTL DEF Spec

\* The rows and the requests in flight keep their types.
THEOREM SeriesTypeCorrect == Spec => []TypeOK
<1>1. SeriesInv => TypeOK
  BY DEF SeriesInv
<1> QED
  BY <1>1, SeriesInvariant, PTL

\* A series never hands out a number twice and stays ahead of all it has
\* handed out (the FOR UPDATE in getNextNumber).
THEOREM NoNumberTwice == Spec => []SeriesStaysAhead
<1>1. SeriesInv => SeriesStaysAhead
  <2> SUFFICES ASSUME SeriesInv, NEW t \in Requests, Numbered(t)
               PROVE  /\ req[t].number < series[req[t].series].next
                      /\ \A u \in Requests \ {t} :
                            Numbered(u) /\ req[u].series = req[t].series
                               => req[u].number # req[t].number
    BY DEF SeriesStaysAhead
  <2>1. req[t].number < series[req[t].series].next
    BY DEF SeriesInv, Progress, Numbered
  <2>2. ASSUME NEW u \in Requests \ {t}, Numbered(u), req[u].series = req[t].series
        PROVE  req[u].number # req[t].number
    BY <2>2 DEF SeriesInv, Apart
  <2> QED
    BY <2>1, <2>2
<1> QED
  BY <1>1, SeriesInvariant, PTL

\* The insert of an invoice is never refused for the number it was given.
THEOREM InvoiceNumbersNeverCollide == Spec => []NumbersNeverCollide
<1>1. SeriesInv => NumbersNeverCollide
  <2> SUFFICES ASSUME SeriesInv, NEW t \in Requests, req[t].kind = "INV", Numbered(t),
                      Printed(t) \in printed
               PROVE  FALSE
    BY DEF NumbersNeverCollide
  <2>1. /\ req[t].series \in 1..Len(series) /\ series[req[t].series].kind = "INV"
    BY DEF SeriesInv, Progress, Numbered, HasSeries
  <2>2. /\ Printed(t).prefix = series[req[t].series].prefix
        /\ Printed(t).number = req[t].number
    BY DEF Printed, Numbered
  <2>3. Behind(Printed(t), req[t].series)
    BY <2>1 DEF SeriesInv
  <2> QED
    BY <2>1, <2>2, <2>3 DEF Behind
<1> QED
  BY <1>1, SeriesInvariant, PTL

\* A document is numbered in the financial year of its date, the first ones of
\* a company before April excepted.
THEOREM NumberedInTheYear == Spec => []NumberedInItsYear
<1>1. SeriesInv => NumberedInItsYear
  BY DEF SeriesInv, Progress, Numbered, HasYear, NumberedInItsYear
<1> QED
  BY <1>1, SeriesInvariant, PTL

-----------------------------------------------------------------------------
(* The numbers of a date.                                                  *)

NumbersOf(p) == {d.number : d \in Dated(p)}

\* The numbers of a date are 1, 2, 3, ..., and an approval that has found its
\* number by date has one of them or the next.
DatesInv ==
    /\ \A p \in Nat : NumbersOf(p) = 1..Cardinality(Dated(p))
    /\ \A t \in Requests : req[t].at = "dated" =>
          req[t].number \in 1..Cardinality(Dated(req[t].began)) + 1

\* How many documents have a date is a number.
LEMMA DatedIsCounted ==
    ASSUME SeriesInv, NEW p
    PROVE  IsFiniteSet(Dated(p)) /\ Cardinality(Dated(p)) \in Nat
<1>1. IsFiniteSet(Dated(p))
  BY FS_Subset DEF SeriesInv, Dated
<1> QED
  BY <1>1, FS_CardinalityType

\* The search ends where it starts: at the number after the last.
LEMMA FoundByDate ==
    ASSUME SeriesInv, DatesInv, NEW t \in Requests, NumberByDate(t)
    PROVE  /\ req'[t].number = Cardinality(Dated(req[t].began)) + 1
           /\ req'[t].began = req[t].began
<1> DEFINE p == req[t].began
           c == Cardinality(Dated(p))
           taken == {d.number : d \in Dated(p)}
<1>1. p \in Nat /\ c \in Nat
  BY DatedIsCounted DEF SeriesInv, TypeOK, RequestRow
<1>2. taken = 1..c
  BY <1>1 DEF DatesInv, NumbersOf
<1>3. PICK n \in (Cardinality(taken) + 1)..(Cardinality(taken) + 1 + Cardinality(taken)) :
         /\ (Cardinality(taken) + 1)..(n - 1) \subseteq taken
         /\ req' = [req EXCEPT ![t].at = "dated", ![t].number = n]
  BY DEF NumberByDate
<1>4. req'[t].number = n /\ req'[t].began = req[t].began
  BY <1>3 DEF SeriesInv, TypeOK, RequestRow
<1> HIDE DEF p, c, taken
<1>5. Cardinality(taken) = c
  <2>1. Cardinality(1..c) = c
    BY <1>1, FS_Interval, 1 \in Int
  <2> QED
    BY <1>2, <2>1
<1>6. n = c + 1
  <2>1. n \in (c + 1)..(c + 1 + c) /\ (c + 1)..(n - 1) \subseteq 1..c
    BY <1>2, <1>3, <1>5
  <2>2. c + 1 \notin 1..c
    BY <1>1
  <2>3. c + 1 \notin (c + 1)..(n - 1)
    BY <2>1, <2>2
  <2> QED
    BY <1>1, <2>1, <2>3
<1> QED
  BY <1>4, <1>6 DEF c, p

\* A request comes by a number of a date in no other way.
LEMMA DatedOnlyByDate ==
    ASSUME SeriesInv, Next, NEW u \in Requests, req'[u].at = "dated"
    PROVE  \/ /\ req[u].at = "dated" /\ req'[u].number = req[u].number
              /\ req'[u].began = req[u].began
           \/ NumberByDate(u)
<1>0. req \in [Requests -> RequestRow]
  BY DEF SeriesInv, TypeOK
<1> DEFINE Same == /\ req[u].at = "dated" /\ req'[u].number = req[u].number
                   /\ req'[u].began = req[u].began
<1>1. ASSUME NEW t \in Requests, NEW state \in {"done", "refused"}, Answer(t, state)
      PROVE  Same
  BY <1>0, <1>1 DEF Answer, NoRequest
<1>2. ASSUME NEW t \in Requests, NEW state \in {"done", "refused"}, GiveUp(t, state)
      PROVE  Same
  BY <1>0, <1>1, <1>2 DEF GiveUp, RequestRow
<1>3. ASSUME NEW t \in Requests, NEW kind \in Kinds, Arrive(t, kind) PROVE Same
  BY <1>0, <1>3 DEF Arrive, RequestRow
<1>4. ASSUME NEW t \in Requests, FindYear(t) PROVE Same
  BY <1>0, <1>4 DEF FindYear, RequestRow
<1>5. ASSUME NEW t \in Requests, CreateYear(t) PROVE Same
  BY <1>0, <1>2, <1>5 DEF CreateYear, RequestRow
<1>6. ASSUME NEW t \in Requests, FindSeries(t) PROVE Same
  BY <1>0, <1>6 DEF FindSeries, Goto, RequestRow
<1>7. ASSUME NEW t \in Requests, CreateSeries(t) PROVE Same
  <2>1. CASE SeriesIsNew(t)
    <3> DEFINE n == Len(series) + 1
    <3>1. req' = [req EXCEPT ![t].at = "numbered", ![t].series = n, ![t].number = 1]
      BY <1>7, <2>1 DEF CreateSeries
    <3> HIDE DEF n
    <3> QED
      BY <1>0, <3>1 DEF RequestRow
  <2>2. CASE ~SeriesIsNew(t)
    BY <1>2, <1>7, <2>2 DEF CreateSeries
  <2> QED
    BY <2>1, <2>2
<1>8. ASSUME NEW t \in Requests, LockSeries(t) PROVE Same
  <2>1. /\ req[t].at = "hasSeries" /\ req' = [req EXCEPT ![t] = req'[t]]
        /\ req'[t].at = "locked"
    BY <1>0, <1>8 DEF LockSeries, RequestRow
  <2> QED
    BY <1>0, <2>1
<1>9. ASSUME NEW t \in Requests, TakeNumber(t) PROVE Same
  BY <1>0, <1>9 DEF TakeNumber, Goto, RequestRow
<1>10. ASSUME NEW t \in Requests, NumberByDate(t), t # u PROVE Same
  BY <1>0, <1>10 DEF NumberByDate
<1>11. ASSUME NEW t \in Requests, InsertDocument(t) \/ FindExpired(t) PROVE Same
  BY <1>1, <1>11 DEF InsertDocument, FindExpired
<1>12. ASSUME NEW t \in Requests, Fail(t) PROVE Same
  BY <1>1, <1>2, <1>12 DEF Fail
<1>13. ASSUME NEW t \in Requests, Expire(t) PROVE Same
  BY <1>0, <1>13 DEF Expire, RequestRow
<1>14. CASE TurnPeriod
  BY <1>14 DEF TurnPeriod
<1> QED
  BY <1>3, <1>4, <1>5, <1>6, <1>7, <1>8, <1>9, <1>10, <1>11, <1>12, <1>13, <1>14
     DEF Next, Step

\* A step that prints nothing keeps the dates.
LEMMA NothingPrinted ==
    ASSUME SeriesInv, DatesInv, Next, UNCHANGED printed
    PROVE  DatesInv'
<1>1. \A p \in Nat : Dated(p)' = Dated(p)
  BY DEF Dated
<1>2. ASSUME NEW u \in Requests, req'[u].at = "dated", NumberByDate(u)
      PROVE  req'[u].number \in 1..Cardinality(Dated(req'[u].began)) + 1
  <2>1. /\ req'[u].number = Cardinality(Dated(req[u].began)) + 1
        /\ req'[u].began = req[u].began /\ Cardinality(Dated(req[u].began)) \in Nat
    BY <1>2, FoundByDate, DatedIsCounted
  <2> QED
    BY <2>1
<1>3. ASSUME NEW u \in Requests, req'[u].at = "dated"
      PROVE  req'[u].number \in 1..Cardinality(Dated(req'[u].began)) + 1
  BY <1>2, <1>3, DatedOnlyByDate DEF DatesInv
<1>4. ASSUME NEW u \in Requests PROVE req'[u].began \in Nat
  BY SeriesInvStep DEF SeriesInv, TypeOK, RequestRow
<1>5. ASSUME NEW p \in Nat PROVE NumbersOf(p)' = 1..Cardinality(Dated(p)')
  BY <1>1 DEF DatesInv, NumbersOf
<1> QED
  BY <1>1, <1>3, <1>4, <1>5 DEF DatesInv, Dated

\* A document of a date that is printed has the number after the last: all
\* before it are taken.
LEMMA DatePrinted ==
    ASSUME SeriesInv, DatesInv, NEW t \in Requests, InsertDocument(t),
           printed' = printed \cup {Printed(t)}, Printed(t) \notin printed
    PROVE  /\ \A p \in Nat : /\ NumbersOf(p)' = 1..Cardinality(Dated(p)')
                             /\ Cardinality(Dated(p)) <= Cardinality(Dated(p)')
<1> DEFINE e == Printed(t)
<1>0. req[t] \in RequestRow /\ req[t].at \in {"numbered", "dated"} /\ Progress(t)
  BY DEF SeriesInv, TypeOK, InsertDocument
<1> SUFFICES ASSUME NEW p \in Nat
             PROVE  /\ NumbersOf(p)' = 1..Cardinality(Dated(p)')
                    /\ Cardinality(Dated(p)) <= Cardinality(Dated(p)')
  OBVIOUS
<1> DEFINE c == Cardinality(Dated(p))
<1>1. c \in Nat /\ IsFiniteSet(Dated(p)) /\ NumbersOf(p) = 1..c
  BY DatedIsCounted DEF DatesInv
<1>2. CASE e.prefix # <<"date", None, p>>
  <2>1. Dated(p)' = Dated(p)
    BY <1>2 DEF Dated
  <2> QED
    BY <1>1, <2>1 DEF NumbersOf
<1>3. CASE e.prefix = <<"date", None, p>>
  <2>1. req[t].at = "dated"
    <3>1. ASSUME Numbered(t) PROVE FALSE
      <4>1. /\ req[t].series \in 1..Len(series) /\ e.prefix = series[req[t].series].prefix
        BY <1>0, <3>1 DEF Progress, Numbered, HasSeries, Printed
      <4>2. e.prefix[1] \in Kinds
        BY <4>1, RowType DEF SeriesInv, OneSeries
      <4>3. e.prefix[1] = "date"
        BY <1>3
      <4> QED
        BY <4>2, <4>3 DEF Kinds
    <3> QED
      BY <1>0, <3>1 DEF Numbered
  <2>2. e.prefix = <<"date", None, req[t].began>> /\ e.number = req[t].number
    BY <2>1 DEF Printed
  <2>3. req[t].began = p
    BY <1>3, <2>2
  <2>4. e.number \in 1..c + 1
    BY <2>1, <2>2, <2>3 DEF DatesInv
  <2>5. Dated(p)' = Dated(p) \cup {e}
    BY <1>3 DEF Dated
  <2>6. e \notin Dated(p)
    BY DEF Dated
  <2>7. e.number \notin NumbersOf(p)
    <3> SUFFICES ASSUME NEW d \in Dated(p), d.number = e.number PROVE FALSE
      BY DEF NumbersOf
    <3>1. d.prefix = e.prefix /\ d \in printed
      BY <1>3 DEF Dated
    <3>2. d \in [prefix : Prefixes, number : Nat]
      BY <3>1 DEF SeriesInv, TypeOK
    <3>3. e = [prefix |-> e.prefix, number |-> e.number]
      BY DEF Printed
    <3>4. d = e
      BY <3>1, <3>2, <3>3
    <3> QED
      BY <2>6, <3>4
  <2> HIDE DEF e, c
  <2>8. e.number = c + 1
    BY <1>1, <2>4, <2>7
  <2>9. Cardinality(Dated(p)') = c + 1
    BY <1>1, <2>5, <2>6, FS_AddElement DEF c
  <2>10. NumbersOf(p)' = NumbersOf(p) \cup {c + 1}
    BY <2>5, <2>8 DEF NumbersOf
  <2>11. 1..(c + 1) = 1..c \cup {c + 1}
    BY <1>1
  <2>12. c <= c + 1
    BY <1>1
  <2>13. NumbersOf(p)' = 1..Cardinality(Dated(p)')
    BY <1>1, <2>9, <2>10, <2>11
  <2> QED
    BY <2>9, <2>12, <2>13 DEF c
<1> QED
  BY <1>2, <1>3

\* Every step keeps the dates.
LEMMA DatesStep ==
    ASSUME SeriesInv, DatesInv, [Next]_vars
    PROVE  DatesInv'
<1>1. CASE UNCHANGED vars
  BY <1>1 DEF vars, DatesInv, NumbersOf, Dated
<1>2. CASE Next /\ UNCHANGED printed
  BY <1>2, NothingPrinted
<1>3. ASSUME NEW t \in Requests, InsertDocument(t), Next, printed' # printed
      PROVE  DatesInv'
  <2>1. printed' = printed \cup {Printed(t)} /\ Printed(t) \notin printed
    BY <1>3 DEF InsertDocument
  <2>2. ASSUME NEW u \in Requests, NEW p \in Nat, req'[u].at = "dated", req'[u].began = p
        PROVE  req'[u].number \in 1..Cardinality(Dated(p)') + 1
    <3>1. /\ req[u].at = "dated" /\ req'[u].number = req[u].number
          /\ req'[u].began = req[u].began
      BY <1>3, <2>2, DatedOnlyByDate DEF NumberByDate
    <3>2. req[u].number \in 1..Cardinality(Dated(p)) + 1
      BY <2>2, <3>1 DEF DatesInv
    <3>3. Cardinality(Dated(p)) <= Cardinality(Dated(p)')
      BY <1>3, <2>1, DatePrinted
    <3>4. Cardinality(Dated(p)) \in Nat /\ Cardinality(Dated(p)') \in Nat
      BY <1>3, DatedIsCounted, SeriesInvStep, FS_Subset, FS_CardinalityType
         DEF SeriesInv, Dated
    <3>5. req[u].number \in 1..Cardinality(Dated(p)') + 1
      BY <3>2, <3>3, <3>4
    <3> QED
      BY <3>1, <3>5
  <2>3. ASSUME NEW u \in Requests PROVE req'[u].began \in Nat
    BY <1>3, SeriesInvStep DEF SeriesInv, TypeOK, RequestRow
  <2>4. ASSUME NEW u \in Requests, req'[u].at = "dated"
        PROVE  (req[u].number \in 1..Cardinality(Dated(req[u].began)) + 1)'
    BY <2>2, <2>3, <2>4 DEF Dated
  <2>5. ASSUME NEW p \in Nat PROVE (NumbersOf(p) = 1..Cardinality(Dated(p)))'
    BY <1>3, <2>1, DatePrinted
  <2> QED
    BY <2>4, <2>5 DEF DatesInv
<1>4. ASSUME Next, printed' # printed PROVE \E t \in Requests : InsertDocument(t)
  BY <1>4 DEF Next, Step, FindYear, CreateYear, FindSeries, CreateSeries, LockSeries,
       TakeNumber, NumberByDate, FindExpired, Expire, Fail, Arrive, TurnPeriod
<1> QED
  BY <1>1, <1>2, <1>3, <1>4

\* So they hold for good.
LEMMA DatesInvariant == Spec => []DatesInv
<1>1. Init => DatesInv
  <2> SUFFICES ASSUME Init PROVE DatesInv
    OBVIOUS
  <2>1. \A p \in Nat : Dated(p) = {} /\ NumbersOf(p) = {}
    BY DEF Init, Dated, NumbersOf
  <2>2. \A p \in Nat : Cardinality(Dated(p)) = 0
    BY <2>1, FS_EmptySet
  <2>3. 1..0 = {}
    OBVIOUS
  <2>4. \A t \in Requests : req[t].at = "new"
    BY DEF Init, NoRequest
  <2> QED
    BY <2>1, <2>2, <2>3, <2>4 DEF DatesInv
<1> QED
  BY <1>1, SeriesInvariant, DatesStep, PTL DEF Spec

\* The approvals of a date are numbered without a gap, though two of them may
\* find the same number: the unique number lets only one be inserted.
THEOREM DatesHaveNoGaps == Spec => []NoGapsInADay
<1>1. DatesInv => NoGapsInADay
  BY CalendarType DEF DatesInv, NumbersOf, NoGapsInADay
<1> QED
  BY <1>1, DatesInvariant, PTL

-----------------------------------------------------------------------------
(* Who waits for what.                                                     *)

InFlight(t) == req[t].at \notin {"new", "done", "refused"}

Holding == {t \in Requests : req[t].tx = "open"}

\* An approval in flight has the transaction it was started in, open or timed
\* out, and nobody else is numbered by date.
TxInv ==
    \A t \in Requests :
        /\ InFlight(t) /\ req[t].kind = "APP" => req[t].tx \in {"open", "expired"}
        /\ req[t].at \in {"numberless", "dated"} => req[t].kind = "APP"

\* The handler of t is not waiting: the rows, the connection or the transaction
\* its next step needs are there, or it finds its transaction timed out.
CanGoOn(t) ==
    \/ req[t].at \in {"started", "needsYear", "hasYear"} /\ CanQuery
    \/ req[t].at = "needsSeries"
    \/ req[t].at = "hasSeries" /\ SeriesIsFree(req[t].series)
    \/ req[t].at = "locked"
    \/ req[t].at = "numbered" /\ req[t].kind # "APP" /\ CanQuery
    \/ req[t].at \in {"numbered", "dated"} /\ req[t].kind = "APP" /\ req[t].tx = "open"
    \/ /\ req[t].at = "numberless" /\ req[t].tx = "open"
       /\ Cardinality(NumbersOf(req[t].began)) + 1 \notin NumbersOf(req[t].began)
    \/ req[t].at \in {"numberless", "numbered", "dated"} /\ req[t].tx = "expired"

\* While requests are in flight, one of them can go on, or the transactions of
\* approvals have every connection and none is left to number a document with.
OnlyThePoolStops ==
    (\E t \in Requests : InFlight(t)) =>
        \/ \E t \in Requests : CanGoOn(t)
        \/ Cardinality(Holding) >= Connections

\* The number after those of a date is none of them.
LEMMA NextIsFree ==
    ASSUME SeriesInv, DatesInv, NEW p \in Nat
    PROVE  Cardinality(NumbersOf(p)) + 1 \notin NumbersOf(p)
<1> DEFINE c == Cardinality(Dated(p))
<1>1. c \in Nat /\ NumbersOf(p) = 1..c
  BY DatedIsCounted DEF DatesInv
<1> HIDE DEF c
<1>2. Cardinality(1..c) = c
  BY <1>1, FS_Interval, 1 \in Int
<1>3. c + 1 \notin 1..c
  BY <1>1
<1> QED
  BY <1>1, <1>2, <1>3

\* The search by date changes the number and the state.
LEMMA NumberPicked ==
    ASSUME NEW t \in Requests, NumberByDate(t)
    PROVE  \E n : req' = [req EXCEPT ![t].at = "dated", ![t].number = n]
BY DEF NumberByDate

\* A request that goes on in the transaction it has, or is answered.
LEMMA TxKept ==
    ASSUME TxInv, NEW t \in Requests,
           \A u \in Requests : u # t => req'[u] = req[u],
           \/ req'[t].at \in {"done", "refused"}
           \/ /\ InFlight(t)
              /\ req'[t].kind = req[t].kind /\ req'[t].tx = req[t].tx
              /\ req'[t].at \in {"numberless", "dated"} => req[t].kind = "APP"
    PROVE  TxInv'
BY DEF TxInv, InFlight

\* What the replacement of one request does.
LEMMA OneReplaced ==
    ASSUME TypeOK, NEW t \in Requests, NEW q, req' = [req EXCEPT ![t] = q]
    PROVE  req'[t] = q /\ \A u \in Requests : u # t => req'[u] = req[u]
BY DEF TypeOK

\* One that is answered.
LEMMA TxAnswered ==
    ASSUME TypeOK, TxInv, NEW t \in Requests, NEW state \in {"done", "refused"},
           Answer(t, state)
    PROVE  TxInv'
<1> DEFINE q == [NoRequest EXCEPT !.at = state]
<1>1. req' = [req EXCEPT ![t] = q] /\ q.at = state
  BY DEF Answer, NoRequest
<1> HIDE DEF q
<1>2. req'[t] = q /\ \A u \in Requests : u # t => req'[u] = req[u]
  BY <1>1, OneReplaced
<1> QED
  BY <1>1, <1>2, TxKept

\* One that was given no number.
LEMMA TxGivenUp ==
    ASSUME TypeOK, TxInv, NEW t \in Requests, NEW state \in {"done", "refused"},
           InFlight(t), GiveUp(t, state)
    PROVE  TxInv'
<1>1. CASE req[t].kind # "APP"
  BY <1>1, TxAnswered DEF GiveUp
<1>2. CASE req[t].kind = "APP"
  <2> DEFINE q == [req[t] EXCEPT !.at = "numberless", !.year = 0, !.series = 0, !.number = 0]
  <2>1. req[t] \in RequestRow
    BY DEF TypeOK
  <2>2. q.kind = req[t].kind /\ q.tx = req[t].tx
    BY <2>1 DEF RequestRow
  <2>3. req' = [req EXCEPT ![t] = q]
    BY <1>2, <2>1 DEF GiveUp, TypeOK
  <2> HIDE DEF q
  <2>4. req'[t] = q /\ \A u \in Requests : u # t => req'[u] = req[u]
    BY <2>3, OneReplaced
  <2> QED
    BY <1>2, <2>2, <2>4, TxKept
<1> QED
  BY <1>1, <1>2

\* Every step keeps it.
LEMMA TxStep ==
    ASSUME SeriesInv, TxInv, [Next]_vars
    PROVE  TxInv'
<1> USE DEF InFlight
<1>0. TypeOK /\ \A t \in Requests : req[t] \in RequestRow
  BY DEF SeriesInv, TypeOK
<1>1. ASSUME NEW t \in Requests, Step(t) PROVE TxInv'
  <2>1. CASE FindYear(t)
    <3>1. /\ \A u \in Requests : u # t => req'[u] = req[u]
          /\ req'[t].kind = req[t].kind /\ req'[t].tx = req[t].tx
          /\ req'[t].at \in {"needsYear", "hasYear"}
      <4>1. CASE YearsOf(today) = {}
        BY <1>0, <2>1, <4>1 DEF FindYear, TypeOK, RequestRow
      <4>2. CASE YearsOf(today) # {}
        BY <1>0, <2>1, <4>2 DEF FindYear, TypeOK, RequestRow
      <4> QED
        BY <4>1, <4>2
    <3> QED
      BY <2>1, <3>1, TxKept DEF FindYear
  <2>2. CASE CreateYear(t)
    <3>1. CASE YearIsNew
      <4>1. /\ \A u \in Requests : u # t => req'[u] = req[u]
            /\ req'[t].kind = req[t].kind /\ req'[t].tx = req[t].tx
            /\ req'[t].at = "hasYear"
        BY <1>0, <2>2, <3>1 DEF CreateYear, TypeOK, RequestRow
      <4> QED
        BY <2>2, <4>1, TxKept DEF CreateYear
    <3>2. CASE ~YearIsNew
      BY <1>0, <2>2, <3>2, TxGivenUp DEF CreateYear
    <3> QED
      BY <3>1, <3>2
  <2>3. CASE FindSeries(t)
    <3>1. /\ \A u \in Requests : u # t => req'[u] = req[u]
          /\ req'[t].kind = req[t].kind /\ req'[t].tx = req[t].tx
          /\ req'[t].at \in {"needsSeries", "hasSeries"}
      <4>1. CASE SeriesFor(t) = {}
        BY <1>0, <2>3, <4>1 DEF FindSeries, Goto, TypeOK, RequestRow
      <4>2. CASE SeriesFor(t) # {}
        BY <1>0, <2>3, <4>2 DEF FindSeries, TypeOK, RequestRow
      <4> QED
        BY <4>1, <4>2
    <3> QED
      BY <2>3, <3>1, TxKept DEF FindSeries
  <2>4. CASE CreateSeries(t)
    <3>1. CASE SeriesIsNew(t)
      <4>1. /\ \A u \in Requests : u # t => req'[u] = req[u]
            /\ req'[t].kind = req[t].kind /\ req'[t].tx = req[t].tx
            /\ req'[t].at = "numbered"
        BY <1>0, <2>4, <3>1 DEF CreateSeries, TypeOK, RequestRow
      <4> QED
        BY <2>4, <4>1, TxKept DEF CreateSeries
    <3>2. CASE ~SeriesIsNew(t)
      BY <1>0, <2>4, <3>2, TxGivenUp DEF CreateSeries
    <3> QED
      BY <3>1, <3>2
  <2>5. CASE LockSeries(t) \/ TakeNumber(t) \/ NumberByDate(t)
    <3>1. /\ \A u \in Requests : u # t => req'[u] = req[u]
          /\ req'[t].kind = req[t].kind /\ req'[t].tx = req[t].tx
          /\ req'[t].at \in {"locked", "numbered"} \/ NumberByDate(t)
      <4>1. CASE LockSeries(t)
        BY <1>0, <4>1 DEF LockSeries, TypeOK, RequestRow
      <4>2. CASE TakeNumber(t)
        BY <1>0, <4>2 DEF TakeNumber, Goto, TypeOK, RequestRow
      <4>3. CASE NumberByDate(t)
        <5>1. PICK n : req' = [req EXCEPT ![t].at = "dated", ![t].number = n]
          BY <1>0, <4>3, NumberPicked
        <5> QED
          BY <1>0, <4>3, <5>1 DEF TypeOK, RequestRow
      <4> QED
        BY <2>5, <4>1, <4>2, <4>3
    <3>2. InFlight(t) /\ (NumberByDate(t) => req[t].kind = "APP")
      BY <2>5 DEF LockSeries, TakeNumber, NumberByDate, TxInv
    <3> QED
      BY <3>1, <3>2, TxKept
  <2>6. CASE InsertDocument(t) \/ FindExpired(t)
    BY <1>0, <2>6, TxAnswered DEF InsertDocument, FindExpired
  <2> QED
    BY <1>1, <2>1, <2>2, <2>3, <2>4, <2>5, <2>6 DEF Step
<1>2. ASSUME NEW t \in Requests, Expire(t) PROVE TxInv'
  <2>1. /\ \A u \in Requests : u # t => req'[u] = req[u]
        /\ req'[t].kind = req[t].kind /\ req'[t].tx = "expired" /\ req'[t].at = req[t].at
    BY <1>0, <1>2 DEF Expire, TypeOK, RequestRow
  <2> QED
    BY <2>1 DEF TxInv
<1>3. ASSUME NEW t \in Requests, Fail(t) PROVE TxInv'
  BY <1>0, <1>3, TxAnswered, TxGivenUp DEF Fail
<1>4. ASSUME NEW t \in Requests, NEW kind \in Kinds, Arrive(t, kind) PROVE TxInv'
  <2>1. /\ \A u \in Requests : u # t => req'[u] = req[u]
        /\ req'[t].kind = kind /\ req'[t].at = "started"
        /\ kind = "APP" => req'[t].tx = "open"
    BY <1>0, <1>4 DEF Arrive, TypeOK, RequestRow
  <2> QED
    BY <2>1 DEF TxInv
<1>5. CASE UNCHANGED req
  BY <1>5 DEF TxInv
<1> QED
  BY <1>1, <1>2, <1>3, <1>4, <1>5 DEF Next, TurnPeriod, vars

\* The requests never wait for each other but at the pool: nobody holds the row
\* of a series while he waits for a connection, so where nobody can go on the
\* transactions that createApproval opened before it asked for a number have all
\* of the pool.  Only the timeout or the failure of one of them goes on from there.
THEOREM OnlyThePoolStopsRequests ==
    ASSUME IsFiniteSet(Requests) PROVE Spec => []OnlyThePoolStops
<1>1. Init => TxInv
  BY DEF Init, NoRequest, TxInv, InFlight
<1>2. ASSUME SeriesInv, DatesInv, TxInv PROVE OnlyThePoolStops
  <2> SUFFICES ASSUME NEW t \in Requests, InFlight(t), \A u \in Requests : ~CanGoOn(u)
               PROVE  Cardinality(Holding) >= Connections
    BY DEF OnlyThePoolStops
  <2>1. ASSUME NEW u \in Requests PROVE ~InTransaction(u)
    <3>1. req[u].at \notin {"needsSeries", "locked"}
      BY DEF CanGoOn
    <3>2. \A v \in Requests : req[v].at # "locked"
      BY DEF CanGoOn
    <3>3. req[u].at # "hasSeries"
      BY <3>2 DEF CanGoOn, SeriesIsFree
    <3> QED
      BY <3>1, <3>3 DEF InTransaction
  <2>2. Cardinality({u \in Requests : InTransaction(u)}) = 0
    <3>1. {u \in Requests : InTransaction(u)} = {}
      BY <2>1
    <3> QED
      BY <3>1, FS_EmptySet
  <2>3. Cardinality(Holding) \in Nat
    BY FS_Subset, FS_CardinalityType DEF Holding
  <2>4. CanQuery \/ Cardinality(Holding) >= Connections
    BY <2>2, <2>3, SeriesAssumption DEF CanQuery, Holding
  <2>5. req[t] \in RequestRow
    BY <1>2 DEF SeriesInv, TypeOK
  <2>6. req[t].kind \in Kinds
    BY <1>2 DEF SeriesInv, Progress, InFlight
  <2>7. ASSUME req[t].kind = "APP", req[t].at \in {"numberless", "numbered", "dated"}
        PROVE  FALSE
    <3>1. req[t].tx = "open"
      BY <1>2, <2>7 DEF TxInv, InFlight, CanGoOn
    <3>2. req[t].at = "numberless"
      BY <2>7, <3>1 DEF CanGoOn
    <3>3. Cardinality(NumbersOf(req[t].began)) + 1 \notin NumbersOf(req[t].began)
      BY <1>2, <2>5, NextIsFree DEF RequestRow
    <3> QED
      BY <3>1, <3>2, <3>3 DEF CanGoOn
  <2>8. req[t].at \in {"started", "needsYear", "hasYear"} \/ req[t].at = "numbered"
    BY <1>2, <2>1, <2>5, <2>7 DEF InFlight, InTransaction, RequestRow, States, TxInv
  <2>9. ~CanQuery
    BY <2>6, <2>7, <2>8 DEF CanGoOn, Kinds
  <2> QED
    BY <2>4, <2>9
<1> QED
  BY <1>1, <1>2, TxStep, SeriesInvariant, DatesInvariant, PTL DEF Spec
=============================================================================
