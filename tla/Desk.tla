-------------------------------- MODULE Desk --------------------------------
(***************************************************************************)
(* What a reader of the archive sees while handlers write: the lists, the  *)
(* figures and the timeline of src/src/incoming/incoming.service.ts,       *)
(* src/src/dashboard/, src/src/audit/, src/src/users/ and                  *)
(* src/src/timeline/.                                                      *)
(*                                                                         *)
(* A request that only reads runs several statements, and at Read          *)
(* Committed each one, inside $transaction or not, sees what is committed  *)
(* when it starts.  Here every statement is a step and the writers of      *)
(* module Distribution run between any two.  Readers do not meet, so one   *)
(* is enough.  A user who walks a list asks for page after page.           *)
(***************************************************************************)
EXTENDS Distribution, TLC

CONSTANTS
  Dept,       \* departments
  DeptOf,     \* the department in a user's token, or None
  Viewers,    \* the departments of those who read
  ScopeChoices, \* scopes they ask for
  PageSize,   \* rows on a page, by kind of list
  DayTicks,   \* the length of a day
  LastDays,   \* 7 in the overviews
  MonthDays   \* the length of a month

ASSUME DeskAssumption ==
  /\ None \notin Dept
  /\ DeptOf \in [User -> Dept \cup {None}]
  /\ Viewers \subseteq Dept \cup {None}
  /\ ScopeChoices \subseteq {"all", "overdue", "today", "week", "escalated"}
  /\ {DayTicks, LastDays, MonthDays} \subseteq Nat \ {0}
  /\ PageSize \in [{"desk", "records", "audit"} -> Nat \ {0}]
  /\ IsFiniteSet(Incoming) /\ IsFiniteSet(DistId)

VARIABLES
  dept,       \* targetDepartmentId, by distribution
  received,   \* receivedDate, by incoming record
  reader      \* the request that reads, and what it has read

readVars == <<dept, received, reader>>

vars == <<distVars, readVars>>

Nobody == [op |-> "none"]

----------------------------------------------------------------------------
(* Who sees which rows *)

Registered == {i \in Incoming : DistsOf(i) # {}}

Created == {d \in DistId : Exists(d)}

ActiveStatus == {"Open", "InProgress", "Escalated"}

\* A user without a department gets no condition, and so every row.  The
\* token has no field id: nothing is on a desk because it is assigned.
OnDesk(d, x) == Exists(d) /\ (x = None \/ dept[d] = x)

\* The summaries always have a condition: no department, no row.
InSummary(d, x) == Exists(d) /\ x # None /\ dept[d] = x

Day(t) == t \div DayTicks

Week(t) == Day(t) \div 7

Month(t) == Day(t) \div MonthDays

InScope(d, scope) ==
  LET due == dist[d].dueAt
  IN \/ scope = "all"
     \/ scope = "escalated" /\ dist[d].status = "Escalated"
     \/ scope = "overdue" /\ IsPastDue(due, now)
     \/ scope = "today" /\ due # None /\ Day(due) = Day(now)
     \/ scope = "week" /\ due # None /\ Week(due) = Week(now)

myDesk(x, scope) ==
  {d \in Created : OnDesk(d, x) /\ dist[d].status \in ActiveStatus /\ InScope(d, scope)}

\* Nobody counts here what has been escalated.
myDeskStatus(x, status) == {d \in Created : InSummary(d, x) /\ dist[d].status = status}

SummaryRows(x) == {d \in Created : InSummary(d, x) /\ dist[d].status \in ActiveStatus}

SlaOf(d) == computeSlaStatus(dist[d].status, dist[d].dueAt, now)

\* The rows the summary counts under a status.
myDeskSlaSummary(x, sla) == {d \in SummaryRows(x) : SlaOf(d) = sla}

\* The same in the bucket of a department.
slaReportByDepartment(x, sla) ==
  {d \in Created : dist[d].status \in ActiveStatus /\ dept[d] = x /\ SlaOf(d) = sla}

\* What the details of a record say of its distributions.
getIncomingDetails(i) == [d \in DistsOf(i) |-> SlaOf(d)]

\* The number of records of each of the last n days, today's first.
dailySeries(n) ==
  [k \in 1 .. n |-> Cardinality({i \in Registered : Day(now) - Day(received[i]) = k - 1})]

\* The dashboard's: a statement groups the records of n days and of today by
\* their day, and the answer picks the last n.
series(n) ==
  LET first == Day(now) - n
      rows == [day \in first .. Day(now) |->
                 Cardinality({i \in Registered : Day(received[i]) = day})]
  IN [k \in 1 .. n |-> rows[Day(now) - k + 1]]

\* Fault: what is open is whatever is not closed.
FigureOpenIsActive(name, x, t) ==
  CASE name = "today" -> {i \in Registered : Day(received[i]) = Day(t)}
    [] name = "last7" -> {i \in Registered : Day(received[i]) \in Day(t) - LastDays + 1 .. Day(t)}
    [] name = "month" -> {i \in Registered : Month(received[i]) = Month(t)
                                                /\ Day(received[i]) <= Day(t)}
    [] name = "all"   -> Registered
    [] name = "Open"  -> {d \in Created : OnDesk(d, x) /\ dist[d].status \in ActiveStatus}
    [] OTHER          -> {d \in Created : OnDesk(d, x) /\ dist[d].status = name}

\* What a count of an overview asks for, by a user of x who asked at t.
Figure(name, x, t) ==
  CASE name = "today" -> {i \in Registered : Day(received[i]) = Day(t)}
    [] name = "last7" -> {i \in Registered : Day(received[i]) \in Day(t) - LastDays + 1 .. Day(t)}
    [] name = "month" -> {i \in Registered : Month(received[i]) = Month(t)
                                                /\ Day(received[i]) <= Day(t)}
    [] name = "all"   -> Registered
    [] OTHER          -> {d \in Created : OnDesk(d, x) /\ dist[d].status = name}

----------------------------------------------------------------------------
(* The lists and their pages *)

\* A list is my desk in a scope, the incoming records by date, or the audit
\* trail by id.
List == [kind : {"desk"}, dept : Viewers, scope : ScopeChoices]
          \cup [kind : {"records", "audit"}, dept : {None}, scope : {"all"}]

\* The rows of the audit trail, of all records and actions.
AuditRows ==
  Cardinality(UNION {{ia} \X (1 .. audit[ia[1]][ia[2]]) : ia \in Incoming \X AuditAction})

Members(l) ==
  CASE l.kind = "desk"    -> myDesk(l.dept, l.scope)
    [] l.kind = "records" -> Registered
    [] l.kind = "audit"   -> 1 .. AuditRows

\* dueAt asc, nulls last.
DueFirst(a, b) == a # None /\ (b = None \/ a < b)

\* The order of the list puts row a before row b.
Before(l, a, b) ==
  CASE l.kind = "desk"    ->
         \/ DueFirst(dist[a].dueAt, dist[b].dueAt)
         \/ dist[a].dueAt = dist[b].dueAt /\ dist[a].lastUpdateAt > dist[b].lastUpdateAt
    [] l.kind = "records" -> received[a] > received[b]
    [] l.kind = "audit"   -> a > b

\* What decides the place of a row.
Place(l, a) ==
  CASE l.kind = "desk"    -> <<dist[a].dueAt, dist[a].lastUpdateAt>>
    [] l.kind = "records" -> received[a]
    [] l.kind = "audit"   -> a

Tied(l) ==
  \E a, b \in Members(l) : a # b /\ ~ Before(l, a, b) /\ ~ Before(l, b, a)

\* The database may return rows of the same place in any order, and in
\* another order the next time.
FirstRows(l, n) ==
  LET all == Members(l)
  IN {X \in SUBSET all :
        /\ Cardinality(X) = Min({n, Cardinality(all)})
        /\ \A a \in X, b \in all \ X : ~ Before(l, b, a)}

\* skip (page - 1) * pageSize, take pageSize.
Pages(l, page) ==
  LET skipped == FirstRows(l, (page - 1) * PageSize[l.kind])
      read == FirstRows(l, page * PageSize[l.kind])
  IN {xy[2] \ xy[1] : xy \in {ends \in skipped \X read : ends[1] \subseteq ends[2]}}

\* Fault: every list counts first.
EveryCountsFirst(l) == TRUE

\* AuditService.search counts, then reads; every other list reads, then counts.
CountsFirst(l) == l.kind = "audit"

----------------------------------------------------------------------------
(* The reader *)

Init ==
  /\ DistInit
  /\ dept = [d \in DistId |-> None]
  /\ received = [i \in Incoming |-> 0]
  /\ reader = Nobody

\* "total" is the count of this page, None until it is made.  The rest is
\* there for the properties: the rows that have been in the list all along,
\* how many came, whether one left or moved, whether two ever had one place.
walkBegins(l) ==
  /\ reader = Nobody
  /\ reader' = [op |-> "walk", list |-> l, page |-> 1, stage |-> 1, total |-> 0,
                shown |-> {}, stood |-> Members(l), arrived |-> 0,
                stirred |-> FALSE, tied |-> Tied(l)]
  /\ UNCHANGED <<distVars, dept, received>>

IsWalking == reader.op = "walk"

\* The last page is the one that total says is the last.
NextPage(r) ==
  IF r.page * PageSize[r.list.kind] < r.total
  THEN [r EXCEPT !.page = @ + 1, !.stage = 1]
  ELSE [r EXCEPT !.op = "walked"]

AfterStatement(r) == IF r.stage = 1 THEN [r EXCEPT !.stage = 2] ELSE NextPage(r)

findPage ==
  /\ IsWalking
  /\ reader.stage = IF CountsFirst(reader.list) THEN 2 ELSE 1
  /\ \E rows \in Pages(reader.list, reader.page) :
       reader' = AfterStatement([reader EXCEPT !.shown = @ \cup rows])
  /\ UNCHANGED <<distVars, dept, received>>

countRows ==
  /\ IsWalking
  /\ reader.stage = IF CountsFirst(reader.list) THEN 1 ELSE 2
  /\ reader' = AfterStatement([reader EXCEPT !.total = Cardinality(Members(reader.list))])
  /\ UNCHANGED <<distVars, dept, received>>

\* The figures in the order their statements run.  statsOverview makes the
\* totals and then those of my desk; each half is a request of the dashboard
\* too, and no property relates the two.
FiguresOf(kind) ==
  IF kind = "totals" THEN <<"today", "last7", "month", "all">>
                     ELSE <<"Open", "InProgress", "Closed">>

\* The clock is read once, before the first count.
overviewBegins(kind, x) ==
  /\ reader = Nobody
  /\ reader' = [op |-> kind, dept |-> x, at |-> now, figure |-> << >>, moves |-> 0]
  /\ UNCHANGED <<distVars, dept, received>>

IsOverview == reader.op \in {"totals", "desk"}

\* The figures made so far.
Made == 1 .. Len(reader.figure)

countFigure ==
  /\ IsOverview
  /\ Len(reader.figure) < Len(FiguresOf(reader.op))
  /\ LET name == FiguresOf(reader.op)[Len(reader.figure) + 1]
         rows == Figure(name, reader.dept, reader.at)
     IN reader' = [reader EXCEPT !.figure = Append(@, Cardinality(rows))]
  /\ UNCHANGED <<distVars, dept, received>>

\* getTimeline has found the record; it reads the log, then the audit trail.
timelineBegins(i) ==
  /\ reader = Nobody
  /\ i \in Registered
  /\ reader' = [op |-> "timeline", incoming |-> i, logs |-> None, audits |-> None]
  /\ UNCHANGED <<distVars, dept, received>>

\* How often the log of a record tells of each action.
LogCounts(i) == [a \in AuditAction |-> Cardinality(LogRows(i, a))]

readLogs ==
  /\ reader.op = "timeline" /\ reader.logs = None
  /\ reader' = [reader EXCEPT !.logs = LogCounts(reader.incoming)]
  /\ UNCHANGED <<distVars, dept, received>>

\* Fault: the audit trail may be read before the log.
readAuditAnyTime ==
  /\ reader.op = "timeline" /\ reader.audits = None
  /\ reader' = [reader EXCEPT !.audits = audit[reader.incoming]]
  /\ UNCHANGED <<distVars, dept, received>>

readAudit ==
  /\ reader.op = "timeline" /\ reader.logs # None /\ reader.audits = None
  /\ reader' = [reader EXCEPT !.audits = audit[reader.incoming]]
  /\ UNCHANGED <<distVars, dept, received>>

\* The answer is sent, or the request fails before.
readerEnds ==
  /\ reader # Nobody
  /\ reader' = Nobody
  /\ UNCHANGED <<distVars, dept, received>>

----------------------------------------------------------------------------
(* The writers *)

\* Fault: forwarding keeps no department.
NewColumnsOfRecords ==
  /\ \E x \in Dept :
       dept' = [d \in DistId |-> IF \E i \in Registered' \ Registered : d \in DistsOf(i)'
                                 THEN x ELSE dept[d]]
  /\ \E t \in {now, Max({0, now - 1})} :
       received' = [i \in Incoming |-> IF i \in Registered' \ Registered THEN t ELSE received[i]]

\* A new distribution has a department and a new record its date, read from
\* the clock up to a tick before the commit.
NewColumns ==
  /\ \E x \in Dept :
       dept' = [d \in DistId |-> IF Exists(d)' /\ ~ Exists(d) THEN x ELSE dept[d]]
  /\ \E t \in {now, Max({0, now - 1})} :
       received' = [i \in Incoming |-> IF i \in Registered' \ Registered THEN t ELSE received[i]]

\* What happens to a list or to figures while they are read.
Watch ==
  \/ ~ IsWalking /\ reader.op # "desk" /\ UNCHANGED reader
  \/ /\ IsWalking
     /\ \E l \in {reader.list} :
          LET kept == Members(l) \cap Members(l)'
          IN reader' = [reader EXCEPT
                          !.stood = @ \cap kept,
                          !.arrived = @ + Cardinality(Members(l)' \ Members(l)),
                          !.stirred = @ \/ kept # Members(l)
                                        \/ \E a \in kept : Place(l, a) # Place(l, a)',
                          !.tied = @ \/ Tied(l)']
  \/ /\ reader.op = "desk"
     /\ reader' = [reader EXCEPT
                     !.moves = @ + Cardinality({d \in Created' :
                                    /\ reader.dept \in {None, dept'[d]}
                                    /\ ~ Exists(d) \/ dist[d].status # dist'[d].status})]

Writer == DistNext /\ NewColumns /\ Watch

Next ==
  \/ Writer
  \/ \E l \in List : walkBegins(l)
  \/ findPage
  \/ countRows
  \/ \E kind \in {"totals", "desk"}, x \in Viewers : overviewBegins(kind, x)
  \/ countFigure
  \/ \E i \in Incoming : timelineBegins(i)
  \/ readLogs
  \/ readAudit
  \/ readerEnds

Spec == Init /\ [][Next]_vars

----------------------------------------------------------------------------

AnyRow == DistId \cup Incoming \cup Nat

WalkState ==
  [op : {"walk", "walked"}, list : List, page : Nat \ {0}, stage : {1, 2}, total : Nat,
   shown : SUBSET AnyRow, stood : SUBSET AnyRow, arrived : Nat,
   stirred : BOOLEAN, tied : BOOLEAN]

OverviewState ==
  [op : {"totals", "desk"}, dept : Viewers, at : Nat, figure : Seq(Nat), moves : Nat]

Counts == [AuditAction -> Nat] \cup {None}

TimelineState == [op : {"timeline"}, incoming : Incoming, logs : Counts, audits : Counts]

\* Every variable has its type; what exists has its department and a date
\* that is not in the future; no overview was asked for in the future.
TypeOK ==
  /\ DistTypeOK
  /\ dept \in [DistId -> Dept \cup {None}]
  /\ \A d \in Created : dept[d] # None
  /\ received \in [Incoming -> 0 .. now]
  /\ reader \in {Nobody} \cup WalkState \cup OverviewState \cup TimelineState
  /\ IsOverview => reader.at <= now

\* A user who walks a list page by page while others write has seen, in the
\* end, every row that was in it all along, unless a row left the list or
\* changed its place in it, or two rows had one place.  Rows that arrive only
\* make others appear twice.  The audit trail counts before it reads, and may
\* so drop a row at the end for each one that arrived.
WalkMissesNothing ==
  (reader.op = "walked" /\ ~ reader.stirred /\ ~ reader.tied) =>
    Cardinality(reader.stood \ reader.shown)
      <= IF reader.list.kind = "audit" THEN reader.arrived ELSE 0

\* The totals of an overview are nested like their ranges.
TotalsNest ==
  reader.op = "totals" =>
    \A m, n \in Made :
      <<FiguresOf("totals")[m], FiguresOf("totals")[n]>>
          \in {<<"today", "last7">>, <<"today", "month">>, <<"last7", "all">>, <<"month", "all">>}
        => reader.figure[m] <= reader.figure[n]

\* Those of my desk add up to the distributions that are not escalated, but
\* for one per change of a status between the statements.
DeskFiguresDrift ==
  (reader.op = "desk" /\ Len(reader.figure) = 3) =>
    LET sum == reader.figure[1] + reader.figure[2] + reader.figure[3]
        rows == Cardinality({d \in Created : OnDesk(d, reader.dept) /\ dist[d].status # "Escalated"})
    IN sum - rows \in - reader.moves .. reader.moves

\* The figures of an overview are made by one statement each and fit together
\* all the same, whatever is registered or changed between two of them, and
\* even when the day ends.
OverviewCoheres == TotalsNest /\ DeskFiguresDrift

\* A timeline never shows what a handler logged without showing that it was
\* audited: both rows are committed together and the log is read first.
TimelineAuditsWhatItLogs ==
  (reader.op = "timeline" /\ reader.audits # None /\ reader.logs # None) =>
    \A a \in AuditAction : reader.logs[a] <= reader.audits[a]

\* My desk's overdue scope compares instants, the summary rounds to minutes:
\* what the summary counts as overdue is in the scope, and what it leaves out
\* of the scope is late by half a minute at most.
OverdueViewsAgree ==
  \A x \in Dept :
    /\ myDeskSlaSummary(x, "Overdue") \subseteq myDesk(x, "overdue")
    /\ \A d \in myDesk(x, "overdue") \ myDeskSlaSummary(x, "Overdue") :
         2 * (now - dist[d].dueAt) <= TicksPerMinute

\* The days of either daily series add up to the figure of the last days.
SeriesMatchesTotals ==
  \A days \in {dailySeries(LastDays), series(LastDays)} :
    MapThenSumSet(LAMBDA k : days[k], 1 .. LastDays)
      = Cardinality(Figure("last7", None, now))

\* The report by department counts what the summaries of the departments
\* count, and that is what the details of the records call so and a desk shows.
ReportsAgree ==
  \A sla \in {"NoSla", "OnTrack", "DueSoon", "Overdue"} :
    LET reported == UNION {slaReportByDepartment(x, sla) : x \in Dept}
        desks == UNION {myDesk(x, "all") : x \in Dept}
    IN /\ \A x \in Dept : slaReportByDepartment(x, sla) = myDeskSlaSummary(x, sla)
       /\ \A i \in Incoming : \A d \in DistsOf(i) :
            d \in reported <=> d \in desks /\ getIncomingDetails(i)[d] = sla

\* A desk's statuses are the figures of its department, and with what is
\* escalated those that are not closed make up the rows of its summary.
StatusesAgree ==
  \A x \in Dept :
    /\ \A s \in {"Open", "InProgress", "Closed"} : myDeskStatus(x, s) = Figure(s, x, now)
    /\ SummaryRows(x) = myDeskStatus(x, "Open") \cup myDeskStatus(x, "InProgress")
                          \cup Figure("Escalated", x, now)

\* What several routes compute each in its own way is the same at one
\* instant: what is overdue, the standing and the status of every distribution,
\* and how many records the last days have brought.
ViewsAgree == OverdueViewsAgree /\ ReportsAgree /\ StatusesAgree /\ SeriesMatchesTotals

\* '"My desk" = what is assigned to me or to my department' (comment in
\* myDesk): an active distribution is on the desk of the user it is assigned to.
AssignedIsOnDesk ==
  \A d \in Created : \A u \in User :
    (dist[d].assignee = u /\ dist[d].status \in ActiveStatus) => d \in myDesk(DeptOf[u], "all")

=============================================================================
