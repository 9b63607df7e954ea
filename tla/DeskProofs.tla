----------------------------- MODULE DeskProofs -----------------------------
(***************************************************************************)
(* What a reader sees, proved for any number of records, distributions,    *)
(* departments and handlers, any pages and any length of a day: module     *)
(* Desk beside the writers of module Distribution.                         *)
(***************************************************************************)
EXTENDS Desk, DistributionProofs, WellFoundedInduction

----------------------------------------------------------------------------
(* The tables can be counted *)

LEMMA ActionsAreFew == IsFiniteSet(AuditAction)
<1>1. AuditAction = (((((({} \cup {"CREATE_INCOMING"}) \cup {"FORWARD"}) \cup {"DIST_STATUS"})
          \cup {"UPDATE_DISTRIBUTION"}) \cup {"ASSIGN"}) \cup {"NOTE"}) \cup {"ESCALATED"}
  BY DEF AuditAction
<1>2. \A S, x : IsFiniteSet(S) => IsFiniteSet(S \cup {x})
  BY FS_AddElement
<1> QED
  BY <1>1, <1>2, FS_EmptySet

LEMMA AuditRowsType == DistTypeOK => AuditRows \in Nat
<1> SUFFICES ASSUME DistTypeOK PROVE AuditRows \in Nat
  OBVIOUS
<1> DEFINE Of(ia) == {ia} \X (1 .. audit[ia[1]][ia[2]])
           All == {Of(ia) : ia \in Incoming \X AuditAction}
<1>1. IsFiniteSet(Incoming \X AuditAction)
  BY ActionsAreFew, DeskAssumption, FS_Product
<1>2. IsFiniteSet(All)
  <2> HIDE DEF Of
  <2> DEFINE f == [ia \in Incoming \X AuditAction |-> Of(ia)]
  <2>1. f \in Surjection(Incoming \X AuditAction, All)
    BY DEF Surjection
  <2> QED
    BY <1>1, <2>1, FS_Surjection
<1>3. ASSUME NEW ia \in Incoming \X AuditAction PROVE IsFiniteSet(Of(ia))
  <2>1. ia[1] \in Incoming /\ ia[2] \in AuditAction
    OBVIOUS
  <2>2. audit[ia[1]][ia[2]] \in Nat
    BY <2>1 DEF DistTypeOK
  <2> DEFINE S == {ia}
             T == 1 .. audit[ia[1]][ia[2]]
  <2>3. IsFiniteSet(S)
    BY FS_Singleton
  <2>4. IsFiniteSet(T)
    BY <2>2, FS_Interval
  <2>5. IsFiniteSet(S \X T)
    <3> HIDE DEF S, T
    <3> QED
      BY <2>3, <2>4, FS_Product
  <2> QED
    BY <2>5
<1>4. IsFiniteSet(UNION All)
  <2> HIDE DEF Of
  <2>1. \A T \in All : IsFiniteSet(T)
    BY <1>3
  <2> QED
    BY <1>2, <2>1, FS_UNION
<1> QED
  BY <1>4, FS_CardinalityType DEF AuditRows

LEMMA MembersAreFew ==
  ASSUME DistTypeOK, NEW l \in List
  PROVE  IsFiniteSet(Members(l)) /\ Cardinality(Members(l)) \in Nat
<1>1. CASE l.kind = "desk"
  <2>1. Members(l) \in SUBSET DistId
    BY <1>1 DEF Members, myDesk, Created
  <2> QED
    BY <2>1, DeskAssumption, FS_Subset, FS_CardinalityType
<1>2. CASE l.kind = "records"
  <2>1. Members(l) \in SUBSET Incoming
    BY <1>2 DEF Members, Registered
  <2> QED
    BY <2>1, DeskAssumption, FS_Subset, FS_CardinalityType
<1>3. CASE l.kind = "audit"
  <2>1. Members(l) = 1 .. AuditRows
    BY <1>3 DEF Members
  <2> QED
    BY <2>1, AuditRowsType, FS_Interval, FS_CardinalityType
<1> QED
  BY <1>1, <1>2, <1>3 DEF List

LEMMA FiguresAreFew ==
  ASSUME NEW name, NEW x, NEW t
  PROVE  IsFiniteSet(Figure(name, x, t)) /\ Cardinality(Figure(name, x, t)) \in Nat
<1>1. Figure(name, x, t) \in SUBSET Incoming \/ Figure(name, x, t) \in SUBSET DistId
  BY DEF Figure, Registered, Created
<1> QED
  BY <1>1, DeskAssumption, FS_Subset, FS_CardinalityType

LEMMA LogRowsAreFew ==
  ASSUME DistTypeOK, NEW i, NEW a
  PROVE  IsFiniteSet(LogRows(i, a)) /\ Cardinality(LogRows(i, a)) \in Nat
<1> DEFINE Of(d) == {d} \X {n \in DOMAIN log[d] : log[d][n].why = a}
           All == {Of(d) : d \in DistsOf(i)}
<1>1. IsFiniteSet(DistsOf(i))
  BY DeskAssumption, FS_Subset DEF DistsOf
<1>2. IsFiniteSet(All)
  <2> HIDE DEF Of
  <2> DEFINE f == [d \in DistsOf(i) |-> Of(d)]
  <2>1. f \in Surjection(DistsOf(i), All)
    BY DEF Surjection
  <2> QED
    BY <1>1, <2>1, FS_Surjection
<1>3. ASSUME NEW d \in DistsOf(i) PROVE IsFiniteSet(Of(d))
  <2> DEFINE S == {d}
             T == {n \in DOMAIN log[d] : log[d][n].why = a}
  <2>1. log[d] \in Seq(LogEntry)
    BY DEF DistTypeOK, DistsOf
  <2>2. T \in SUBSET (1 .. Len(log[d])) /\ Len(log[d]) \in Nat
    BY <2>1
  <2>3. IsFiniteSet(S)
    BY FS_Singleton
  <2>4. IsFiniteSet(1 .. Len(log[d]))
    BY <2>2, FS_Interval
  <2>5. IsFiniteSet(S \X T)
    <3> HIDE DEF S, T
    <3> QED
      BY <2>2, <2>3, <2>4, FS_Subset, FS_Product
  <2> QED
    BY <2>5
<1>4. IsFiniteSet(UNION All)
  <2> HIDE DEF Of
  <2>1. \A T \in All : IsFiniteSet(T)
    BY <1>3
  <2> QED
    BY <1>2, <2>1, FS_UNION
<1> QED
  BY <1>4, FS_CardinalityType DEF LogRows

----------------------------------------------------------------------------
(* Type correctness *)

ReaderTypeOK ==
  /\ reader \in {Nobody} \cup WalkState \cup OverviewState \cup TimelineState
  /\ IsOverview => reader.at <= now

ColumnsTypeOK ==
  /\ dept \in [DistId -> Dept \cup {None}]
  /\ \A d \in Created : dept[d] # None
  /\ received \in [Incoming -> 0 .. now]

LEMMA TypeOKParts == TypeOK <=> DistTypeOK /\ ColumnsTypeOK /\ ReaderTypeOK
BY DEF TypeOK, ColumnsTypeOK, ReaderTypeOK

\* The clock does not go back.
LEMMA ClockRises == DistTypeOK /\ DistNext => now' \in Nat /\ now' >= now
<1>1. DistTypeOK => now \in Nat
  BY DistributionAssumption DEF DistTypeOK
<1>2. DistNext => now' = now \/ now' = now + 1
  BY DEF DistNext, createIncoming, forwardRead, forwardCommit, statusRead, statusCommit,
         requestFails, updateDistributionSLA, assignDistribution, addDistributionNote,
         updateSettings, tick
<1> QED
  BY <1>1, <1>2

\* The writers give what they create a department and a date.
LEMMA ColumnsStep ==
  ASSUME DistTypeOK, ColumnsTypeOK, DistNext, NewColumns
  PROVE  ColumnsTypeOK'
<1>1. PICK x \in Dept : dept' = [d \in DistId |-> IF Exists(d)' /\ ~ Exists(d) THEN x ELSE dept[d]]
  BY DEF NewColumns
<1>2. PICK t \in {now, Max({0, now - 1})} :
        received' = [i \in Incoming |-> IF i \in Registered' \ Registered THEN t ELSE received[i]]
  BY DEF NewColumns
<1>3. now \in Nat /\ now' \in Nat /\ now' >= now
  BY ClockRises, DistributionAssumption DEF DistTypeOK
<1>4. t \in 0 .. now
  <2>1. Max({0, now - 1}) \in {0, now - 1} /\ Max({0, now - 1}) >= 0
    <3>1. \E m \in {0, now - 1} : \A k \in {0, now - 1} : m >= k
      BY <1>3
    <3> QED
      BY <3>1 DEF Max
  <2> QED
    BY <1>2, <1>3, <2>1
<1>5. received' \in [Incoming -> 0 .. now']
  BY <1>2, <1>3, <1>4 DEF ColumnsTypeOK
<1>6. dept' \in [DistId -> Dept \cup {None}]
  BY <1>1 DEF ColumnsTypeOK
<1>7. ASSUME NEW d \in DistId, Exists(d)' PROVE dept'[d] # None
  BY <1>1, <1>7, DeskAssumption DEF ColumnsTypeOK, Created
<1> QED
  BY <1>5, <1>6, <1>7 DEF ColumnsTypeOK, Created

\* What the tables let be counted can be counted after a step too.
ListsCounted == \A l \in List : IsFiniteSet(Members(l)) /\ Cardinality(Members(l)) \in Nat

FiguresCounted ==
  \A name, x, t : IsFiniteSet(Figure(name, x, t)) /\ Cardinality(Figure(name, x, t)) \in Nat

LEMMA CountedAfter == (DistTypeOK' => ListsCounted') /\ FiguresCounted'
<1>1. DistTypeOK => ListsCounted
  BY MembersAreFew DEF ListsCounted
<1>2. FiguresCounted
  BY FiguresAreFew DEF FiguresCounted
<1> QED
  BY <1>1, <1>2, PTL

LEMMA ReaderKinds ==
  ASSUME ReaderTypeOK
  PROVE  /\ reader.op \in {"walk", "walked"} => reader \in WalkState
         /\ IsOverview => reader \in OverviewState
         /\ reader.op = "timeline" => reader \in TimelineState
BY DEF ReaderTypeOK, Nobody, WalkState, OverviewState, TimelineState, IsOverview

LEMMA AfterStatementType ==
  ASSUME NEW r \in WalkState
  PROVE  AfterStatement(r) \in WalkState
<1>1. [r EXCEPT !.stage = 2] \in WalkState
  BY DEF WalkState
<1>2. [r EXCEPT !.page = @ + 1, !.stage = 1] \in WalkState
  <2>1. r.page + 1 \in Nat \ {0} /\ r \in WalkState
    BY DEF WalkState
  <2> DEFINE n == r.page + 1
  <2>2. n \in Nat \ {0}
    BY <2>1
  <2> HIDE DEF n
  <2>3. [r EXCEPT !.page = n, !.stage = 1] \in WalkState
    BY <2>2 DEF WalkState
  <2> QED
    BY <2>3 DEF n
<1>3. [r EXCEPT !.op = "walked"] \in WalkState
  BY DEF WalkState
<1> QED
  BY <1>1, <1>2, <1>3 DEF AfterStatement, NextPage

\* The rows of a list and of its pages.
LEMMA MembersAreRows == \A l \in List : Members(l) \subseteq AnyRow
BY DEF List, Members, myDesk, Created, Registered, AnyRow

LEMMA PagesAreRows ==
  ASSUME NEW l, NEW page, NEW rows \in Pages(l, page)
  PROVE  rows \subseteq Members(l)
BY DEF Pages, FirstRows

LEMMA WatchType ==
  ASSUME DistTypeOK, DistTypeOK', ReaderTypeOK, now \in Nat, now' \in Nat, now' >= now, Watch
  PROVE  ReaderTypeOK'
<1>1. CASE UNCHANGED reader
  <2>1. IsOverview' = IsOverview
    BY <1>1 DEF IsOverview
  <2>2. IsOverview => reader.at \in Nat
    BY ReaderKinds DEF OverviewState
  <2> QED
    BY <1>1, <2>1, <2>2 DEF ReaderTypeOK
<1>2. CASE IsWalking /\ ~ UNCHANGED reader
  <2>1. reader \in WalkState
    BY <1>2, ReaderKinds DEF IsWalking
  <2> PICK l \in List : l = reader.list
    BY <2>1 DEF WalkState
  <2> DEFINE come == Cardinality(Members(l)' \ Members(l))
             gone == Members(l) \cap Members(l)' # Members(l)
                       \/ \E a \in Members(l) \cap Members(l)' : Place(l, a) # Place(l, a)'
  <2>2. reader' = [reader EXCEPT !.stood = @ \cap (Members(l) \cap Members(l)'),
                                 !.arrived = @ + come,
                                 !.stirred = @ \/ gone,
                                 !.tied = @ \/ Tied(l)']
    BY <1>2 DEF Watch, IsWalking
  <2>3. come \in Nat
    BY CountedAfter, FS_Difference, FS_CardinalityType DEF ListsCounted
  <2> HIDE DEF come, gone
  <2>4. reader' \in WalkState
    <3> DEFINE stood == reader.stood \cap (Members(l) \cap Members(l)')
               arrived == reader.arrived + come
               stirred == reader.stirred \/ gone
               tied == reader.tied \/ Tied(l)'
    <3>1. stood \in SUBSET AnyRow /\ arrived \in Nat /\ stirred \in BOOLEAN /\ tied \in BOOLEAN
      BY <2>1, <2>3 DEF WalkState
    <3>2. reader' = [reader EXCEPT !.stood = stood, !.arrived = arrived, !.stirred = stirred,
                                   !.tied = tied]
      BY <2>2
    <3> HIDE DEF stood, arrived, stirred, tied
    <3> QED
      BY <2>1, <3>1, <3>2 DEF WalkState
  <2> QED
    BY <2>4 DEF ReaderTypeOK, IsOverview, WalkState
<1>3. CASE reader.op = "desk"
  <2>1. reader \in OverviewState /\ reader.at <= now
    BY <1>3, ReaderKinds DEF IsOverview, ReaderTypeOK
  <2> DEFINE moved == {d \in Created' : /\ reader.dept \in {None, dept'[d]}
                                        /\ ~ Exists(d) \/ dist[d].status # dist'[d].status}
  <2>2. reader' = [reader EXCEPT !.moves = @ + Cardinality(moved)]
    BY <1>3 DEF Watch, IsWalking
  <2>3. moved \in SUBSET DistId
    BY DEF Created
  <2>4. Cardinality(moved) \in Nat
    BY <2>3, DeskAssumption, FS_Subset, FS_CardinalityType
  <2> HIDE DEF moved
  <2> DEFINE moves == reader.moves + Cardinality(moved)
  <2>5. moves \in Nat /\ reader.at \in Nat
    BY <2>1, <2>4 DEF OverviewState
  <2>6. reader' \in OverviewState /\ reader'.at = reader.at
    <3> HIDE DEF moves
    <3> QED
      BY <2>1, <2>2, <2>5 DEF OverviewState, moves
  <2> QED
    BY <2>1, <2>5, <2>6 DEF ReaderTypeOK
<1> QED
  BY <1>1, <1>2, <1>3 DEF Watch

\* A writer is watched by who walks a list and by who counts my desk.
LEMMA WatchKeeps ==
  ASSUME ReaderTypeOK, Watch
  PROVE  /\ reader'.op = reader.op
         /\ reader.op \notin {"walk", "desk"} => UNCHANGED reader
<1>1. IsWalking => reader \in WalkState
  BY ReaderKinds DEF IsWalking
<1>2. reader.op = "desk" => reader \in OverviewState
  BY ReaderKinds DEF IsOverview
<1>3. CASE IsWalking
  BY <1>1, <1>3 DEF Watch, IsWalking, WalkState
<1>4. CASE reader.op = "desk"
  BY <1>2, <1>4 DEF Watch, IsWalking, OverviewState
<1> QED
  BY <1>3, <1>4 DEF Watch, IsWalking

\* The steps of the reader, which write nothing but what it has read.
WalkReads ==
  \/ \E l \in List : walkBegins(l)
  \/ findPage
  \/ countRows

OtherReads ==
  \/ \E kind \in {"totals", "desk"}, x \in Viewers : overviewBegins(kind, x)
  \/ countFigure
  \/ \E i \in Incoming : timelineBegins(i)
  \/ readLogs
  \/ readAudit
  \/ readerEnds

LEMMA Steps ==
  /\ Next <=> Writer \/ WalkReads \/ OtherReads
  /\ WalkReads \/ OtherReads => UNCHANGED <<distVars, dept, received>>
BY DEF Next, WalkReads, OtherReads, walkBegins, findPage, countRows, overviewBegins, countFigure,
       timelineBegins, readLogs, readAudit, readerEnds

LEMMA TablesKept ==
  ASSUME DistTypeOK, ColumnsTypeOK, UNCHANGED <<distVars, dept, received>>
  PROVE  DistTypeOK' /\ ColumnsTypeOK'
<1>1. UNCHANGED <<now, cfg, dist, log, audit, req, locked>>
  BY DEF distVars
<1>2. DistTypeOK'
  BY <1>1 DEF DistTypeOK
<1>3. ColumnsTypeOK'
  BY <1>1 DEF ColumnsTypeOK, Created, Exists
<1> QED
  BY <1>2, <1>3

LEMMA WalkStepType ==
  ASSUME DistTypeOK, ReaderTypeOK, WalkReads
  PROVE  reader' \in WalkState
<1>1. ASSUME NEW l \in List, walkBegins(l) PROVE reader' \in WalkState
  <2>1. Members(l) \in SUBSET AnyRow /\ Tied(l) \in BOOLEAN
    BY MembersAreRows DEF Tied
  <2>2. reader' = [op |-> "walk", list |-> l, page |-> 1, stage |-> 1, total |-> 0,
                   shown |-> {}, stood |-> Members(l), arrived |-> 0,
                   stirred |-> FALSE, tied |-> Tied(l)]
    BY <1>1 DEF walkBegins
  <2> QED
    BY <2>1, <2>2 DEF WalkState
<1>2. CASE findPage
  <2>1. reader \in WalkState
    BY <1>2, ReaderKinds DEF findPage, IsWalking
  <2>2. PICK rows \in Pages(reader.list, reader.page) :
          reader' = AfterStatement([reader EXCEPT !.shown = @ \cup rows])
    BY <1>2 DEF findPage
  <2>3. rows \in SUBSET AnyRow
    BY <2>1, PagesAreRows, MembersAreRows DEF WalkState
  <2>4. [reader EXCEPT !.shown = @ \cup rows] \in WalkState
    <3> DEFINE shown == reader.shown \cup rows
    <3>1. shown \in SUBSET AnyRow
      BY <2>1, <2>3 DEF WalkState
    <3> HIDE DEF shown
    <3>2. [reader EXCEPT !.shown = shown] \in WalkState
      BY <2>1, <3>1 DEF WalkState
    <3> QED
      BY <3>2 DEF shown
  <2> QED
    BY <2>2, <2>4, AfterStatementType
<1>3. CASE countRows
  <2>1. reader \in WalkState
    BY <1>3, ReaderKinds DEF countRows, IsWalking
  <2> DEFINE n == Cardinality(Members(reader.list))
  <2>2. n \in Nat
    BY <2>1, MembersAreFew DEF WalkState
  <2>3. reader' = AfterStatement([reader EXCEPT !.total = n])
    BY <1>3 DEF countRows
  <2> HIDE DEF n
  <2>4. [reader EXCEPT !.total = n] \in WalkState
    BY <2>1, <2>2 DEF WalkState
  <2> QED
    BY <2>3, <2>4, AfterStatementType
<1> QED
  BY <1>1, <1>2, <1>3 DEF WalkReads

LEMMA FigureStepType ==
  ASSUME DistTypeOK, ReaderTypeOK, now \in Nat, OtherReads
  PROVE  ReaderTypeOK'
<1>1. now' = now
  BY Steps DEF distVars
<1>2. ASSUME NEW kind \in {"totals", "desk"}, NEW x \in Viewers, overviewBegins(kind, x)
      PROVE  ReaderTypeOK'
  <2>1. reader' = [op |-> kind, dept |-> x, at |-> now, figure |-> << >>, moves |-> 0]
    BY <1>2 DEF overviewBegins
  <2>2. reader' \in OverviewState
    BY <2>1 DEF OverviewState
  <2> QED
    BY <1>1, <2>1, <2>2 DEF ReaderTypeOK
<1>3. CASE countFigure
  <2>1. reader \in OverviewState /\ reader.at <= now
    BY <1>3, ReaderKinds DEF countFigure, ReaderTypeOK
  <2> PICK n \in Nat : reader' = [reader EXCEPT !.figure = Append(@, n)]
    BY <1>3, FiguresAreFew DEF countFigure
  <2> DEFINE more == Append(reader.figure, n)
  <2>2. more \in Seq(Nat)
    BY <2>1 DEF OverviewState
  <2>3. reader' \in OverviewState /\ reader'.at = reader.at
    <3> HIDE DEF more
    <3> QED
      BY <2>1, <2>2 DEF OverviewState, more
  <2> QED
    BY <1>1, <2>1, <2>3 DEF ReaderTypeOK
<1>4. ASSUME NEW i \in Incoming, timelineBegins(i) PROVE ReaderTypeOK'
  <2>1. reader' \in TimelineState /\ reader'.op = "timeline"
    BY <1>4 DEF timelineBegins, TimelineState, Counts
  <2> QED
    BY <2>1 DEF ReaderTypeOK, IsOverview
<1>5. CASE readLogs \/ readAudit
  <2>1. reader \in TimelineState
    BY <1>5, ReaderKinds DEF readLogs, readAudit
  <2>2. LogCounts(reader.incoming) \in Counts
    BY LogRowsAreFew DEF LogCounts, Counts
  <2>3. audit[reader.incoming] \in Counts
    BY <2>1 DEF TimelineState, Counts, DistTypeOK
  <2>4. reader' \in TimelineState /\ reader'.op = "timeline"
    BY <1>5, <2>1, <2>2, <2>3 DEF readLogs, readAudit, TimelineState
  <2> QED
    BY <2>4 DEF ReaderTypeOK, IsOverview
<1>6. CASE readerEnds
  BY <1>6 DEF readerEnds, ReaderTypeOK, Nobody, IsOverview
<1> QED
  BY <1>2, <1>3, <1>4, <1>5, <1>6 DEF OtherReads

LEMMA TypeInit == Init => TypeOK
<1> SUFFICES ASSUME Init PROVE TypeOK
  OBVIOUS
<1>1. DistTypeOK
  BY DistInitTypeOK DEF Init
<1>2. Created = {}
  BY DEF Init, DistInit, Created, Exists, NoRow
<1>3. ColumnsTypeOK
  BY <1>2 DEF Init, DistInit, ColumnsTypeOK
<1>4. ReaderTypeOK
  BY DEF Init, ReaderTypeOK, Nobody, IsOverview
<1> QED
  BY <1>1, <1>3, <1>4, TypeOKParts

LEMMA TypeStep == TypeOK /\ [Next]_vars => TypeOK'
<1> SUFFICES ASSUME TypeOK, [Next]_vars PROVE TypeOK'
  OBVIOUS
<1>1. DistTypeOK /\ ColumnsTypeOK /\ ReaderTypeOK /\ now \in Nat
  BY TypeOKParts, DistributionAssumption DEF DistTypeOK
<1>2. TypeOK' <=> DistTypeOK' /\ ColumnsTypeOK' /\ ReaderTypeOK'
  BY TypeOKParts, PTL
<1>3. CASE Writer
  <2>1. DistNext /\ NewColumns /\ Watch
    BY <1>3 DEF Writer
  <2>2. DistTypeOK' /\ now' \in Nat /\ now' >= now
    BY <1>1, <2>1, DistNextTypeOK, ClockRises
  <2> QED
    BY <1>1, <1>2, <2>1, <2>2, ColumnsStep, WatchType
<1>4. CASE WalkReads
  <2>1. reader' \in WalkState
    BY <1>1, <1>4, WalkStepType
  <2>2. ReaderTypeOK'
    BY <2>1 DEF ReaderTypeOK, IsOverview, WalkState
  <2> QED
    BY <1>1, <1>2, <1>4, <2>2, Steps, TablesKept
<1>5. CASE OtherReads
  BY <1>1, <1>2, <1>5, Steps, TablesKept, FigureStepType
<1>6. CASE UNCHANGED vars
  <2>1. UNCHANGED <<now, reader>> /\ UNCHANGED <<distVars, dept, received>>
    BY <1>6 DEF vars, readVars, distVars
  <2>2. ReaderTypeOK'
    BY <1>1, <2>1 DEF ReaderTypeOK, IsOverview
  <2> QED
    BY <1>1, <1>2, <2>1, <2>2, TablesKept
<1> QED
  BY <1>3, <1>4, <1>5, <1>6, Steps

\* TypeOK, whatever is written between two statements of a reader: what it has
\* read has its type, what exists has its department and its date, and neither
\* a record nor an overview is from the future.
THEOREM DeskTypeCorrect == Spec => []TypeOK
BY TypeInit, TypeStep, PTL DEF Spec

----------------------------------------------------------------------------
(* The timeline shows the audit row of what it shows of the log *)

\* What makes TimelineAuditsWhatItLogs inductive: the trail and the logs agree
\* whenever the log is read, and the trail only grows until it is read.
TimelineInv ==
  /\ FreshIds
  /\ StatusReads
  /\ Audited
  /\ CreationUnlogged
  /\ (reader.op = "timeline" /\ reader.logs # None) =>
       \A a \in AuditAction : reader.logs[a] <= audit[reader.incoming][a]
  /\ (reader.op = "timeline" /\ reader.logs = None) => reader.audits = None
  /\ TimelineAuditsWhatItLogs

\* At one instant no log tells of more than its record's trail.
LEMMA LogsAreAudited ==
  ASSUME DistTypeOK, Audited, CreationUnlogged, NEW i \in Incoming, NEW a \in AuditAction
  PROVE  LogCounts(i)[a] <= audit[i][a]
<1>1. audit[i][a] \in Nat
  BY DEF DistTypeOK
<1>2. LogCounts(i)[a] = Cardinality(LogRows(i, a))
  BY DEF LogCounts
<1>3. CASE a \in Told
  BY <1>1, <1>2, <1>3 DEF Audited
<1>4. CASE a = "CREATE_INCOMING"
  <2>1. LogRows(i, a) = {}
    BY <1>4, InLogRows DEF LogRowsAreTold, IsTold, CreationUnlogged, DistsOf
  <2> QED
    BY <1>1, <1>2, <2>1, FS_EmptySet
<1> QED
  BY <1>3, <1>4 DEF Told

LEMMA TimelineStep == TypeOK /\ TimelineInv /\ [Next]_vars => TimelineInv'
<1> SUFFICES ASSUME TypeOK, TimelineInv, [Next]_vars PROVE TimelineInv'
  OBVIOUS
<1>1. DistTypeOK /\ ReaderTypeOK
  BY TypeOKParts
<1> DEFINE TablesInv == FreshIds /\ StatusReads /\ Audited /\ CreationUnlogged
<1>2. CASE Writer
  <2>1. DistNext /\ Watch
    BY <1>2 DEF Writer
  <2>2. TablesInv'
    BY <1>1, <2>1, FreshIdsStep, StatusReadsKept, HandlersAudit, CreationUnloggedStep
       DEF TimelineInv
  <2>3. CASE reader'.op # "timeline"
    BY <2>2, <2>3 DEF TimelineInv, TimelineAuditsWhatItLogs
  <2>4. CASE reader'.op = "timeline"
    <3>1. UNCHANGED reader
      BY <1>1, <2>1, <2>4, WatchKeeps
    <3>2. reader \in TimelineState
      BY <1>1, <2>4, <3>1, ReaderKinds
    <3>3. ASSUME reader.logs # None, NEW a \in AuditAction
          PROVE  reader.logs[a] <= audit'[reader.incoming][a]
      <4>1. reader.incoming \in Incoming /\ reader.logs[a] \in Nat
        BY <3>2, <3>3 DEF TimelineState, Counts
      <4>2. reader.logs[a] <= audit[reader.incoming][a]
        BY <2>4, <3>1, <3>3 DEF TimelineInv
      <4>3. audit[reader.incoming][a] \in Nat /\ audit'[reader.incoming][a] \in Nat
        BY <1>1, <2>1, <4>1, DistNextTypeOK DEF DistTypeOK
      <4> QED
        BY <1>1, <2>1, <4>1, <4>2, <4>3, AuditGrows
    <3> QED
      BY <2>2, <3>1, <3>3 DEF TimelineInv, TimelineAuditsWhatItLogs
  <2> QED
    BY <2>3, <2>4
<1>3. CASE UNCHANGED <<distVars, dept, received>>
  <2>1. UNCHANGED <<dist, log, audit, req>>
    BY <1>3 DEF distVars
  <2>2. TablesInv'
    BY <2>1 DEF TimelineInv, FreshIds, Existing, Exists, StatusReads, CreationUnlogged, Audited,
                LogRows, DistsOf
  <2>3. CASE readLogs
    <3>1. reader \in TimelineState /\ reader.audits = None
      BY <1>1, <2>3, ReaderKinds DEF readLogs, TimelineInv
    <3>2. /\ reader'.logs = LogCounts(reader.incoming)
          /\ reader'.incoming = reader.incoming
          /\ reader'.audits = None
      BY <2>3, <3>1 DEF readLogs, TimelineState
    <3>3. \A a \in AuditAction : reader'.logs[a] <= audit'[reader'.incoming][a]
      BY <1>1, <2>1, <3>1, <3>2, LogsAreAudited DEF TimelineInv, TimelineState
    <3> QED
      BY <2>2, <3>2, <3>3 DEF TimelineInv, TimelineAuditsWhatItLogs
  <2>4. CASE readAudit
    <3>1. reader \in TimelineState /\ reader.logs # None
      BY <1>1, <2>4, ReaderKinds DEF readAudit
    <3>2. /\ reader'.logs = reader.logs
          /\ reader'.incoming = reader.incoming
          /\ reader'.audits = audit[reader.incoming]
      BY <2>4, <3>1 DEF readAudit, TimelineState
    <3>3. \A a \in AuditAction : reader.logs[a] <= audit[reader.incoming][a]
      BY <2>4, <3>1 DEF readAudit, TimelineInv
    <3> QED
      BY <2>1, <2>2, <3>1, <3>2, <3>3 DEF TimelineInv, TimelineAuditsWhatItLogs
  <2>5. ASSUME reader'.op = "timeline" => reader'.logs = None /\ reader'.audits = None
        PROVE  TimelineInv'
    BY <2>2, <2>5 DEF TimelineInv, TimelineAuditsWhatItLogs
  <2>6. ASSUME UNCHANGED reader PROVE TimelineInv'
    BY <2>1, <2>2, <2>6 DEF TimelineInv, TimelineAuditsWhatItLogs
  <2>7. CASE WalkReads
    <3>1. reader' \in WalkState
      BY <1>1, <2>7, WalkStepType
    <3> QED
      BY <2>5, <3>1 DEF WalkState
  <2>8. ASSUME NEW kind \in {"totals", "desk"}, NEW x \in Viewers, overviewBegins(kind, x)
        PROVE  TimelineInv'
    BY <2>5, <2>8 DEF overviewBegins
  <2>9. CASE countFigure
    <3>1. reader \in OverviewState
      BY <1>1, <2>9, ReaderKinds DEF countFigure
    <3>2. reader'.op = reader.op
      BY <2>9, <3>1 DEF countFigure, OverviewState
    <3> QED
      BY <2>5, <3>1, <3>2 DEF OverviewState
  <2>10. ASSUME NEW i \in Incoming, timelineBegins(i) PROVE TimelineInv'
    BY <2>5, <2>10 DEF timelineBegins
  <2>11. CASE readerEnds
    BY <2>5, <2>11 DEF readerEnds, Nobody
  <2>12. CASE OtherReads
    BY <2>3, <2>4, <2>8, <2>9, <2>10, <2>11, <2>12 DEF OtherReads
  <2>13. CASE UNCHANGED vars
    BY <2>6, <2>13 DEF vars, readVars
  <2> QED
    BY <1>2, <2>7, <2>12, <2>13, Steps
<1> QED
  BY <1>2, <1>3, Steps DEF vars, readVars

\* TimelineAuditsWhatItLogs, whatever handlers commit between the two
\* statements of getTimeline: a timeline that shows a log row shows its audit
\* row.
THEOREM TimelinesAreAudited == Spec => []TimelineAuditsWhatItLogs
<1>1. Init => TimelineInv
  BY AuditBegins DEF Init, Nobody, TimelineInv, TimelineAuditsWhatItLogs
<1>2. TimelineInv => TimelineAuditsWhatItLogs
  BY DEF TimelineInv
<1> QED
  BY <1>1, <1>2, TimelineStep, DeskTypeCorrect, PTL DEF Spec

----------------------------------------------------------------------------
(* The figures of an overview fit together *)

TotalNames == {"today", "last7", "month", "all"}

\* What has been registered stays registered, on its date.
LEMMA RegisteredStay ==
  ASSUME DistTypeOK, DistNext, NewColumns, NEW i \in Registered
  PROVE  i \in Registered' /\ received'[i] = received[i]
<1>1. PICK d \in DistsOf(i) : TRUE
  BY DEF Registered
<1>2. i \in Incoming /\ i # None
  BY DistributionAssumption DEF Registered
<1>3. d \in Existing /\ dist[d].incoming = i
  BY <1>1, <1>2 DEF DistsOf, Existing, Exists
<1>4. d \in DistsOf(i)'
  BY <1>3, DistStillExists DEF DistsOf, Existing
<1>5. received'[i] = received[i]
  BY <1>2 DEF NewColumns
<1> QED
  BY <1>2, <1>4, <1>5 DEF Registered

\* A total can only grow while the day of the overview stays the same.
LEMMA TotalsGrow ==
  ASSUME DistTypeOK, DistNext, NewColumns, NEW name \in TotalNames, NEW x, NEW t
  PROVE  Figure(name, x, t) \subseteq Figure(name, x, t)'
<1> SUFFICES ASSUME NEW i \in Figure(name, x, t) PROVE i \in Figure(name, x, t)'
  OBVIOUS
<1>1. i \in Registered
  BY DEF Figure, TotalNames
<1>2. i \in Registered' /\ received'[i] = received[i]
  BY <1>1, RegisteredStay
<1> QED
  BY <1>2 DEF Figure, TotalNames, Day, Month

\* The ranges of the totals are nested.
LEMMA RangesNest ==
  ASSUME ColumnsTypeOK, now \in Nat, NEW t \in Nat, NEW x
  PROVE  /\ Figure("today", x, t) \subseteq Figure("last7", x, t)
         /\ Figure("today", x, t) \subseteq Figure("month", x, t)
         /\ Figure("last7", x, t) \subseteq Figure("all", x, t)
         /\ Figure("month", x, t) \subseteq Figure("all", x, t)
<1>1. \A u \in Nat : Day(u) \in Int
  BY DeskAssumption DEF Day
<1>2. \A i \in Registered : received[i] \in Nat
  BY DEF Registered, ColumnsTypeOK
<1>3. LastDays \in Nat \ {0}
  BY DeskAssumption
<1>4. Figure("today", x, t) \subseteq Figure("last7", x, t)
  BY <1>1, <1>2, <1>3 DEF Figure
<1>5. Figure("today", x, t) \subseteq Figure("month", x, t)
  BY <1>1, <1>2 DEF Figure, Month
<1> QED
  BY <1>4, <1>5 DEF Figure

\* The distributions of a desk that the first k figures of my desk count.
Counted(x, k) ==
  {d \in Created : OnDesk(d, x) /\ \E n \in 1 .. k : dist[d].status = FiguresOf("desk")[n]}

SumMade(f) ==
  (IF Len(f) >= 1 THEN f[1] ELSE 0) + (IF Len(f) >= 2 THEN f[2] ELSE 0)
    + (IF Len(f) >= 3 THEN f[3] ELSE 0)

\* What makes OverviewCoheres inductive: the totals only grow after they are
\* counted, and the figures of my desk miss the rows there are by no more than
\* the rows that have moved.
TotalsInv ==
  reader.op = "totals" =>
    /\ Len(reader.figure) <= 4
    /\ \A m \in Made :
         reader.figure[m] <= Cardinality(Figure(FiguresOf("totals")[m], reader.dept, reader.at))

DriftInv ==
  reader.op = "desk" =>
    /\ Len(reader.figure) <= 3
    /\ SumMade(reader.figure) - Cardinality(Counted(reader.dept, Len(reader.figure)))
         \in - reader.moves .. reader.moves

OverviewInv == TotalsInv /\ TotalsNest /\ DriftInv

LEMMA CountedAreFew == \A x, k : IsFiniteSet(Counted(x, k)) /\ Cardinality(Counted(x, k)) \in Nat
<1> SUFFICES ASSUME NEW x, NEW k
             PROVE  IsFiniteSet(Counted(x, k)) /\ Cardinality(Counted(x, k)) \in Nat
  OBVIOUS
<1>1. Counted(x, k) \in SUBSET DistId
  BY DEF Counted, Created
<1> QED
  BY <1>1, DeskAssumption, FS_Subset, FS_CardinalityType

LEMMA DriftInvSuffices == TypeOK /\ OverviewInv => OverviewCoheres
<1> SUFFICES ASSUME TypeOK, OverviewInv, reader.op = "desk", Len(reader.figure) = 3
             PROVE  DeskFiguresDrift
  BY DEF OverviewInv, OverviewCoheres, DeskFiguresDrift
<1>1. {d \in Created : OnDesk(d, reader.dept) /\ dist[d].status # "Escalated"}
        = Counted(reader.dept, 3)
  <2>1. \A d \in Created : dist[d].status \in Status
    BY TypeOKParts DEF DistTypeOK, Row, Created
  <2>2. \A d \in Created : dist[d].status # "Escalated"
                           <=> \E n \in 1 .. 3 : dist[d].status = FiguresOf("desk")[n]
    <3>1. FiguresOf("desk") = <<"Open", "InProgress", "Closed">>
      BY DEF FiguresOf
    <3>2. 1 .. 3 = {1, 2, 3}
      OBVIOUS
    <3> QED
      BY <2>1, <3>1, <3>2 DEF Status
  <2> QED
    BY <2>2 DEF Counted
<1>2. SumMade(reader.figure) = reader.figure[1] + reader.figure[2] + reader.figure[3]
  <2>1. reader.figure \in Seq(Nat)
    BY TypeOKParts, ReaderKinds DEF IsOverview, OverviewState
  <2> QED
    BY <2>1 DEF SumMade
<1> QED
  BY <1>1, <1>2 DEF OverviewInv, DriftInv, DeskFiguresDrift

\* A writer changes no status but those it counts among the moves.
LEMMA MovesCount ==
  ASSUME TypeOK, DistNext, NewColumns, DistTypeOK', NEW x, NEW k,
         NEW moved, moved = {d \in Created' : /\ x \in {None, dept'[d]}
                                              /\ ~ Exists(d) \/ dist[d].status # dist'[d].status}
  PROVE  /\ IsFiniteSet(moved) /\ Cardinality(moved) \in Nat
         /\ Cardinality(Counted(x, k)') \in Nat
         /\ Cardinality(Counted(x, k)') <= Cardinality(Counted(x, k)) + Cardinality(moved)
         /\ Cardinality(Counted(x, k)) <= Cardinality(Counted(x, k)') + Cardinality(moved)
<1> DEFINE before == Counted(x, k)
           after == Counted(x, k)'
<1>1. moved \in SUBSET DistId /\ after \in SUBSET DistId /\ before \in SUBSET DistId
  BY DEF Created, Counted
<1>2. \A d \in Created : d \in Created' /\ dept'[d] = dept[d]
  <2> SUFFICES ASSUME NEW d \in Created PROVE d \in Created' /\ dept'[d] = dept[d]
    OBVIOUS
  <2>1. d \in Existing /\ d \in DistId /\ Exists(d)
    BY DEF Created, Existing
  <2>2. d \in Existing'
    BY <2>1, TypeOKParts, DistStillExists
  <2>3. dept'[d] = dept[d]
    BY <2>1 DEF NewColumns
  <2> QED
    BY <2>2, <2>3 DEF Existing, Created
<1>3. after \subseteq before \cup moved
  <2> SUFFICES ASSUME NEW d \in after, d \notin moved PROVE d \in before
    OBVIOUS
  <2>1. d \in Created' /\ OnDesk(d, x)' /\ \E n \in 1 .. k : dist'[d].status = FiguresOf("desk")[n]
    BY DEF Counted
  <2>2. x \in {None, dept'[d]}
    BY <2>1 DEF OnDesk
  <2>3. Exists(d) /\ dist[d].status = dist'[d].status
    BY <2>1, <2>2
  <2>4. d \in Created /\ dept'[d] = dept[d]
    BY <1>1, <1>2, <2>3 DEF Created
  <2> QED
    BY <2>1, <2>3, <2>4 DEF Counted, OnDesk
<1>4. before \subseteq after \cup moved
  <2> SUFFICES ASSUME NEW d \in before, d \notin moved PROVE d \in after
    OBVIOUS
  <2>1. d \in Created /\ OnDesk(d, x) /\ \E n \in 1 .. k : dist[d].status = FiguresOf("desk")[n]
    BY DEF Counted
  <2>2. d \in Created' /\ dept'[d] = dept[d]
    BY <1>2, <2>1
  <2>3. x \in {None, dept'[d]}
    BY <2>1, <2>2 DEF OnDesk
  <2>4. dist[d].status = dist'[d].status
    BY <2>2, <2>3
  <2> QED
    BY <2>1, <2>2, <2>4 DEF Counted, OnDesk, Created
<1>5. IsFiniteSet(DistId)
  BY DeskAssumption
<1> HIDE DEF before, after
<1>6. /\ IsFiniteSet(moved) /\ IsFiniteSet(after) /\ IsFiniteSet(before)
      /\ Cardinality(moved) \in Nat /\ Cardinality(after) \in Nat /\ Cardinality(before) \in Nat
  BY <1>1, <1>5, FS_Subset, FS_CardinalityType
<1>7. Cardinality(after) <= Cardinality(before) + Cardinality(moved)
  <2>1. /\ IsFiniteSet(before \cup moved)
        /\ Cardinality(before \cup moved)
             = Cardinality(before) + Cardinality(moved) - Cardinality(before \cap moved)
    BY <1>6, FS_Union
  <2>2. Cardinality(before \cap moved) \in Nat
    BY <1>6, FS_Intersection, FS_CardinalityType
  <2>3. Cardinality(after) <= Cardinality(before \cup moved)
    BY <1>3, <2>1, FS_Subset
  <2> QED
    BY <1>6, <2>1, <2>2, <2>3
<1>8. Cardinality(before) <= Cardinality(after) + Cardinality(moved)
  <2>1. /\ IsFiniteSet(after \cup moved)
        /\ Cardinality(after \cup moved)
             = Cardinality(after) + Cardinality(moved) - Cardinality(after \cap moved)
    BY <1>6, FS_Union
  <2>2. Cardinality(after \cap moved) \in Nat
    BY <1>6, FS_Intersection, FS_CardinalityType
  <2>3. Cardinality(before) <= Cardinality(after \cup moved)
    BY <1>4, <2>1, FS_Subset
  <2> QED
    BY <1>6, <2>1, <2>2, <2>3
<1> QED
  BY <1>6, <1>7, <1>8 DEF before, after

\* A figure of my desk adds the rows of its status to those counted before.
LEMMA CountedGrows ==
  ASSUME NEW x, NEW k \in 0 .. 2
  PROVE  Cardinality(Counted(x, k + 1))
           = Cardinality(Counted(x, k)) + Cardinality(Figure(FiguresOf("desk")[k + 1], x, reader.at))
<1> DEFINE new == Figure(FiguresOf("desk")[k + 1], x, reader.at)
           old == Counted(x, k)
<1>1. FiguresOf("desk") = <<"Open", "InProgress", "Closed">>
  BY DEF FiguresOf
<1>2. new = {d \in Created : OnDesk(d, x) /\ dist[d].status = FiguresOf("desk")[k + 1]}
  <2>1. FiguresOf("desk")[k + 1] \notin TotalNames
    BY <1>1 DEF TotalNames
  <2> QED
    BY <2>1 DEF Figure, TotalNames
<1>3. Counted(x, k + 1) = old \cup new
  BY <1>2 DEF Counted
<1>4. old \cap new = {}
  <2>1. \A n \in 1 .. k : FiguresOf("desk")[n] # FiguresOf("desk")[k + 1]
    BY <1>1
  <2> QED
    BY <1>2, <2>1 DEF Counted
<1>5. IsFiniteSet(old) /\ IsFiniteSet(new) /\ Cardinality(old) \in Nat /\ Cardinality(new) \in Nat
  BY CountedAreFew, FiguresAreFew
<1> HIDE DEF old, new
<1>6. Cardinality(old \cup new) = Cardinality(old) + Cardinality(new)
  BY <1>4, <1>5, FS_Union, FS_EmptySet
<1> QED
  BY <1>3, <1>6 DEF old, new

LEMMA OverviewWrite ==
  ASSUME TypeOK, OverviewInv, Writer
  PROVE  OverviewInv'
<1>1. DistTypeOK /\ ColumnsTypeOK /\ ReaderTypeOK
  BY TypeOKParts
<1>2. DistNext /\ NewColumns /\ Watch
  BY DEF Writer
<1>3. DistTypeOK'
  BY <1>1, <1>2, DistNextTypeOK
<1>4. CASE reader.op \notin {"totals", "desk"}
  <2>1. reader'.op \notin {"totals", "desk"}
    BY <1>1, <1>2, <1>4, WatchKeeps
  <2> QED
    BY <2>1 DEF OverviewInv, TotalsInv, TotalsNest, DriftInv
<1>5. CASE reader.op = "totals"
  <2>1. UNCHANGED reader
    BY <1>1, <1>2, <1>5, WatchKeeps
  <2>2. reader \in OverviewState
    BY <1>1, <1>5, ReaderKinds DEF IsOverview
  <2>3. ASSUME NEW m \in Made
        PROVE  reader.figure[m] <= Cardinality(Figure(FiguresOf("totals")[m], reader.dept, reader.at)')
    <3>1. m \in 1 .. 4 /\ reader.figure[m] \in Nat
      BY <1>5, <2>2 DEF OverviewInv, TotalsInv, Made, OverviewState
    <3> PICK name \in TotalNames : name = FiguresOf("totals")[m]
      BY <3>1 DEF FiguresOf, TotalNames
    <3> PICK x, t : x = reader.dept /\ t = reader.at
      OBVIOUS
    <3>2. Figure(name, x, t) \subseteq Figure(name, x, t)'
      BY <1>1, <1>2, TotalsGrow
    <3>3. /\ IsFiniteSet(Figure(name, x, t)')
          /\ Cardinality(Figure(name, x, t)') \in Nat
          /\ Cardinality(Figure(name, x, t)) \in Nat
      BY CountedAfter, FiguresAreFew DEF FiguresCounted
    <3>4. Cardinality(Figure(name, x, t)) <= Cardinality(Figure(name, x, t)')
      BY <3>2, <3>3, FS_Subset
    <3>5. reader.figure[m] <= Cardinality(Figure(name, x, t))
      BY <1>5 DEF OverviewInv, TotalsInv
    <3>6. Figure(name, reader.dept, reader.at)' = Figure(name, x, t)'
      BY <2>1
    <3> QED
      BY <3>1, <3>3, <3>4, <3>5, <3>6
  <2> QED
    BY <1>5, <2>1, <2>3 DEF OverviewInv, TotalsInv, TotalsNest, DriftInv, Made
<1>6. CASE reader.op = "desk"
  <2>1. reader \in OverviewState
    BY <1>1, <1>6, ReaderKinds DEF IsOverview
  <2> PICK x, k : x = reader.dept /\ k = Len(reader.figure)
    OBVIOUS
  <2> DEFINE moved == {d \in Created' : /\ x \in {None, dept'[d]}
                                        /\ ~ Exists(d) \/ dist[d].status # dist'[d].status}
  <2>2. reader' = [reader EXCEPT !.moves = @ + Cardinality(moved)]
    BY <1>2, <1>6 DEF Watch, IsWalking
  <2>3. /\ Cardinality(moved) \in Nat
        /\ Cardinality(Counted(x, k)') \in Nat
        /\ Cardinality(Counted(x, k)') <= Cardinality(Counted(x, k)) + Cardinality(moved)
        /\ Cardinality(Counted(x, k)) <= Cardinality(Counted(x, k)') + Cardinality(moved)
    BY <1>2, <1>3, MovesCount
  <2> HIDE DEF moved
  <2>4. /\ reader'.op = "desk" /\ reader'.figure = reader.figure /\ reader'.dept = x
        /\ reader'.moves = reader.moves + Cardinality(moved)
    <3>1. DOMAIN reader = {"op", "dept", "at", "figure", "moves"}
      BY <2>1 DEF OverviewState
    <3> QED
      BY <1>6, <2>2, <3>1
  <2>5. /\ k <= 3
        /\ SumMade(reader.figure) - Cardinality(Counted(x, k)) \in - reader.moves .. reader.moves
    BY <1>6 DEF OverviewInv, DriftInv
  <2>6. SumMade(reader.figure) \in Nat /\ Cardinality(Counted(x, k)) \in Nat /\ reader.moves \in Nat
    <3>1. reader.figure \in Seq(Nat) /\ reader.moves \in Nat
      BY <2>1 DEF OverviewState
    <3>2. \A f \in Seq(Nat) : SumMade(f) \in Nat
      <4> SUFFICES ASSUME NEW f \in Seq(Nat) PROVE SumMade(f) \in Nat
        OBVIOUS
      <4>1. \A i \in {1, 2, 3} : Len(f) >= i => f[i] \in Nat
        OBVIOUS
      <4> QED
        BY <4>1 DEF SumMade
    <3> QED
      BY <3>1, <3>2, CountedAreFew
  <2>7. SumMade(reader.figure) - Cardinality(Counted(x, k)') \in - reader'.moves .. reader'.moves
    <3>1. \A s, a, b, m, n \in Nat :
            a <= b + n /\ b <= a + n /\ s - a \in - m .. m => s - b \in - (m + n) .. m + n
      OBVIOUS
    <3> QED
      BY <2>3, <2>4, <2>5, <2>6, <3>1
  <2>8. DriftInv'
    <3>1. Counted(reader.dept, Len(reader.figure))' = Counted(x, k)'
      BY <2>4
    <3> QED
      BY <2>4, <2>5, <2>7, <3>1 DEF DriftInv, SumMade
  <2> QED
    BY <2>4, <2>8 DEF OverviewInv, TotalsInv, TotalsNest
<1> QED
  BY <1>4, <1>5, <1>6

LEMMA FiguresKept ==
  ASSUME UNCHANGED <<distVars, dept, received>>, NEW name, NEW x, NEW t, NEW k
  PROVE  Figure(name, x, t)' = Figure(name, x, t) /\ Counted(x, k)' = Counted(x, k)
<1>1. UNCHANGED <<dist, dept, received>>
  BY DEF distVars
<1> QED
  BY <1>1 DEF Figure, Counted, Registered, Created, Exists, OnDesk, DistsOf

\* The step of countFigure, in the terms of the two lemmas below.
CountsFigure(kind, k, f, x, t, n) ==
  /\ reader.op = kind /\ reader.figure = f /\ Len(f) = k /\ reader.dept = x /\ reader.at = t
  /\ n = Cardinality(Figure(FiguresOf(kind)[k + 1], x, t))
  /\ reader'.op = kind /\ reader'.figure = Append(f, n) /\ reader'.dept = x /\ reader'.at = t
  /\ reader'.moves = reader.moves

\* The figure of a total counts no less than those of the ranges in its range.
LEMMA TotalCounted ==
  ASSUME TypeOK, OverviewInv, UNCHANGED <<distVars, dept, received>>,
         NEW k \in 0 .. 3, NEW f \in Seq(Nat), NEW x, NEW t \in Nat, NEW n \in Nat,
         CountsFigure("totals", k, f, x, t, n)
  PROVE  OverviewInv'
<1> DEFINE Of(m) == Figure(FiguresOf("totals")[m], x, t)
           g == Append(f, n)
<1>1. Len(f) = k /\ n = Cardinality(Of(k + 1))
  BY DEF CountsFigure
<1>2. /\ Len(g) = k + 1
      /\ g[k + 1] = n
      /\ \A m \in 1 .. k : g[m] = f[m] /\ f[m] \in Nat
  BY <1>1
<1>3. \A m \in 1 .. k : f[m] <= Cardinality(Of(m))
  BY DEF OverviewInv, TotalsInv, Made, CountsFigure
<1>4. \A m, j \in 1 .. k :
        <<FiguresOf("totals")[m], FiguresOf("totals")[j]>>
          \in {<<"today", "last7">>, <<"today", "month">>, <<"last7", "all">>, <<"month", "all">>}
        => f[m] <= f[j]
  BY DEF OverviewInv, TotalsNest, Made, CountsFigure
<1>5. reader'.op = "totals" /\ reader'.figure = g /\ reader'.dept = x /\ reader'.at = t
  BY DEF CountsFigure
<1>6. \A m : Cardinality(Of(m)) \in Nat /\ IsFiniteSet(Of(m))
  BY FiguresAreFew
<1>7. FiguresOf("totals") = <<"today", "last7", "month", "all">>
  BY DEF FiguresOf
<1>8. Of(1) \subseteq Of(2) /\ Of(1) \subseteq Of(3) /\ Of(2) \subseteq Of(4) /\ Of(3) \subseteq Of(4)
  <2>1. /\ Of(1) = Figure("today", x, t) /\ Of(2) = Figure("last7", x, t)
        /\ Of(3) = Figure("month", x, t) /\ Of(4) = Figure("all", x, t)
    BY <1>7
  <2>2. ColumnsTypeOK /\ now \in Nat
    BY TypeOKParts, DistributionAssumption DEF DistTypeOK
  <2> HIDE DEF Of
  <2> QED
    BY <2>1, <2>2, RangesNest
<1>9. \A m : (Figure(FiguresOf("totals")[m], reader.dept, reader.at))' = Of(m)
  <2>1. \A m : Figure(FiguresOf("totals")[m], x, t)' = Of(m)
    BY FiguresKept
  <2> QED
    BY <1>5, <2>1
<1> HIDE DEF Of, g
<1>10. /\ Cardinality(Of(1)) <= Cardinality(Of(2)) /\ Cardinality(Of(1)) <= Cardinality(Of(3))
       /\ Cardinality(Of(2)) <= Cardinality(Of(4)) /\ Cardinality(Of(3)) <= Cardinality(Of(4))
  BY <1>6, <1>8, FS_Subset
<1>11. \A m \in 1 .. k + 1 : g[m] <= Cardinality(Of(m))
  <2> SUFFICES ASSUME NEW m \in 1 .. k + 1 PROVE g[m] <= Cardinality(Of(m))
    OBVIOUS
  <2>1. m = k + 1 \/ m \in 1 .. k
    OBVIOUS
  <2> QED
    BY <1>1, <1>2, <1>3, <2>1
<1>12. ASSUME NEW m \in 1 .. k + 1, NEW j \in 1 .. k + 1,
              <<FiguresOf("totals")[m], FiguresOf("totals")[j]>>
                \in {<<"today", "last7">>, <<"today", "month">>, <<"last7", "all">>,
                     <<"month", "all">>}
       PROVE  g[m] <= g[j]
  <2>1. m \in {1, 2, 3, 4} /\ j \in {1, 2, 3, 4}
    OBVIOUS
  <2>2. <<m, j>> \in {<<1, 2>>, <<1, 3>>, <<2, 4>>, <<3, 4>>}
    BY <1>7, <1>12, <2>1
  <2>3. m \in 1 .. k /\ (j \in 1 .. k \/ j = k + 1)
    BY <2>2
  <2>4. CASE j \in 1 .. k
    BY <1>2, <1>4, <1>12, <2>3, <2>4
  <2>5. CASE j = k + 1
    <3>1. f[m] <= Cardinality(Of(m)) /\ Cardinality(Of(m)) <= Cardinality(Of(j))
      BY <1>3, <1>10, <2>2, <2>3
    <3>2. g[j] = Cardinality(Of(j)) /\ g[m] = f[m] /\ f[m] \in Nat
      BY <1>1, <1>2, <2>3, <2>5
    <3> QED
      BY <1>6, <3>1, <3>2
  <2> QED
    BY <2>3, <2>4, <2>5
<1>13. TotalsInv'
  BY <1>2, <1>5, <1>9, <1>11 DEF TotalsInv, Made
<1>14. TotalsNest'
  BY <1>2, <1>5, <1>12 DEF TotalsNest, Made
<1> QED
  BY <1>5, <1>13, <1>14 DEF OverviewInv, DriftInv

\* A figure of my desk adds exactly the rows it counts.
LEMMA DeskCounted ==
  ASSUME TypeOK, OverviewInv, UNCHANGED <<distVars, dept, received>>,
         NEW k \in 0 .. 2, NEW f \in Seq(Nat), NEW x, NEW t, NEW n \in Nat,
         CountsFigure("desk", k, f, x, t, n)
  PROVE  OverviewInv'
<1> DEFINE g == Append(f, n)
<1>1. Len(f) = k
  BY DEF CountsFigure
<1>2. Cardinality(Counted(x, k + 1)) = Cardinality(Counted(x, k)) + n
  BY CountedGrows DEF CountsFigure
<1>3. reader'.op = "desk" /\ reader'.figure = g /\ reader'.dept = x /\ reader'.moves = reader.moves
  BY DEF CountsFigure
<1>4. Len(g) = k + 1 /\ g[k + 1] = n /\ \A m \in 1 .. k : g[m] = f[m] /\ f[m] \in Nat
  BY <1>1
<1>5. SumMade(f) - Cardinality(Counted(x, k)) \in - reader.moves .. reader.moves
  BY <1>1 DEF OverviewInv, DriftInv, CountsFigure
<1>6. Counted(reader.dept, Len(reader.figure))' = Counted(x, k + 1)
  <2>1. Counted(x, k + 1)' = Counted(x, k + 1)
    BY FiguresKept
  <2> QED
    BY <1>3, <1>4, <2>1
<1> HIDE DEF g
<1>7. SumMade(g) = SumMade(f) + n
  <2>1. CASE k = 0
    BY <1>1, <1>4, <2>1 DEF SumMade
  <2>2. CASE k = 1
    BY <1>1, <1>4, <2>2 DEF SumMade
  <2>3. CASE k = 2
    BY <1>1, <1>4, <2>3 DEF SumMade
  <2> QED
    BY <2>1, <2>2, <2>3
<1>8. SumMade(f) \in Nat
  BY <1>1 DEF SumMade
<1>9. Cardinality(Counted(x, k)) \in Nat
  BY CountedAreFew
<1>10. SumMade(g) - Cardinality(Counted(x, k + 1)) \in - reader.moves .. reader.moves
  BY <1>2, <1>5, <1>7, <1>8, <1>9
<1>11. DriftInv'
  <2>1. SumMade(reader.figure)' = SumMade(g)
    BY <1>3 DEF SumMade
  <2> QED
    BY <1>3, <1>4, <1>6, <1>10, <2>1 DEF DriftInv
<1> QED
  BY <1>3, <1>11 DEF OverviewInv, TotalsInv, TotalsNest

LEMMA UpToThree == \A m \in Nat : (m < 4 => m \in 0 .. 3) /\ (m < 3 => m \in 0 .. 2)
OBVIOUS

LEMMA OverviewRead ==
  ASSUME TypeOK, OverviewInv, WalkReads \/ OtherReads
  PROVE  OverviewInv'
<1>1. DistTypeOK /\ ColumnsTypeOK /\ ReaderTypeOK
  BY TypeOKParts
<1>2. UNCHANGED <<distVars, dept, received>>
  BY Steps
<1>3. ASSUME reader'.op \notin {"totals", "desk"} PROVE OverviewInv'
  BY <1>3 DEF OverviewInv, TotalsInv, TotalsNest, DriftInv
<1>4. CASE WalkReads
  <2>1. reader' \in WalkState
    BY <1>1, <1>4, WalkStepType
  <2> QED
    BY <1>3, <2>1 DEF WalkState
<1>5. ASSUME NEW kind \in {"totals", "desk"}, NEW x \in Viewers, overviewBegins(kind, x)
      PROVE  OverviewInv'
  <2>1. /\ reader'.op = kind /\ reader'.dept = x /\ reader'.figure = << >> /\ reader'.moves = 0
    BY <1>5 DEF overviewBegins
  <2>2. Len(reader'.figure) = 0 /\ SumMade(reader'.figure) = 0
    BY <2>1 DEF SumMade
  <2>3. Cardinality(Counted(x, 0)) = 0
    BY FS_EmptySet DEF Counted
  <2>4. Counted(reader.dept, Len(reader.figure))' = Counted(x, 0)
    <3>1. Counted(x, 0)' = Counted(x, 0)
      BY <1>2, FiguresKept
    <3> QED
      BY <2>1, <2>2, <3>1
  <2>5. DriftInv'
    BY <2>1, <2>2, <2>3, <2>4 DEF DriftInv, SumMade
  <2> QED
    BY <2>2, <2>5 DEF OverviewInv, TotalsInv, TotalsNest, Made
<1>6. CASE countFigure
  <2>1. reader \in OverviewState
    BY <1>1, <1>6, ReaderKinds DEF countFigure
  <2> PICK f \in Seq(Nat) : f = reader.figure
    BY <2>1 DEF OverviewState
  <2> PICK k \in Nat : k = Len(f)
    OBVIOUS
  <2> PICK t \in Nat : t = reader.at
    BY <2>1 DEF OverviewState
  <2> PICK n \in Nat : n = Cardinality(Figure(FiguresOf(reader.op)[k + 1], reader.dept, t))
    BY FiguresAreFew
  <2>2. k < Len(FiguresOf(reader.op)) /\ reader' = [reader EXCEPT !.figure = Append(@, n)]
    BY <1>6 DEF countFigure
  <2>3. CountsFigure(reader.op, k, f, reader.dept, t, n)
    <3> DEFINE g == Append(f, n)
    <3>1. reader' = [reader EXCEPT !.figure = g]
      BY <2>2
    <3> HIDE DEF g
    <3>2. /\ reader'.op = reader.op /\ reader'.figure = g /\ reader'.dept = reader.dept
          /\ reader'.at = reader.at /\ reader'.moves = reader.moves
      BY <2>1, <3>1 DEF OverviewState
    <3> QED
      BY <3>2 DEF CountsFigure, g
  <2>4. CASE reader.op = "totals"
    <3>1. k \in 0 .. 3
      <4>1. FiguresOf(reader.op) = FiguresOf("totals")
        BY <2>4
      <4>2. Len(FiguresOf("totals")) = 4
        BY DEF FiguresOf
      <4>3. k < 4
        BY <2>2, <4>1, <4>2
      <4> QED
        BY <4>3, UpToThree
    <3> QED
      BY <1>2, <2>3, <2>4, <3>1, TotalCounted
  <2>5. CASE reader.op = "desk"
    <3>1. k \in 0 .. 2
      <4>1. FiguresOf(reader.op) = FiguresOf("desk")
        BY <2>5
      <4>2. Len(FiguresOf("desk")) = 3
        BY DEF FiguresOf
      <4>3. k < 3
        BY <2>2, <4>1, <4>2
      <4> QED
        BY <4>3, UpToThree
    <3> QED
      BY <1>2, <2>3, <2>5, <3>1, DeskCounted
  <2> QED
    BY <2>1, <2>4, <2>5 DEF OverviewState
<1>7. ASSUME NEW i \in Incoming, timelineBegins(i) PROVE OverviewInv'
  BY <1>3, <1>7 DEF timelineBegins
<1>8. CASE readLogs \/ readAudit
  <2>1. reader \in TimelineState
    BY <1>1, <1>8, ReaderKinds DEF readLogs, readAudit
  <2>2. reader'.op = reader.op
    BY <1>8, <2>1 DEF readLogs, readAudit, TimelineState
  <2> QED
    BY <1>3, <2>1, <2>2 DEF TimelineState
<1>9. CASE readerEnds
  BY <1>3, <1>9 DEF readerEnds, Nobody
<1> QED
  BY <1>4, <1>5, <1>6, <1>7, <1>8, <1>9 DEF OtherReads

\* OverviewCoheres, whatever is registered, moved or escalated between the
\* statements of an overview, and whenever its day ends: the totals are nested
\* like their ranges, and those of my desk drift by no more than what moved.
THEOREM OverviewsCohere == Spec => []OverviewCoheres
<1>1. Init => OverviewInv
  BY DEF Init, Nobody, OverviewInv, TotalsInv, TotalsNest, DriftInv
<1>2. TypeOK /\ OverviewInv /\ [Next]_vars => OverviewInv'
  <2> SUFFICES ASSUME TypeOK, OverviewInv, [Next]_vars PROVE OverviewInv'
    OBVIOUS
  <2>1. CASE UNCHANGED vars
    <3>1. UNCHANGED reader /\ UNCHANGED <<distVars, dept, received>>
      BY <2>1 DEF vars, readVars
    <3>2. \A name, x, t, k : Figure(name, x, t)' = Figure(name, x, t)
                             /\ Counted(x, k)' = Counted(x, k)
      BY <3>1, FiguresKept
    <3>3. \A name : /\ Figure(name, reader.dept, reader.at)' = Figure(name, reader.dept, reader.at)
                    /\ Counted(reader.dept, name)' = Counted(reader.dept, name)
      BY <3>1, <3>2
    <3> QED
      BY <3>1, <3>3 DEF OverviewInv, TotalsInv, TotalsNest, DriftInv, Made, SumMade
  <2> QED
    BY <2>1, OverviewWrite, OverviewRead, Steps
<1> QED
  BY <1>1, <1>2, DriftInvSuffices, DeskTypeCorrect, PTL DEF Spec

----------------------------------------------------------------------------
(* A walk from page to page misses nothing *)

\* The rows a list puts before a row.
Ahead(l, a) == {b \in Members(l) : Before(l, b, a)}

\* The pages of the walk whose rows have been read.
PagesRead ==
  IF reader.stage = 2 /\ ~ CountsFirst(reader.list) THEN reader.page ELSE reader.page - 1

\* What makes WalkMissesNothing inductive: while nothing stirs, a row that has
\* been there all along and was not shown has the rows of all pages read ahead
\* of it, and a count made before its page misses no more rows than arrived.
WalkInv ==
  /\ (IsWalking /\ ~ reader.stirred /\ ~ reader.tied) =>
       LET l == reader.list
       IN /\ reader.stood \subseteq Members(l)
          /\ ~ Tied(l)
          /\ \A a \in reader.stood \ reader.shown :
               Cardinality(Ahead(l, a)) >= PagesRead * PageSize[l.kind]
          /\ CountsFirst(l) /\ reader.stage = 2 =>
               Cardinality(Members(l)) <= reader.total + reader.arrived
  /\ WalkMissesNothing

LEMMA NotBeforeItself ==
  ASSUME DistTypeOK, ColumnsTypeOK, now \in Nat, NEW l \in List, NEW a \in Members(l)
  PROVE  ~ Before(l, a, a)
<1>1. CASE l.kind = "desk"
  <2>1. a \in DistId
    BY <1>1 DEF Members, myDesk, Created
  <2>2. dist[a].dueAt \in Int \cup {None} /\ dist[a].lastUpdateAt \in Nat
    BY <2>1 DEF DistTypeOK, Row, DueAt
  <2> QED
    BY <1>1, <2>2 DEF Before, DueFirst
<1>2. CASE l.kind = "records"
  <2>1. received[a] \in Nat
    BY <1>2 DEF Members, Registered, ColumnsTypeOK
  <2> QED
    BY <1>2, <2>1 DEF Before
<1>3. CASE l.kind = "audit"
  <2>1. a \in Nat
    BY <1>3, AuditRowsType DEF Members
  <2> QED
    BY <1>3, <2>1 DEF Before
<1> QED
  BY <1>1, <1>2, <1>3 DEF List

LEMMA AheadAreFew ==
  ASSUME DistTypeOK, NEW l \in List, NEW a
  PROVE  /\ IsFiniteSet(Ahead(l, a)) /\ Cardinality(Ahead(l, a)) \in Nat
         /\ Ahead(l, a) \subseteq Members(l)
<1>1. Ahead(l, a) \in SUBSET Members(l)
  BY DEF Ahead
<1> QED
  BY <1>1, MembersAreFew, FS_Subset, FS_CardinalityType

\* A row has fewer rows ahead of it than the list has.
LEMMA AheadOfOne ==
  ASSUME DistTypeOK, ColumnsTypeOK, now \in Nat, NEW l \in List, NEW X \in SUBSET Members(l),
         NEW a \in X, Ahead(l, a) \subseteq X
  PROVE  Cardinality(Ahead(l, a)) < Cardinality(X)
<1>1. a \notin Ahead(l, a)
  BY NotBeforeItself DEF Ahead
<1>2. IsFiniteSet(X) /\ Cardinality(X) \in Nat
  BY MembersAreFew, FS_Subset, FS_CardinalityType
<1>3. IsFiniteSet(X \ {a}) /\ Cardinality(X \ {a}) = Cardinality(X) - 1
  BY <1>2, FS_RemoveElement
<1>4. Ahead(l, a) \in SUBSET (X \ {a})
  BY <1>1
<1>5. Cardinality(Ahead(l, a)) <= Cardinality(X \ {a}) /\ Cardinality(Ahead(l, a)) \in Nat
  BY <1>3, <1>4, FS_Subset, AheadAreFew
<1> QED
  BY <1>2, <1>3, <1>5

LEMMA MinOfTwo ==
  ASSUME NEW m \in Nat, NEW n \in Nat
  PROVE  /\ Min({m, n}) \in {m, n}
         /\ Min({m, n}) <= m /\ Min({m, n}) <= n
<1>1. \E k \in {m, n} : \A j \in {m, n} : k <= j
  <2>1. CASE m <= n
    BY <2>1
  <2>2. CASE n <= m
    BY <2>2
  <2> QED
    BY <2>1, <2>2
<1> QED
  BY <1>1 DEF Min

\* A page leaves out, of the rows behind the pages before it, only rows that
\* are behind it too, and the list is long enough for them.
LEMMA PageRead ==
  ASSUME DistTypeOK, ColumnsTypeOK, now \in Nat, NEW l \in List, ~ Tied(l),
         NEW p \in Nat \ {0}, NEW rows \in Pages(l, p), NEW U \in SUBSET (Members(l) \ rows),
         \A a \in U : Cardinality(Ahead(l, a)) >= (p - 1) * PageSize[l.kind]
  PROVE  /\ \A a \in U : Cardinality(Ahead(l, a)) >= p * PageSize[l.kind]
         /\ IsFiniteSet(U) /\ Cardinality(U) \in Nat
         /\ U # {} => Cardinality(U) + p * PageSize[l.kind] <= Cardinality(Members(l))
<1> DEFINE all == Members(l)
<1>1. PageSize[l.kind] \in Nat \ {0}
  BY DeskAssumption DEF List
<1> PICK m \in Nat : m = (p - 1) * PageSize[l.kind]
  BY <1>1
<1> PICK n \in Nat : n = p * PageSize[l.kind]
  BY <1>1
<1>2. PICK X \in FirstRows(l, m), Y \in FirstRows(l, n) : rows = Y \ X
  BY DEF Pages
<1>3. /\ X \in SUBSET all /\ Cardinality(X) = Min({m, Cardinality(all)})
      /\ \A a \in X, b \in all \ X : ~ Before(l, b, a)
  BY DEF FirstRows
<1>4. /\ Y \in SUBSET all /\ Cardinality(Y) = Min({n, Cardinality(all)})
      /\ \A a \in Y, b \in all \ Y : ~ Before(l, b, a)
  BY DEF FirstRows
<1>5. IsFiniteSet(all) /\ Cardinality(all) \in Nat
  BY MembersAreFew
<1>6. /\ Cardinality(X) <= m
      /\ Cardinality(Y) = n \/ Cardinality(Y) = Cardinality(all)
  BY <1>3, <1>4, <1>5, MinOfTwo
<1>7. ASSUME NEW a \in U
      PROVE  a \notin Y /\ Cardinality(Y) = n /\ Cardinality(Ahead(l, a)) >= n
  <2>1. a \in all /\ a \notin rows /\ Cardinality(Ahead(l, a)) >= m
    OBVIOUS
  <2>2. a \notin X
    <3> SUFFICES ASSUME a \in X PROVE FALSE
      OBVIOUS
    <3>1. Ahead(l, a) \subseteq X
      BY <1>3 DEF Ahead
    <3>2. Cardinality(Ahead(l, a)) < Cardinality(X)
      BY <1>3, <3>1, AheadOfOne
    <3>3. Cardinality(Ahead(l, a)) \in Nat /\ Cardinality(X) \in Nat
      BY <1>3, <1>5, AheadAreFew, FS_Subset, FS_CardinalityType
    <3> QED
      BY <1>6, <2>1, <3>2, <3>3
  <2>3. a \notin Y
    BY <1>2, <2>1, <2>2
  <2>4. Y \subseteq Ahead(l, a)
    <3> SUFFICES ASSUME NEW b \in Y PROVE Before(l, b, a)
      BY <1>4 DEF Ahead
    <3>1. ~ Before(l, a, b) /\ a # b /\ b \in all
      BY <1>4, <2>1, <2>3
    <3> QED
      BY <2>1, <3>1 DEF Tied
  <2>5. Cardinality(Y) # Cardinality(all)
    BY <1>4, <1>5, <2>1, <2>3, FS_Subset
  <2>6. Cardinality(Y) = n
    BY <1>6, <2>5
  <2>7. Cardinality(Y) <= Cardinality(Ahead(l, a)) /\ Cardinality(Ahead(l, a)) \in Nat
    BY <2>4, AheadAreFew, FS_Subset
  <2> QED
    BY <2>3, <2>6, <2>7
<1>8. IsFiniteSet(U) /\ Cardinality(U) \in Nat
  BY <1>5, FS_Subset, FS_CardinalityType
<1>9. ASSUME U # {} PROVE Cardinality(U) + n <= Cardinality(all)
  <2>1. Cardinality(Y) = n
    BY <1>7, <1>9
  <2>2. all \cap Y = Y
    BY <1>4
  <2>3. U \in SUBSET (all \ Y)
    BY <1>7
  <2> HIDE DEF all
  <2>4. IsFiniteSet(all \ Y) /\ Cardinality(all \ Y) = Cardinality(all) - n
    <3>1. /\ IsFiniteSet(all \ Y)
          /\ Cardinality(all \ Y) = Cardinality(all) - Cardinality(all \cap Y)
      BY <1>5, FS_Difference
    <3>2. Cardinality(all \cap Y) = n
      BY <2>1, <2>2
    <3> QED
      BY <3>1, <3>2
  <2>5. Cardinality(U) <= Cardinality(all \ Y)
    BY <2>3, <2>4, FS_Subset
  <2> QED
    BY <1>5, <1>8, <2>4, <2>5
<1> QED
  BY <1>7, <1>8, <1>9

LEMMA ListsKept ==
  ASSUME UNCHANGED <<distVars, dept, received>>, NEW l, NEW a
  PROVE  Members(l)' = Members(l) /\ Tied(l)' = Tied(l) /\ Ahead(l, a)' = Ahead(l, a)
<1>1. UNCHANGED <<now, dist, audit, dept, received>>
  BY DEF distVars
<1>2. Members(l)' = Members(l)
  BY <1>1 DEF Members, myDesk, Created, Exists, OnDesk, InScope, IsPastDue, Registered, DistsOf,
              AuditRows
<1>3. \A b, c : Before(l, b, c)' = Before(l, b, c)
  BY <1>1 DEF Before, DueFirst
<1> QED
  BY <1>2, <1>3 DEF Tied, Ahead

LEMMA StatementEnds ==
  ASSUME NEW r \in WalkState, NEW q, q = AfterStatement(r)
  PROVE  /\ q.list = r.list /\ q.shown = r.shown /\ q.stood = r.stood /\ q.total = r.total
         /\ q.arrived = r.arrived /\ q.stirred = r.stirred /\ q.tied = r.tied
         /\ r.stage = 1 => q.op = r.op /\ q.stage = 2 /\ q.page = r.page
         /\ r.stage = 2 /\ r.page * PageSize[r.list.kind] < r.total =>
              q.op = r.op /\ q.stage = 1 /\ q.page = r.page + 1
         /\ r.stage = 2 /\ ~ (r.page * PageSize[r.list.kind] < r.total) => q.op = "walked"
<1>1. CASE r.stage = 1
  BY <1>1 DEF AfterStatement, WalkState
<1>2. CASE r.stage = 2 /\ r.page * PageSize[r.list.kind] < r.total
  <2> DEFINE next == r.page + 1
  <2>1. q = [r EXCEPT !.page = next, !.stage = 1]
    BY <1>2 DEF AfterStatement, NextPage
  <2> HIDE DEF next
  <2>2. /\ q.list = r.list /\ q.shown = r.shown /\ q.stood = r.stood /\ q.total = r.total
        /\ q.arrived = r.arrived /\ q.stirred = r.stirred /\ q.tied = r.tied
        /\ q.op = r.op /\ q.stage = 1 /\ q.page = next
    BY <2>1 DEF WalkState
  <2> QED
    BY <1>2, <2>2 DEF next
<1>3. CASE r.stage = 2 /\ ~ (r.page * PageSize[r.list.kind] < r.total)
  <2>1. q = [r EXCEPT !.op = "walked"]
    BY <1>3 DEF AfterStatement, NextPage
  <2>2. /\ q.list = r.list /\ q.shown = r.shown /\ q.stood = r.stood /\ q.total = r.total
        /\ q.arrived = r.arrived /\ q.stirred = r.stirred /\ q.tied = r.tied
        /\ q.op = "walked"
    BY <2>1 DEF WalkState
  <2> QED
    BY <1>3, <2>2
<1> QED
  BY <1>1, <1>2, <1>3 DEF WalkState

\* A statement of the walk keeps the invariant if what it has left unshown is
\* behind the pages read, and at the end is no more than a count may miss.
LEMMA WalkStatement ==
  ASSUME UNCHANGED <<distVars, dept, received>>, NEW r \in WalkState, r.op = "walk",
         reader' = AfterStatement(r), NEW l \in List, l = r.list,
         NEW p \in Nat \ {0}, p = r.page,
         ~ r.stirred /\ ~ r.tied =>
           /\ r.stood \subseteq Members(l)
           /\ ~ Tied(l)
           /\ \A a \in r.stood \ r.shown :
                Cardinality(Ahead(l, a))
                  >= (IF r.stage = 1 /\ CountsFirst(l) THEN p - 1 ELSE p) * PageSize[l.kind]
           /\ CountsFirst(l) /\ r.stage = 1 => Cardinality(Members(l)) <= r.total + r.arrived
           /\ r.stage = 2 /\ ~ (p * PageSize[l.kind] < r.total) =>
                Cardinality(r.stood \ r.shown) <= IF l.kind = "audit" THEN r.arrived ELSE 0
  PROVE  WalkInv'
<1> PICK q : q = reader'
  OBVIOUS
<1>1. /\ q.list = l /\ q.shown = r.shown /\ q.stood = r.stood /\ q.total = r.total
      /\ q.arrived = r.arrived /\ q.stirred = r.stirred /\ q.tied = r.tied
      /\ r.stage = 1 => q.op = "walk" /\ q.stage = 2 /\ q.page = p
      /\ r.stage = 2 /\ p * PageSize[l.kind] < r.total =>
           q.op = "walk" /\ q.stage = 1 /\ q.page = p + 1
      /\ r.stage = 2 /\ ~ (p * PageSize[l.kind] < r.total) => q.op = "walked"
  BY StatementEnds
<1>2. r.stage \in {1, 2}
  BY DEF WalkState
<1>3. /\ Members(l)' = Members(l) /\ Tied(l)' = Tied(l)
      /\ \A a : Ahead(l, a)' = Ahead(l, a)
  BY ListsKept
<1>4. CASE r.stirred \/ r.tied
  BY <1>1, <1>4 DEF WalkInv, WalkMissesNothing
<1>5. CASE ~ r.stirred /\ ~ r.tied /\ q.op = "walked"
  <2>1. r.stage = 2 /\ ~ (p * PageSize[l.kind] < r.total)
    BY <1>1, <1>2, <1>5
  <2>2. Cardinality(q.stood \ q.shown) <= IF q.list.kind = "audit" THEN q.arrived ELSE 0
    BY <1>1, <1>5, <2>1
  <2> QED
    BY <1>5, <2>2 DEF WalkInv, WalkMissesNothing, IsWalking
<1>6. CASE ~ r.stirred /\ ~ r.tied /\ q.op = "walk"
  <2> DEFINE read == IF q.stage = 2 /\ ~ CountsFirst(l) THEN q.page ELSE q.page - 1
  <2>1. read = IF r.stage = 1 /\ CountsFirst(l) THEN p - 1 ELSE p
    BY <1>1, <1>2, <1>6
  <2>2. CountsFirst(l) /\ q.stage = 2 => r.stage = 1
    BY <1>1, <1>2, <1>6
  <2>3. PagesRead' = read
    BY <1>1 DEF PagesRead, CountsFirst
  <2> HIDE DEF read
  <2>4. /\ q.stood \subseteq Members(l)'
        /\ ~ Tied(l)'
        /\ \A a \in q.stood \ q.shown : Cardinality(Ahead(l, a)') >= read * PageSize[l.kind]
        /\ CountsFirst(l) /\ q.stage = 2 => Cardinality(Members(l)') <= q.total + q.arrived
    BY <1>1, <1>3, <1>6, <2>1, <2>2
  <2>5. Members(reader.list)' = Members(l)' /\ Tied(reader.list)' = Tied(l)'
        /\ \A a : Ahead(reader.list, a)' = Ahead(l, a)'
    BY <1>1
  <2> QED
    BY <1>1, <1>6, <2>3, <2>4, <2>5 DEF WalkInv, WalkMissesNothing, CountsFirst
<1> QED
  BY <1>1, <1>2, <1>4, <1>5, <1>6

LEMMA WalkPage ==
  ASSUME TypeOK, WalkInv, findPage
  PROVE  WalkInv'
<1>1. DistTypeOK /\ ColumnsTypeOK /\ ReaderTypeOK /\ now \in Nat
  BY TypeOKParts, DistributionAssumption DEF DistTypeOK
<1>2. reader \in WalkState /\ reader.op = "walk"
  BY <1>1, ReaderKinds DEF findPage, IsWalking
<1> PICK l \in List : l = reader.list
  BY <1>2 DEF WalkState
<1> PICK p \in Nat \ {0} : p = reader.page
  BY <1>2 DEF WalkState
<1> PICK rows \in Pages(l, p) :
      reader' = AfterStatement([reader EXCEPT !.shown = @ \cup rows])
  BY DEF findPage
<1> DEFINE shown == reader.shown \cup rows
           r == [reader EXCEPT !.shown = shown]
<1>3. reader' = AfterStatement(r)
  OBVIOUS
<1>4. /\ r.op = "walk" /\ r.list = l /\ r.page = p /\ r.stage = reader.stage
      /\ r.total = reader.total /\ r.shown = shown /\ r.stood = reader.stood
      /\ r.arrived = reader.arrived /\ r.stirred = reader.stirred /\ r.tied = reader.tied
  <2> HIDE DEF shown
  <2> QED
    BY <1>2 DEF WalkState
<1>5. r \in WalkState
  <2>1. rows \in SUBSET AnyRow
    BY PagesAreRows, MembersAreRows
  <2>2. shown \in SUBSET AnyRow
    BY <1>2, <2>1 DEF WalkState
  <2> HIDE DEF shown
  <2> QED
    BY <1>2, <2>2 DEF WalkState
<1>6. /\ r.stage \in {1, 2} /\ r.total \in Nat /\ r.arrived \in Nat
      /\ CountsFirst(l) <=> r.stage = 2
  BY <1>2, <1>4 DEF WalkState, findPage
<1> HIDE DEF r
<1>7. ASSUME ~ r.stirred, ~ r.tied
      PROVE  /\ r.stood \subseteq Members(l)
             /\ ~ Tied(l)
             /\ \A a \in r.stood \ r.shown : Cardinality(Ahead(l, a)) >= p * PageSize[l.kind]
             /\ r.stage = 2 /\ ~ (p * PageSize[l.kind] < r.total) =>
                  Cardinality(r.stood \ r.shown) <= IF l.kind = "audit" THEN r.arrived ELSE 0
  <2> DEFINE U == r.stood \ r.shown
  <2>1. PagesRead = p - 1
    BY <1>4, <1>6 DEF PagesRead
  <2>2. /\ r.stood \subseteq Members(l)
        /\ ~ Tied(l)
        /\ \A a \in reader.stood \ reader.shown :
             Cardinality(Ahead(l, a)) >= (p - 1) * PageSize[l.kind]
        /\ CountsFirst(l) /\ r.stage = 2 => Cardinality(Members(l)) <= r.total + r.arrived
    BY <1>2, <1>4, <1>7, <2>1 DEF WalkInv, IsWalking
  <2>3. /\ U \in SUBSET (Members(l) \ rows)
        /\ \A a \in U : Cardinality(Ahead(l, a)) >= (p - 1) * PageSize[l.kind]
    BY <1>4, <2>2
  <2>4. /\ \A a \in U : Cardinality(Ahead(l, a)) >= p * PageSize[l.kind]
        /\ IsFiniteSet(U) /\ Cardinality(U) \in Nat
        /\ U # {} => Cardinality(U) + p * PageSize[l.kind] <= Cardinality(Members(l))
    <3> HIDE DEF U
    <3> QED
      BY <1>1, <2>2, <2>3, PageRead
  <2>5. ASSUME r.stage = 2, ~ (p * PageSize[l.kind] < r.total)
        PROVE  Cardinality(U) <= IF l.kind = "audit" THEN r.arrived ELSE 0
    <3>1. CountsFirst(l) /\ l.kind = "audit"
      BY <1>6, <2>5 DEF CountsFirst
    <3>2. CASE U = {}
      BY <1>6, <3>1, <3>2, FS_EmptySet
    <3>3. CASE U # {}
      <4> PICK n \in Nat : n = p * PageSize[l.kind]
        BY DeskAssumption DEF List
      <4>1. /\ Cardinality(U) + n <= Cardinality(Members(l))
            /\ Cardinality(Members(l)) <= r.total + r.arrived
            /\ ~ (n < r.total)
        BY <2>2, <2>4, <2>5, <3>1, <3>3
      <4>2. Cardinality(Members(l)) \in Nat
        BY <1>1, MembersAreFew
      <4> HIDE DEF U
      <4> QED
        BY <1>6, <2>4, <3>1, <4>1, <4>2
    <3> QED
      BY <3>2, <3>3
  <2> QED
    BY <2>2, <2>4, <2>5
<1>8. UNCHANGED <<distVars, dept, received>>
  BY DEF findPage
<1>9. CountsFirst(l) => r.stage # 1
  BY <1>6
<1>10. l = r.list /\ p = r.page /\ r.op = "walk"
  BY <1>4
<1> HIDE DEF shown
<1> QED
  BY <1>3, <1>5, <1>7, <1>8, <1>9, <1>10, WalkStatement

LEMMA WalkCount ==
  ASSUME TypeOK, WalkInv, countRows
  PROVE  WalkInv'
<1>1. DistTypeOK /\ ColumnsTypeOK /\ ReaderTypeOK /\ now \in Nat
  BY TypeOKParts, DistributionAssumption DEF DistTypeOK
<1>2. reader \in WalkState /\ reader.op = "walk"
  BY <1>1, ReaderKinds DEF countRows, IsWalking
<1> PICK l \in List : l = reader.list
  BY <1>2 DEF WalkState
<1> PICK p \in Nat \ {0} : p = reader.page
  BY <1>2 DEF WalkState
<1> PICK n \in Nat : n = Cardinality(Members(l))
  BY <1>1, MembersAreFew
<1> DEFINE r == [reader EXCEPT !.total = n]
<1>3. reader' = AfterStatement(r)
  BY DEF countRows
<1>4. /\ r.op = "walk" /\ r.list = l /\ r.page = p /\ r.stage = reader.stage
      /\ r.total = n /\ r.shown = reader.shown /\ r.stood = reader.stood
      /\ r.arrived = reader.arrived /\ r.stirred = reader.stirred /\ r.tied = reader.tied
  BY <1>2 DEF WalkState
<1>5. r \in WalkState
  BY <1>2 DEF WalkState
<1>6. /\ r.stage \in {1, 2} /\ r.arrived \in Nat
      /\ CountsFirst(l) <=> r.stage = 1
  BY <1>2, <1>4 DEF WalkState, countRows
<1> HIDE DEF r
<1>7. ASSUME ~ r.stirred, ~ r.tied
      PROVE  /\ r.stood \subseteq Members(l)
             /\ ~ Tied(l)
             /\ \A a \in r.stood \ r.shown :
                  Cardinality(Ahead(l, a))
                    >= (IF CountsFirst(l) THEN p - 1 ELSE p) * PageSize[l.kind]
             /\ r.stage = 2 /\ ~ (p * PageSize[l.kind] < r.total) => r.stood \ r.shown = {}
  <2>1. PagesRead = IF CountsFirst(l) THEN p - 1 ELSE p
    BY <1>4, <1>6 DEF PagesRead
  <2>2. /\ r.stood \subseteq Members(l)
        /\ ~ Tied(l)
        /\ \A a \in r.stood \ r.shown :
             Cardinality(Ahead(l, a)) >= (IF CountsFirst(l) THEN p - 1 ELSE p) * PageSize[l.kind]
    BY <1>2, <1>4, <1>7, <2>1 DEF WalkInv, IsWalking
  <2>3. ASSUME r.stage = 2, ~ (p * PageSize[l.kind] < r.total), NEW a \in r.stood \ r.shown
        PROVE  FALSE
    <3> PICK m \in Nat : m = p * PageSize[l.kind]
      BY DeskAssumption DEF List
    <3>1. Cardinality(Ahead(l, a)) >= m
      BY <1>6, <2>2, <2>3
    <3>2. a \in Members(l) /\ Ahead(l, a) \subseteq Members(l)
      BY <2>2, <2>3 DEF Ahead
    <3>3. Cardinality(Ahead(l, a)) < Cardinality(Members(l))
      BY <1>1, <3>2, AheadOfOne
    <3>4. Cardinality(Ahead(l, a)) \in Nat
      BY <1>1, AheadAreFew
    <3>5. ~ (m < n)
      BY <1>4, <2>3
    <3> QED
      BY <3>1, <3>3, <3>4, <3>5
  <2> QED
    BY <2>2, <2>3
<1>8. UNCHANGED <<distVars, dept, received>>
  BY DEF countRows
<1>9. Cardinality(Members(l)) <= r.total + r.arrived
  BY <1>4, <1>6
<1>10. l = r.list /\ p = r.page /\ r.op = "walk"
  BY <1>4
<1>11. ASSUME ~ r.stirred, ~ r.tied, r.stage = 2, ~ (p * PageSize[l.kind] < r.total)
       PROVE  Cardinality(r.stood \ r.shown) <= IF l.kind = "audit" THEN r.arrived ELSE 0
  BY <1>6, <1>7, <1>11, FS_EmptySet
<1> QED
  BY <1>3, <1>5, <1>6, <1>7, <1>8, <1>9, <1>10, <1>11, WalkStatement

\* A row that keeps its place keeps what was ahead of it, if that does too.
LEMMA PlacesDecide ==
  ASSUME NEW l \in List, NEW a, NEW b, Place(l, a)' = Place(l, a), Place(l, b)' = Place(l, b),
         Before(l, a, b)
  PROVE  Before(l, a, b)'
<1>1. CASE l.kind = "desk"
  <2>1. /\ dist'[a].dueAt = dist[a].dueAt /\ dist'[a].lastUpdateAt = dist[a].lastUpdateAt
        /\ dist'[b].dueAt = dist[b].dueAt /\ dist'[b].lastUpdateAt = dist[b].lastUpdateAt
    BY <1>1 DEF Place
  <2> QED
    BY <1>1, <2>1 DEF Before, DueFirst
<1>2. CASE l.kind = "records"
  BY <1>2 DEF Place, Before
<1>3. CASE l.kind = "audit"
  BY <1>3 DEF Place, Before
<1> QED
  BY <1>1, <1>2, <1>3 DEF List

LEMMA WalkWrite ==
  ASSUME TypeOK, WalkInv, Writer
  PROVE  WalkInv'
<1>1. DistTypeOK /\ ReaderTypeOK
  BY TypeOKParts
<1>2. DistTypeOK' /\ Watch
  BY <1>1, DistNextTypeOK DEF Writer
<1>3. CASE ~ IsWalking
  <2>1. reader'.op = reader.op /\ (reader.op = "walked" => UNCHANGED reader)
    BY <1>1, <1>2, WatchKeeps
  <2> QED
    BY <1>3, <2>1 DEF WalkInv, WalkMissesNothing, IsWalking
<1>4. CASE IsWalking
  <2>1. reader \in WalkState
    BY <1>1, <1>4, ReaderKinds DEF IsWalking
  <2> PICK l \in List : l = reader.list
    BY <2>1 DEF WalkState
  <2> DEFINE kept == Members(l) \cap Members(l)'
             come == Cardinality(Members(l)' \ Members(l))
             stood == reader.stood \cap kept
             arrived == reader.arrived + come
             stirred == reader.stirred \/ kept # Members(l)
                          \/ \E a \in kept : Place(l, a) # Place(l, a)'
             tied == reader.tied \/ Tied(l)'
  <2>2. reader' = [reader EXCEPT !.stood = stood, !.arrived = arrived, !.stirred = stirred,
                                 !.tied = tied]
    BY <1>2, <1>4 DEF Watch, IsWalking
  <2>3. /\ reader'.op = "walk" /\ reader'.list = l /\ reader'.page = reader.page
        /\ reader'.stage = reader.stage /\ reader'.total = reader.total
        /\ reader'.shown = reader.shown /\ reader'.stood = stood
        /\ reader'.arrived = arrived /\ reader'.stirred = stirred /\ reader'.tied = tied
    <3> HIDE DEF stood, arrived, stirred, tied
    <3> QED
      BY <1>4, <2>1, <2>2 DEF WalkState, IsWalking
  <2> SUFFICES ASSUME ~ stirred, ~ tied PROVE WalkInv'
    <3>1. CASE stirred \/ tied
      BY <2>3, <3>1 DEF WalkInv, WalkMissesNothing
    <3> QED
      BY <3>1
  <2>4. /\ Members(l) \subseteq Members(l)'
        /\ \A a \in Members(l) : Place(l, a)' = Place(l, a)
        /\ ~ reader.stirred /\ ~ reader.tied /\ ~ Tied(l)'
    OBVIOUS
  <2>5. /\ reader.stood \subseteq Members(l)
        /\ \A a \in reader.stood \ reader.shown :
             Cardinality(Ahead(l, a)) >= PagesRead * PageSize[l.kind]
        /\ CountsFirst(l) /\ reader.stage = 2 =>
             Cardinality(Members(l)) <= reader.total + reader.arrived
    BY <1>4, <2>4 DEF WalkInv
  <2>6. /\ IsFiniteSet(Members(l)') /\ Cardinality(Members(l)') \in Nat
        /\ IsFiniteSet(Members(l)) /\ Cardinality(Members(l)) \in Nat
    BY <1>1, <1>2, CountedAfter, MembersAreFew DEF ListsCounted
  <2>7. ASSUME NEW a \in reader.stood \ reader.shown
        PROVE  Cardinality(Ahead(l, a)') >= PagesRead * PageSize[l.kind]
    <3>1. Ahead(l, a) \subseteq Ahead(l, a)'
      BY <2>4, <2>5, PlacesDecide DEF Ahead
    <3>2. Ahead(l, a)' \in SUBSET Members(l)'
      BY DEF Ahead
    <3>3. IsFiniteSet(Ahead(l, a)') /\ Cardinality(Ahead(l, a)') \in Nat
      BY <2>6, <3>2, FS_Subset, FS_CardinalityType
    <3>4. Cardinality(Ahead(l, a)) <= Cardinality(Ahead(l, a)') /\ Cardinality(Ahead(l, a)) \in Nat
      BY <1>1, <3>1, <3>3, FS_Subset, AheadAreFew
    <3>5. PagesRead * PageSize[l.kind] \in Int
      <4>1. PagesRead \in Int
        BY <2>1 DEF PagesRead, WalkState
      <4>2. PageSize[l.kind] \in Int
        BY DeskAssumption DEF List
      <4> QED
        BY <4>1, <4>2
    <3> QED
      BY <2>5, <3>3, <3>4, <3>5
  <2>8. Cardinality(Members(l)') = Cardinality(Members(l)) + come /\ come \in Nat
    <3> DEFINE M == Members(l)
               N == Members(l)'
    <3>1. N \cap M = M
      BY <2>4
    <3> HIDE DEF M, N
    <3>2. IsFiniteSet(N \ M) /\ Cardinality(N \ M) = Cardinality(N) - Cardinality(N \cap M)
      BY <2>6, FS_Difference DEF M, N
    <3>3. Cardinality(N \ M) \in Nat
      BY <3>2, FS_CardinalityType
    <3>4. Cardinality(N) \in Nat /\ Cardinality(M) \in Nat
      BY <2>6 DEF M, N
    <3>5. Cardinality(N) = Cardinality(M) + Cardinality(N \ M)
      BY <3>1, <3>2, <3>3, <3>4
    <3> QED
      BY <3>3, <3>5 DEF M, N
  <2>9. reader.total \in Nat /\ reader.arrived \in Nat
    BY <2>1 DEF WalkState
  <2>10. CountsFirst(l) /\ reader.stage = 2 =>
           Cardinality(Members(l)') <= reader.total + arrived
    <3> HIDE DEF come
    <3> QED
      BY <2>5, <2>6, <2>8, <2>9
  <2>11. PagesRead' = PagesRead
    BY <2>3 DEF PagesRead, CountsFirst
  <2>12. /\ stood \subseteq Members(l)'
         /\ \A a \in stood \ reader.shown : a \in reader.stood \ reader.shown
    OBVIOUS
  <2>13. /\ Members(reader.list)' = Members(l)' /\ Tied(reader.list)' = Tied(l)'
         /\ \A a : Ahead(reader.list, a)' = Ahead(l, a)'
    BY <2>3
  <2> HIDE DEF stood, arrived, stirred, tied
  <2>14. /\ reader'.stood \subseteq Members(reader.list)'
         /\ ~ Tied(reader.list)'
         /\ \A a \in reader'.stood \ reader'.shown :
              Cardinality(Ahead(reader.list, a)') >= PagesRead' * PageSize[reader'.list.kind]
         /\ CountsFirst(reader.list)' /\ reader'.stage = 2 =>
              Cardinality(Members(reader.list)') <= reader'.total + reader'.arrived
    BY <2>3, <2>4, <2>7, <2>10, <2>11, <2>12, <2>13 DEF CountsFirst
  <2> QED
    BY <2>3, <2>14 DEF WalkInv, WalkMissesNothing
<1> QED
  BY <1>3, <1>4

LEMMA WalkBegins ==
  ASSUME TypeOK, NEW l \in List, walkBegins(l)
  PROVE  WalkInv'
<1>1. DistTypeOK
  BY TypeOKParts
<1>2. UNCHANGED <<distVars, dept, received>>
  BY DEF walkBegins
<1>3. /\ reader'.op = "walk" /\ reader'.list = l /\ reader'.page = 1 /\ reader'.stage = 1
      /\ reader'.stood = Members(l) /\ reader'.tied = Tied(l)
  BY DEF walkBegins
<1>4. /\ Members(l)' = Members(l) /\ Tied(l)' = Tied(l)
      /\ \A a : Ahead(l, a)' = Ahead(l, a)
  BY <1>2, ListsKept
<1>5. /\ Members(reader.list)' = Members(l) /\ Tied(reader.list)' = Tied(l)
      /\ \A a : Ahead(reader.list, a)' = Ahead(l, a)
  BY <1>3, <1>4
<1>6. PagesRead' * PageSize[reader'.list.kind] = 0
  <2>1. PagesRead' = 0
    BY <1>3 DEF PagesRead
  <2>2. PageSize[l.kind] \in Nat
    BY DeskAssumption DEF List
  <2> QED
    BY <1>3, <2>1, <2>2
<1>7. \A a : Cardinality(Ahead(l, a)) >= 0
  BY <1>1, AheadAreFew
<1> QED
  BY <1>3, <1>5, <1>6, <1>7 DEF WalkInv, WalkMissesNothing

LEMMA WalkOther ==
  ASSUME TypeOK, WalkInv, OtherReads
  PROVE  WalkInv'
<1>1. ReaderTypeOK
  BY TypeOKParts
<1>2. ASSUME reader'.op \notin {"walk", "walked"} PROVE WalkInv'
  BY <1>2 DEF WalkInv, WalkMissesNothing, IsWalking
<1>3. CASE countFigure
  <2>1. reader \in OverviewState
    BY <1>1, <1>3, ReaderKinds DEF countFigure
  <2>2. reader'.op = reader.op
    BY <1>3, <2>1 DEF countFigure, OverviewState
  <2> QED
    BY <1>2, <2>1, <2>2 DEF OverviewState
<1>4. CASE readLogs \/ readAudit
  <2>1. reader \in TimelineState
    BY <1>1, <1>4, ReaderKinds DEF readLogs, readAudit
  <2>2. reader'.op = reader.op
    BY <1>4, <2>1 DEF readLogs, readAudit, TimelineState
  <2> QED
    BY <1>2, <2>1, <2>2 DEF TimelineState
<1>5. CASE readerEnds
  BY <1>2, <1>5 DEF readerEnds, Nobody
<1>6. ASSUME NEW kind \in {"totals", "desk"}, NEW x \in Viewers, overviewBegins(kind, x)
      PROVE  WalkInv'
  BY <1>2, <1>6 DEF overviewBegins
<1>7. ASSUME NEW i \in Incoming, timelineBegins(i) PROVE WalkInv'
  BY <1>2, <1>7 DEF timelineBegins
<1> QED
  BY <1>3, <1>4, <1>5, <1>6, <1>7 DEF OtherReads

LEMMA WalkStep == TypeOK /\ WalkInv /\ [Next]_vars => WalkInv'
<1> SUFFICES ASSUME TypeOK, WalkInv, [Next]_vars PROVE WalkInv'
  OBVIOUS
<1>1. CASE UNCHANGED vars
  <2>1. UNCHANGED reader /\ UNCHANGED <<distVars, dept, received>>
    BY <1>1 DEF vars, readVars
  <2>2. \A l, a : Members(l)' = Members(l) /\ Tied(l)' = Tied(l) /\ Ahead(l, a)' = Ahead(l, a)
    BY <2>1, ListsKept
  <2>3. /\ Members(reader.list)' = Members(reader.list) /\ Tied(reader.list)' = Tied(reader.list)
        /\ \A a : Ahead(reader.list, a)' = Ahead(reader.list, a)
    BY <2>1, <2>2
  <2>4. PagesRead' = PagesRead /\ CountsFirst(reader.list)' = CountsFirst(reader.list)
    BY <2>1 DEF PagesRead, CountsFirst
  <2> QED
    BY <2>1, <2>3, <2>4 DEF WalkInv, WalkMissesNothing, IsWalking
<1> QED
  BY <1>1, WalkWrite, WalkBegins, WalkPage, WalkCount, WalkOther, Steps DEF WalkReads

\* WalkMissesNothing, for any list, page size and number of rows, and whatever
\* handlers commit between two pages or between a page and its count.
THEOREM WalksMissNothing == Spec => []WalkMissesNothing
<1>1. Init => WalkInv
  BY DEF Init, Nobody, WalkInv, WalkMissesNothing, IsWalking
<1>2. WalkInv => WalkMissesNothing
  BY DEF WalkInv
<1> QED
  BY <1>1, <1>2, WalkStep, DeskTypeCorrect, PTL DEF Spec

----------------------------------------------------------------------------
(* Several ways to compute one thing agree *)

\* The function of sets that MapThenSumSet chooses.
AddsUp(h, days, n) ==
  h = [s \in SUBSET (1 .. n) |->
         IF s = {} THEN 0 ELSE days[CHOOSE x \in s : TRUE] + h[s \ {CHOOSE x \in s : TRUE}]]

LEMMA SubsetsAreOrdered ==
  ASSUME NEW S, IsFiniteSet(S)
  PROVE  IsWellFoundedOn(StrictSubsetOrdering(S), SUBSET S)
<1>1. FiniteSubsetsOf(S) = SUBSET S
  BY FS_FiniteSubsetsOfFinite
<1>2. IsWellFoundedOn(StrictSubsetOrdering(S), FiniteSubsetsOf(S))
  BY FS_StrictSubsetOrderingWellFounded
<1> QED
  BY <1>1, <1>2

\* A sum over 1 .. n is any function of its subsets that adds one at a time:
\* by induction over the subsets.
LEMMA SumIsUnique ==
  ASSUME NEW n \in Nat, NEW days, NEW g, AddsUp(g, days, n)
  PROVE  (CHOOSE h : AddsUp(h, days, n))[1 .. n] = g[1 .. n]
<1> PICK h : AddsUp(h, days, n) /\ h = (CHOOSE f : AddsUp(f, days, n))
  OBVIOUS
<1> DEFINE Bad == {s \in SUBSET (1 .. n) : h[s] # g[s]}
<1>1. Bad = {}
  <2> SUFFICES ASSUME Bad # {} PROVE FALSE
    OBVIOUS
  <2>1. IsFiniteSet(1 .. n)
    BY FS_Interval
  <2>2. IsWellFoundedOn(StrictSubsetOrdering(1 .. n), SUBSET (1 .. n))
    BY <2>1, SubsetsAreOrdered
  <2>3. PICK s \in Bad : \A y \in Bad : <<y, s>> \notin StrictSubsetOrdering(1 .. n)
    <3>1. Bad \subseteq SUBSET (1 .. n)
      OBVIOUS
    <3> HIDE DEF Bad
    <3> QED
      BY <2>2, <3>1, WFMin
  <2>4. s # {}
    BY <2>3
  <2> PICK x \in s : x = (CHOOSE y \in s : TRUE)
    BY <2>4
  <2>5. h[s] = days[x] + h[s \ {x}] /\ g[s] = days[x] + g[s \ {x}]
    BY <2>4 DEF AddsUp
  <2>6. s \ {x} \in SUBSET (1 .. n) /\ s \ {x} # s
    OBVIOUS
  <2>7. s \ {x} \notin Bad
    BY <2>3, <2>6 DEF StrictSubsetOrdering
  <2> QED
    BY <2>3, <2>5, <2>6, <2>7
<1>2. 1 .. n \in SUBSET (1 .. n)
  OBVIOUS
<1> QED
  BY <1>1, <1>2

\* What the days count together is what one count of all of them counts.
LEMMA DaysAddUp ==
  ASSUME TypeOK, NEW n \in Nat, NEW days,
         \A k \in 1 .. n :
           days[k] = Cardinality({i \in Registered : Day(now) - Day(received[i]) = k - 1})
  PROVE  (CHOOSE h : AddsUp(h, days, n))[1 .. n]
           = Cardinality({i \in Registered : Day(received[i]) \in Day(now) - n + 1 .. Day(now)})
<1> DEFINE Of(s) == {i \in Registered : \E k \in s : Day(now) - Day(received[i]) = k - 1}
           g == [s \in SUBSET (1 .. n) |-> Cardinality(Of(s))]
<1>1. \A s : IsFiniteSet(Of(s)) /\ Cardinality(Of(s)) \in Nat
  <2> SUFFICES ASSUME NEW s PROVE IsFiniteSet(Of(s)) /\ Cardinality(Of(s)) \in Nat
    OBVIOUS
  <2>1. Of(s) \in SUBSET Incoming
    BY DEF Registered
  <2> HIDE DEF Of
  <2> QED
    BY <2>1, DeskAssumption, FS_Subset, FS_CardinalityType
<1>2. Of({}) = {}
  OBVIOUS
<1>3. ASSUME NEW s \in SUBSET (1 .. n), NEW k \in s
      PROVE  Cardinality(Of(s)) = days[k] + Cardinality(Of(s \ {k}))
  <2>1. days[k] = Cardinality(Of({k}))
    OBVIOUS
  <2>2. Of(s) = Of({k}) \cup Of(s \ {k})
    OBVIOUS
  <2>3. Of({k}) \cap Of(s \ {k}) = {}
    OBVIOUS
  <2> HIDE DEF Of
  <2>4. Cardinality(Of({k}) \cup Of(s \ {k}))
          = Cardinality(Of({k})) + Cardinality(Of(s \ {k}))
              - Cardinality(Of({k}) \cap Of(s \ {k}))
    BY <1>1, FS_Union
  <2>5. Cardinality(Of({k}) \cap Of(s \ {k})) = 0
    BY <2>3, FS_EmptySet
  <2> QED
    BY <1>1, <2>1, <2>2, <2>4, <2>5
<1>4. AddsUp(g, days, n)
  <2> SUFFICES ASSUME NEW s \in SUBSET (1 .. n), s # {}
               PROVE  Cardinality(Of(s)) = days[CHOOSE x \in s : TRUE]
                                             + Cardinality(Of(s \ {CHOOSE x \in s : TRUE}))
    <3>1. Cardinality(Of({})) = 0
      BY <1>2, FS_EmptySet
    <3> HIDE DEF Of
    <3> QED
      BY <3>1 DEF AddsUp
  <2> PICK k \in s : k = CHOOSE x \in s : TRUE
    OBVIOUS
  <2> HIDE DEF Of
  <2> QED
    BY <1>3
<1>5. Of(1 .. n) = {i \in Registered : Day(received[i]) \in Day(now) - n + 1 .. Day(now)}
  <2>1. \A i \in Registered : Day(received[i]) \in Int
    <3>1. \A i \in Registered : received[i] \in Nat
      BY TypeOKParts, DistributionAssumption DEF Registered, ColumnsTypeOK, DistTypeOK
    <3> QED
      BY <3>1, DeskAssumption DEF Day
  <2>2. Day(now) \in Int
    BY TypeOKParts, DeskAssumption, DistributionAssumption DEF Day, DistTypeOK
  <2>3. \A i \in Registered :
          (\E k \in 1 .. n : Day(now) - Day(received[i]) = k - 1)
            <=> Day(received[i]) \in Day(now) - n + 1 .. Day(now)
    <3> SUFFICES ASSUME NEW t \in Int, NEW u \in Int
                 PROVE  (\E k \in 1 .. n : t - u = k - 1) <=> u \in t - n + 1 .. t
      BY <2>1, <2>2
    <3>1. ASSUME u \in t - n + 1 .. t PROVE \E k \in 1 .. n : t - u = k - 1
      <4>1. t - u + 1 \in 1 .. n /\ t - u = (t - u + 1) - 1
        BY <3>1
      <4> QED
        BY <4>1
    <3> QED
      BY <3>1
  <2> QED
    BY <2>3
<1>6. (CHOOSE h : AddsUp(h, days, n))[1 .. n] = g[1 .. n]
  <2> HIDE DEF g
  <2> QED
    BY <1>4, SumIsUnique
<1> QED
  BY <1>5, <1>6

LEMMA SeriesAgree == TypeOK => SeriesMatchesTotals
<1> SUFFICES ASSUME TypeOK PROVE SeriesMatchesTotals
  OBVIOUS
<1>1. LastDays \in Nat
  BY DeskAssumption
<1>2. Figure("last7", None, now)
        = {i \in Registered : Day(received[i]) \in Day(now) - LastDays + 1 .. Day(now)}
  BY DEF Figure
<1>3. \A k \in 1 .. LastDays :
        dailySeries(LastDays)[k]
          = Cardinality({i \in Registered : Day(now) - Day(received[i]) = k - 1})
  BY DEF dailySeries
<1>4. \A k \in 1 .. LastDays :
        series(LastDays)[k]
          = Cardinality({i \in Registered : Day(now) - Day(received[i]) = k - 1})
  <2> SUFFICES ASSUME NEW k \in 1 .. LastDays
               PROVE  series(LastDays)[k]
                        = Cardinality({i \in Registered : Day(now) - Day(received[i]) = k - 1})
    OBVIOUS
  <2>1. Day(now) \in Int
    BY TypeOKParts, DeskAssumption, DistributionAssumption DEF Day, DistTypeOK
  <2>2. \A i \in Registered : Day(received[i]) \in Int
    <3>1. \A i \in Registered : received[i] \in Nat
      BY TypeOKParts, DistributionAssumption DEF Registered, ColumnsTypeOK, DistTypeOK
    <3> QED
      BY <3>1, DeskAssumption DEF Day
  <2>3. Day(now) - k + 1 \in Day(now) - LastDays .. Day(now)
    BY <1>1, <2>1
  <2>4. series(LastDays)[k]
          = Cardinality({i \in Registered : Day(received[i]) = Day(now) - k + 1})
    BY <2>3 DEF series
  <2>5. \A i \in Registered :
          Day(received[i]) = Day(now) - k + 1 <=> Day(now) - Day(received[i]) = k - 1
    BY <1>1, <2>1, <2>2
  <2>6. {i \in Registered : Day(received[i]) = Day(now) - k + 1}
          = {i \in Registered : Day(now) - Day(received[i]) = k - 1}
    BY <2>5
  <2> QED
    BY <2>4, <2>6
<1> SUFFICES ASSUME NEW days \in {dailySeries(LastDays), series(LastDays)}
             PROVE  MapThenSumSet(LAMBDA k : days[k], 1 .. LastDays)
                      = Cardinality(Figure("last7", None, now))
  BY DEF SeriesMatchesTotals
<1>5. \A k \in 1 .. LastDays :
        days[k] = Cardinality({i \in Registered : Day(now) - Day(received[i]) = k - 1})
  BY <1>3, <1>4
<1>6. (CHOOSE h : AddsUp(h, days, LastDays))[1 .. LastDays]
        = Cardinality(Figure("last7", None, now))
  <2>1. (CHOOSE h : AddsUp(h, days, LastDays))[1 .. LastDays]
          = Cardinality({i \in Registered :
                           Day(received[i]) \in Day(now) - LastDays + 1 .. Day(now)})
    BY <1>1, <1>5, DaysAddUp
  <2> QED
    BY <1>2, <2>1
<1>7. MapThenSumSet(LAMBDA k : days[k], 1 .. LastDays)
        = (CHOOSE h : AddsUp(h, days, LastDays))[1 .. LastDays]
  BY DEF MapThenSumSet, MapThenFoldSet, AddsUp
<1> QED
  BY <1>6, <1>7

LEMMA OverdueAgree == TypeOK => OverdueViewsAgree
<1> SUFFICES ASSUME TypeOK, NEW x \in Dept, NEW d \in SummaryRows(x)
             PROVE  /\ SlaOf(d) = "Overdue" => IsPastDue(dist[d].dueAt, now)
                    /\ IsPastDue(dist[d].dueAt, now) /\ SlaOf(d) # "Overdue" =>
                         2 * (now - dist[d].dueAt) <= TicksPerMinute
  <2>1. \A x \in Dept : x # None
    BY DeskAssumption
  <2>2. \A x \in Dept : myDesk(x, "overdue") = {d \in SummaryRows(x) : IsPastDue(dist[d].dueAt, now)}
    BY <2>1 DEF myDesk, SummaryRows, OnDesk, InSummary, InScope
  <2> QED
    BY <2>2 DEF OverdueViewsAgree, myDeskSlaSummary
<1>1. dist[d].dueAt \in Nat \cup {None} /\ now \in Nat
  BY TypeOKParts, DistributionAssumption DEF DistTypeOK, Row, DueAt, SummaryRows, Created
<1> PICK due \in Nat \cup {None} : due = dist[d].dueAt
  BY <1>1
<1>2. CASE due = None
  BY <1>2 DEF SlaOf, computeSlaStatus, IsPastDue
<1>3. CASE due \in Nat /\ due # None
  <2> DEFINE m == 2 * (due - now) + TicksPerMinute
  <2>1. m \in Int /\ 2 * TicksPerMinute \in Nat \ {0} /\ TicksPerMinute \in Nat \ {0}
    BY <1>1, <1>3, SlaInfoAssumption
  <2>2. minutesToDue(due, now) < 0 <=> m < 0
    <3>1. \A y \in Int, z \in Nat \ {0} : y \div z < 0 <=> y < 0
      OBVIOUS
    <3> QED
      BY <2>1, <3>1 DEF minutesToDue
  <2>3. minutesToDue(due, now) \in Int
    <3>1. \A y \in Int, z \in Nat \ {0} : y \div z \in Int
      OBVIOUS
    <3> QED
      BY <2>1, <3>1 DEF minutesToDue
  <2>4. SlaOf(d) = "Overdue" <=> m < 0
    <3> DEFINE left == minutesToDue(due, now)
    <3>1. SlaOf(d) = CASE left < 0 -> "Overdue"
                       [] left >= 0 /\ (dist[d].status = "Closed" \/ left > DueSoonMinutes) -> "OnTrack"
                       [] OTHER -> "DueSoon"
      BY <1>3 DEF SlaOf, computeSlaStatus
    <3> HIDE DEF left
    <3>2. SlaOf(d) = "Overdue" <=> left < 0
      BY <3>1, <2>3 DEF left
    <3> QED
      BY <2>2, <3>2 DEF left
  <2> QED
    BY <1>1, <1>3, <2>1, <2>4 DEF IsPastDue
<1> QED
  BY <1>2, <1>3

LEMMA ReportsStand == TypeOK => ReportsAgree
<1> SUFFICES ASSUME TypeOK, NEW sla PROVE
      LET reported == UNION {slaReportByDepartment(x, sla) : x \in Dept}
          desks == UNION {myDesk(x, "all") : x \in Dept}
      IN /\ \A x \in Dept : slaReportByDepartment(x, sla) = myDeskSlaSummary(x, sla)
         /\ \A i \in Incoming : \A d \in DistsOf(i) :
              d \in reported <=> d \in desks /\ getIncomingDetails(i)[d] = sla
  BY DEF ReportsAgree
<1>1. \A x \in Dept : x # None
  BY DeskAssumption
<1>2. \A x \in Dept : slaReportByDepartment(x, sla) = myDeskSlaSummary(x, sla)
  BY <1>1 DEF slaReportByDepartment, myDeskSlaSummary, SummaryRows, InSummary, Created
<1>3. \A x \in Dept : slaReportByDepartment(x, sla) = {d \in myDesk(x, "all") : SlaOf(d) = sla}
  BY <1>1 DEF slaReportByDepartment, myDesk, OnDesk, InScope, Created
<1>4. \A i \in Incoming : \A d \in DistsOf(i) : getIncomingDetails(i)[d] = SlaOf(d)
  BY DEF getIncomingDetails
<1> QED
  BY <1>2, <1>3, <1>4

\* The statuses that a desk counts, and the rows of its summary, are the
\* department's figures.
LEMMA StatusesStand == StatusesAgree
<1> SUFFICES ASSUME NEW x \in Dept
             PROVE  /\ \A s \in {"Open", "InProgress", "Closed"} : myDeskStatus(x, s) = Figure(s, x, now)
                    /\ SummaryRows(x) = myDeskStatus(x, "Open") \cup myDeskStatus(x, "InProgress")
                                          \cup Figure("Escalated", x, now)
  BY DEF StatusesAgree
<1>1. x # None
  BY DeskAssumption
<1>2. \A d : OnDesk(d, x) <=> InSummary(d, x)
  BY <1>1 DEF OnDesk, InSummary
<1>3. \A s \in {"Open", "InProgress", "Escalated", "Closed"} :
        Figure(s, x, now) = {d \in Created : InSummary(d, x) /\ dist[d].status = s}
  BY <1>2 DEF Figure
<1> QED
  BY <1>3 DEF myDeskStatus, SummaryRows, ActiveStatus

\* ViewsAgree, at every instant of every run: what is overdue, the standing and
\* the status of every distribution and the records of the last days, however often they are
\* computed, and for any length of a day.
THEOREM ViewsAlwaysAgree == Spec => []ViewsAgree
<1>1. TypeOK => ViewsAgree
  BY SeriesAgree, OverdueAgree, ReportsStand, StatusesStand DEF ViewsAgree
<1> QED
  BY <1>1, DeskTypeCorrect, PTL

=============================================================================
