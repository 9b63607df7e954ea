------------------------- MODULE DistributionProofs -------------------------
(***************************************************************************)
(* What the handlers of module Distribution do to its tables, whoever runs *)
(* beside them: the facts that the proofs about SlaWorker, Notices and     *)
(* Desk share, for any number of records, handlers and users.              *)
(***************************************************************************)
EXTENDS Distribution, FiniteSetTheorems, TLAPS

(* Data *)

\* The target level of any deadline under any settings is 0 .. 4
\* (computeTargetLevel).
LEMMA TargetLevelType ==
  ASSUME NEW due, NEW c, NEW t
  PROVE  computeTargetLevel(due, c, t) \in 0 .. 4
<1> DEFINE S == {0} \cup LevelsReached(due, c, t)
<1>1. S \subseteq 0 .. 4 /\ 0 \in S
  BY DEF LevelsReached, Levels
<1>2. \E x \in S : \A y \in S : x >= y
  <2>1. CASE 4 \in S
    BY <1>1, <2>1
  <2>2. CASE 4 \notin S /\ 3 \in S
    BY <1>1, <2>2
  <2>3. CASE 4 \notin S /\ 3 \notin S /\ 2 \in S
    BY <1>1, <2>3
  <2>4. CASE 4 \notin S /\ 3 \notin S /\ 2 \notin S
    BY <1>1, <2>4
  <2> QED
    BY <2>1, <2>2, <2>3, <2>4
<1>3. Max(S) \in S
  BY <1>2 DEF Max
<1> QED
  BY <1>1, <1>3 DEF computeTargetLevel

\* The updates of IncomingDistribution the commands make keep it a row.
LEMMA RowUpdates ==
  ASSUME NEW x \in Row, NEW t \in Nat
  PROVE  /\ [x EXCEPT !.lastUpdateAt = t] \in Row
         /\ \A s \in Status : [x EXCEPT !.status = s, !.lastUpdateAt = t] \in Row
         /\ \A due \in DueAt : [x EXCEPT !.dueAt = due, !.lastUpdateAt = t] \in Row
         /\ \A u \in User : [x EXCEPT !.assignee = u, !.lastUpdateAt = t] \in Row
         /\ \A s \in Status, n \in Nat :
              [x EXCEPT !.status = s, !.escalationCount = n, !.lastUpdateAt = t] \in Row
<1>1. [x EXCEPT !.lastUpdateAt = t] \in Row
  BY DEF Row
<1>2. ASSUME NEW s \in Status PROVE [x EXCEPT !.status = s, !.lastUpdateAt = t] \in Row
  BY DEF Row
<1>3. ASSUME NEW due \in DueAt PROVE [x EXCEPT !.dueAt = due, !.lastUpdateAt = t] \in Row
  BY DEF Row
<1>4. ASSUME NEW u \in User PROVE [x EXCEPT !.assignee = u, !.lastUpdateAt = t] \in Row
  BY DEF Row
<1>5. ASSUME NEW s \in Status, NEW n \in Nat
      PROVE  [x EXCEPT !.status = s, !.escalationCount = n, !.lastUpdateAt = t] \in Row
  BY DEF Row
<1> QED
  BY <1>1, <1>2, <1>3, <1>4, <1>5

\* So does the row of a new distribution.
LEMMA OpenRowType ==
  ASSUME now \in Nat, NEW i \in Incoming, NEW due \in DueAt, NEW u \in User \cup {None}
  PROVE  OpenRow(i, due, u) \in Row
BY DEF OpenRow, Row, Status

LEMMA EntryType ==
  ASSUME NEW why \in AuditAction \cup {"AUTO_CLOSE"}, NEW old \in Status \cup {None},
         NEW new \in Status \cup {None}, NEW level \in Nat
  PROVE  Entry(why, old, new, level) \in LogEntry
BY DEF Entry, LogEntry

LEMMA RemarkType == \A why \in AuditAction : Remark(why) \in LogEntry
BY EntryType DEF Remark

\* Adding a log row or an audit row keeps the tables well typed.
LEMMA TablesGrow ==
  ASSUME log \in [DistId -> Seq(LogEntry)], audit \in [Incoming -> [AuditAction -> Nat]]
  PROVE  /\ \A d \in DistId, e \in LogEntry : AddLog(d, e) => log' \in [DistId -> Seq(LogEntry)]
         /\ \A i \in Incoming \cup {None}, a \in AuditAction :
              AddAudit(i, a) => audit' \in [Incoming -> [AuditAction -> Nat]]
<1>1. ASSUME NEW d \in DistId, NEW e \in LogEntry, AddLog(d, e)
      PROVE  log' \in [DistId -> Seq(LogEntry)]
  <2>1. Append(log[d], e) \in Seq(LogEntry)
    OBVIOUS
  <2> QED
    BY <1>1, <2>1 DEF AddLog
<1>2. ASSUME NEW i \in Incoming \cup {None}, NEW a \in AuditAction, AddAudit(i, a)
      PROVE  audit' \in [Incoming -> [AuditAction -> Nat]]
  <2>1. CASE i \in Incoming
    <3>1. audit[i] \in [AuditAction -> Nat] /\ audit[i][a] + 1 \in Nat
      BY <2>1
    <3>2. [audit[i] EXCEPT ![a] = @ + 1] \in [AuditAction -> Nat]
      BY <3>1
    <3> QED
      BY <1>2, <2>1, <3>2 DEF AddAudit
  <2>2. CASE i \notin Incoming
    BY <1>2, <2>2 DEF AddAudit
  <2> QED
    BY <2>1, <2>2
<1> QED
  BY <1>1, <1>2

----------------------------------------------------------------------------
----------------------------------------------------------------------------
(* Type correctness *)

LEMMA DistInitTypeOK == DistInit => DistTypeOK
<1> SUFFICES ASSUME DistInit PROVE DistTypeOK
  OBVIOUS
<1>1. NoRow \in Row
  BY SlaInfoAssumption DEF NoRow, Row, Status, DueAt
<1>2. Idle \in Reads
  BY DEF Idle, Reads
<1> QED
  BY <1>1, <1>2, DistributionAssumption DEF DistInit, DistTypeOK, Idle

\* The handlers of Distribution keep the types of its tables.
LEMMA DistNextTypeOK == DistTypeOK /\ DistNext => DistTypeOK'
<1> SUFFICES ASSUME DistTypeOK, DistNext PROVE DistTypeOK'
  OBVIOUS
<1>1. /\ now \in Nat
      /\ dist \in [DistId -> Row]
      /\ log \in [DistId -> Seq(LogEntry)]
      /\ audit \in [Incoming -> [AuditAction -> Nat]]
      /\ req \in [Request -> Reads]
  BY DistributionAssumption DEF DistTypeOK
<1>2. \A d \in DistId : /\ dist[d] \in Row
                        /\ Exists(d) => dist[d].incoming \in Incoming
                        /\ dist[d].status \in Status
  BY <1>1 DEF Row, Exists
<1>3. \A r \in Request : /\ req[r].seen \in Status \cup {None}
                         /\ req[r].op # "none" => req[r].incoming \in Incoming
                         /\ req[r].op = "status" => req[r].dist \in DistId
  <2> TAKE r \in Request
  <2>1. /\ req[r].op # "none" => req[r].incoming # None
        /\ req[r].op = "status" => req[r].dist # None
    BY DEF DistTypeOK
  <2>2. req[r] \in Reads
    BY <1>1
  <2> QED
    BY <2>1, <2>2 DEF Reads
<1>4. FreeIds # {} => NewId \in DistId
  BY DEF NewId, FreeIds
<1>5. ASSUME NEW r \in Request, req' = [req EXCEPT ![r] = Idle]
      PROVE  /\ req' \in [Request -> Reads]
             /\ \A q \in Request : /\ req'[q].op # "none" => req'[q].incoming # None
                                   /\ req'[q].op = "status" => req'[q].dist # None
  <2>1. Idle \in Reads /\ Idle.op = "none"
    BY DEF Idle, Reads
  <2>2. \A q \in Request : req'[q] = IF q = r THEN Idle ELSE req[q]
    BY <1>1, <1>5
  <2>3. req' \in [Request -> Reads]
    BY <1>1, <1>5, <2>1
  <2> QED
    BY <2>1, <2>2, <2>3 DEF DistTypeOK
<1>6. ASSUME NEW i \in Incoming, createIncoming(i) PROVE DistTypeOK'
  <2>1. PICK due \in DueChoices : dist' = [dist EXCEPT ![NewId] = OpenRow(i, due, None)]
    BY <1>6 DEF createIncoming
  <2>2. OpenRow(i, due, None) \in Row
    BY <1>1, OpenRowType, DistributionAssumption
  <2>3. dist' \in [DistId -> Row]
    BY <1>1, <2>1, <2>2
  <2>4. audit' \in [Incoming -> [AuditAction -> Nat]]
    BY <1>1, <1>6, TablesGrow DEF createIncoming, AuditAction
  <2> QED
    BY <1>6, <2>3, <2>4 DEF createIncoming, DistTypeOK
<1>7. ASSUME NEW r \in Request, NEW i \in Incoming, NEW close \in BOOLEAN,
             forwardRead(r, i, close)
      PROVE  DistTypeOK'
  <2>1. PICK prev \in DistId \cup {None} :
          req' = [req EXCEPT ![r] =
                    [op |-> "forward", incoming |-> i, dist |-> prev,
                     seen |-> IF prev = None THEN None ELSE dist[prev].status]]
    BY <1>7 DEF forwardRead, LastOpen, DistsOf
  <2>2. [op |-> "forward", incoming |-> i, dist |-> prev,
         seen |-> IF prev = None THEN None ELSE dist[prev].status] \in Reads
    BY <1>2 DEF Reads
  <2>3. i # None
    BY DistributionAssumption
  <2> QED
    BY <1>7, <2>1, <2>2, <2>3 DEF forwardRead, DistTypeOK
<1>8. ASSUME NEW r \in Request, forwardCommit(r) PROVE DistTypeOK'
  <2>1. PICK due \in DueChoices, u \in User \cup {None} :
          dist' = [d \in DistId |->
                     CASE d = NewId -> OpenRow(req[r].incoming, due, u)
                       [] d = req[r].dist -> [dist[d] EXCEPT !.status = "Closed",
                                                             !.lastUpdateAt = now]
                       [] OTHER -> dist[d]]
    BY <1>8 DEF forwardCommit
  <2>2. req[r].incoming \in Incoming /\ req[r].seen \in Status \cup {None}
    BY <1>3, <1>8 DEF forwardCommit
  <2>3. OpenRow(req[r].incoming, due, u) \in Row
    BY <1>1, <2>2, OpenRowType, DistributionAssumption
  <2>4. "Closed" \in Status
    BY DEF Status
  <2>5. \A d \in DistId : [dist[d] EXCEPT !.status = "Closed", !.lastUpdateAt = now] \in Row
    BY <1>1, <1>2, <2>4, RowUpdates
  <2>6. dist' \in [DistId -> Row]
    BY <1>2, <2>1, <2>3, <2>5
  <2>7. /\ Entry("FORWARD", None, "Open", 0) \in LogEntry
        /\ Entry("AUTO_CLOSE", req[r].seen, "Closed", 0) \in LogEntry
    BY <2>2, EntryType DEF AuditAction, Status
  <2>8. \A d \in DistId : /\ Append(log[d], Entry("FORWARD", None, "Open", 0)) \in Seq(LogEntry)
                          /\ Append(log[d], Entry("AUTO_CLOSE", req[r].seen, "Closed", 0))
                               \in Seq(LogEntry)
    BY <1>1, <2>7
  <2>9. log' \in [DistId -> Seq(LogEntry)]
    BY <1>1, <1>8, <2>8 DEF forwardCommit
  <2>10. audit' \in [Incoming -> [AuditAction -> Nat]]
    BY <1>1, <1>8, <2>2, TablesGrow DEF forwardCommit, AuditAction
  <2>11. req' = [req EXCEPT ![r] = Idle] /\ UNCHANGED <<now, cfg>>
    BY <1>8 DEF forwardCommit
  <2> QED
    BY <1>5, <2>6, <2>9, <2>10, <2>11 DEF DistTypeOK
<1>9. ASSUME NEW r \in Request, NEW d \in DistId, statusRead(r, d) PROVE DistTypeOK'
  <2>1. [op |-> "status", incoming |-> dist[d].incoming, dist |-> d,
         seen |-> dist[d].status] \in Reads
    BY <1>2, <1>9 DEF statusRead, Reads
  <2>2. d # None /\ dist[d].incoming # None
    BY <1>9, DistributionAssumption DEF statusRead, Exists
  <2> QED
    BY <1>9, <2>1, <2>2 DEF statusRead, DistTypeOK
<1>10. ASSUME NEW r \in Request, NEW s \in Status, statusCommit(r, s) PROVE DistTypeOK'
  <2>1. /\ req[r].dist \in DistId /\ req[r].incoming \in Incoming
        /\ req[r].seen \in Status \cup {None}
    BY <1>3, <1>10 DEF statusCommit
  <2>2. dist' = [dist EXCEPT ![req[r].dist] = [@ EXCEPT !.status = s, !.lastUpdateAt = now]]
    BY <1>1, <1>10, <2>1 DEF statusCommit
  <2>3. dist' \in [DistId -> Row]
    BY <1>1, <1>2, <2>1, <2>2, RowUpdates
  <2>4. Entry("DIST_STATUS", req[r].seen, s, 0) \in LogEntry
    BY <2>1, EntryType DEF AuditAction
  <2>5. /\ log' \in [DistId -> Seq(LogEntry)]
        /\ audit' \in [Incoming -> [AuditAction -> Nat]]
    BY <1>1, <1>10, <2>1, <2>4, TablesGrow DEF statusCommit, AuditAction
  <2>6. req' = [req EXCEPT ![r] = Idle] /\ UNCHANGED <<now, cfg>>
    BY <1>10 DEF statusCommit
  <2> QED
    BY <1>5, <2>3, <2>5, <2>6 DEF DistTypeOK
<1>11. ASSUME NEW r \in Request, requestFails(r) PROVE DistTypeOK'
  BY <1>5, <1>11 DEF requestFails, DistTypeOK
<1>12. ASSUME NEW d \in DistId, updateDistributionSLA(d) PROVE DistTypeOK'
  <2>1. PICK due \in {dist[d].dueAt} \cup DueEdits :
          dist' = [dist EXCEPT ![d].dueAt = due, ![d].lastUpdateAt = now]
    BY <1>12 DEF updateDistributionSLA
  <2>2. due \in DueAt
    BY <1>1, DistributionAssumption DEF Row
  <2>3. dist' = [dist EXCEPT ![d] = [@ EXCEPT !.dueAt = due, !.lastUpdateAt = now]]
    BY <1>1, <2>1
  <2>4. dist' \in [DistId -> Row]
    BY <1>1, <1>2, <2>2, <2>3, RowUpdates
  <2>5. /\ log' \in [DistId -> Seq(LogEntry)]
        /\ audit' \in [Incoming -> [AuditAction -> Nat]]
    BY <1>1, <1>2, <1>12, RemarkType, TablesGrow
       DEF updateDistributionSLA, Writable, AuditAction
  <2> QED
    BY <1>12, <2>4, <2>5 DEF updateDistributionSLA, DistTypeOK
<1>13. ASSUME NEW d \in DistId, NEW u \in User, assignDistribution(d, u) PROVE DistTypeOK'
  <2>1. dist' = [dist EXCEPT ![d] = [@ EXCEPT !.assignee = u, !.lastUpdateAt = now]]
    BY <1>1, <1>13 DEF assignDistribution
  <2>2. dist' \in [DistId -> Row]
    BY <1>1, <1>2, <2>1, RowUpdates
  <2>3. /\ log' \in [DistId -> Seq(LogEntry)]
        /\ audit' \in [Incoming -> [AuditAction -> Nat]]
    BY <1>1, <1>2, <1>13, RemarkType, TablesGrow
       DEF assignDistribution, Writable, AuditAction
  <2> QED
    BY <1>13, <2>2, <2>3 DEF assignDistribution, DistTypeOK
<1>14. ASSUME NEW d \in DistId, addDistributionNote(d) PROVE DistTypeOK'
  <2>1. dist' = [dist EXCEPT ![d] = [@ EXCEPT !.lastUpdateAt = now]]
    BY <1>1, <1>14 DEF addDistributionNote
  <2>2. dist' \in [DistId -> Row]
    BY <1>1, <1>2, <2>1, RowUpdates
  <2>3. /\ log' \in [DistId -> Seq(LogEntry)]
        /\ audit' \in [Incoming -> [AuditAction -> Nat]]
    BY <1>1, <1>2, <1>14, RemarkType, TablesGrow
       DEF addDistributionNote, Writable, AuditAction
  <2> QED
    BY <1>14, <2>2, <2>3 DEF addDistributionNote, DistTypeOK
<1>15. ASSUME NEW c \in Configs, updateSettings(c) PROVE DistTypeOK'
  BY <1>15 DEF updateSettings, DistTypeOK
<1>16. CASE tick
  BY <1>1, <1>16, DistributionAssumption DEF tick, DistTypeOK
<1> QED
  BY <1>6, <1>7, <1>8, <1>9, <1>10, <1>11, <1>12, <1>13, <1>14, <1>15, <1>16,
     DistributionAssumption DEF DistNext

\* No handler touches a scan's locks.
LEMMA DistNextKeepsLocks == DistNext => locked' = locked
BY DEF DistNext, createIncoming, forwardRead, forwardCommit, statusRead, statusCommit,
       requestFails, updateDistributionSLA, assignDistribution, addDistributionNote,
       updateSettings, tick
----------------------------------------------------------------------------
(* What a step does to one distribution *)

Untouched(d) == dist'[d] = dist[d] /\ log'[d] = log[d]

\* A distribution is opened at level 0, with or without a FORWARD row.
Opened(d) ==
  /\ ~ Exists(d)
  /\ dist'[d].incoming \in Incoming
  /\ dist'[d].status = "Open"
  /\ dist'[d].escalationCount = 0
  /\ log'[d] \in {log[d], Append(log[d], Entry("FORWARD", None, "Open", 0))}

\* A handler that changes a row adds the log row that tells of it.
Handled(d) ==
  /\ Exists(d)
  /\ d \notin locked
  /\ dist'[d].incoming = dist[d].incoming
  /\ dist'[d].escalationCount = dist[d].escalationCount
  /\ \E e \in LogEntry :
       /\ log'[d] = Append(log[d], e)
       /\ e.why \notin {"ESCALATED", "CREATE_INCOMING"}
       /\ \/ e.newStatus = None /\ dist'[d].status = dist[d].status
          \/ e.newStatus = dist'[d].status /\ e.newStatus # None

\* The handlers do one of these three things to a distribution.
LEMMA HandlerStep ==
  ASSUME DistTypeOK, DistNext, NEW d \in DistId
  PROVE  Untouched(d) \/ Opened(d) \/ Handled(d)
<1>1. /\ dist \in [DistId -> Row]
      /\ log \in [DistId -> Seq(LogEntry)]
      /\ dist[d] \in Row
      /\ now \in Nat
  BY DistributionAssumption DEF DistTypeOK
<1>2. \A r \in Request : /\ req[r].seen \in Status \cup {None}
                         /\ req[r].op # "none" => req[r].incoming \in Incoming
                         /\ req[r].op = "status" => req[r].dist \in DistId
  <2> TAKE r \in Request
  <2>1. /\ req[r].op # "none" => req[r].incoming # None
        /\ req[r].op = "status" => req[r].dist # None
        /\ req[r] \in Reads
    BY DEF DistTypeOK
  <2> QED
    BY <2>1 DEF Reads
<1>3. FreeIds # {} => NewId \in DistId /\ ~ Exists(NewId)
  BY DEF NewId, FreeIds
<1>4. \A x \in Status : x # None
  BY DistributionAssumption
<1>5. ASSUME NEW i \in Incoming, createIncoming(i) PROVE Untouched(d) \/ Opened(d)
  <2>1. PICK due \in DueChoices : dist' = [dist EXCEPT ![NewId] = OpenRow(i, due, None)]
    BY <1>5 DEF createIncoming
  <2>2. log' = log /\ FreeIds # {}
    BY <1>5 DEF createIncoming
  <2> QED
    BY <1>1, <1>3, <2>1, <2>2 DEF Untouched, Opened, OpenRow
<1>6. ASSUME NEW r \in Request, forwardCommit(r)
      PROVE  Untouched(d) \/ Opened(d) \/ Handled(d)
  <2>1. PICK due \in DueChoices, u \in User \cup {None} :
          dist' = [x \in DistId |->
                     CASE x = NewId -> OpenRow(req[r].incoming, due, u)
                       [] x = req[r].dist -> [dist[x] EXCEPT !.status = "Closed",
                                                             !.lastUpdateAt = now]
                       [] OTHER -> dist[x]]
    BY <1>6 DEF forwardCommit
  <2>2. /\ FreeIds # {} /\ (req[r].dist # None => Writable(req[r].dist))
        /\ req[r].incoming \in Incoming
        /\ log'[d] = CASE d = NewId -> Append(log[d], Entry("FORWARD", None, "Open", 0))
                       [] d = req[r].dist -> Append(log[d], Entry("AUTO_CLOSE", req[r].seen, "Closed", 0))
                       [] OTHER -> log[d]
    BY <1>2, <1>6 DEF forwardCommit
  <2>3. CASE d = NewId
    <3>1. ~ Exists(d) /\ d # req[r].dist
      BY <1>3, <2>2, <2>3, DistributionAssumption DEF Writable
    <3>2. dist'[d] = OpenRow(req[r].incoming, due, u)
      BY <2>1, <2>3, <3>1
    <3>3. log'[d] = Append(log[d], Entry("FORWARD", None, "Open", 0))
      BY <2>2, <2>3, <3>1
    <3> QED
      BY <2>2, <3>1, <3>2, <3>3 DEF Opened, OpenRow
  <2>4. CASE d # NewId /\ d = req[r].dist
    <3>1. dist'[d] = [dist[d] EXCEPT !.status = "Closed", !.lastUpdateAt = now]
      BY <2>1, <2>4
    <3>2. /\ dist'[d].incoming = dist[d].incoming
          /\ dist'[d].escalationCount = dist[d].escalationCount
          /\ dist'[d].status = "Closed"
      BY <1>1, <3>1 DEF Row
    <3> DEFINE e == Entry("AUTO_CLOSE", req[r].seen, "Closed", 0)
    <3>3. log'[d] = Append(log[d], e)
      BY <2>2, <2>4
    <3>4. "Closed" \in Status
      BY DEF Status
    <3>5. e \in LogEntry
      BY <1>2, <3>4, EntryType
    <3>6. e.why = "AUTO_CLOSE" /\ e.newStatus = "Closed"
      BY DEF Entry
    <3>7. Exists(d) /\ d \notin locked
      BY <2>2, <2>4, DistributionAssumption DEF Writable
    <3> HIDE DEF e
    <3> QED
      BY <1>4, <3>2, <3>3, <3>4, <3>5, <3>6, <3>7 DEF Handled
  <2>5. CASE d # NewId /\ d # req[r].dist
    BY <2>1, <2>2, <2>5 DEF Untouched
  <2> QED
    BY <2>3, <2>4, <2>5
<1>7. ASSUME NEW r \in Request, NEW s \in Status, statusCommit(r, s)
      PROVE  Untouched(d) \/ Handled(d)
  <2> DEFINE e == Entry("DIST_STATUS", req[r].seen, s, 0)
  <2>1. /\ req[r].dist \in DistId /\ Exists(req[r].dist) /\ req[r].dist \notin locked
        /\ log' = [log EXCEPT ![req[r].dist] = Append(@, e)]
    BY <1>2, <1>7 DEF statusCommit, Writable, AddLog
  <2>2. /\ d = req[r].dist => /\ dist'[d].incoming = dist[d].incoming
                              /\ dist'[d].escalationCount = dist[d].escalationCount
                              /\ dist'[d].status = s
        /\ d # req[r].dist => dist'[d] = dist[d]
    BY <1>1, <1>7, <2>1 DEF statusCommit, Row
  <2>3. e \in LogEntry /\ e.why = "DIST_STATUS" /\ e.newStatus = s
    BY <1>2, EntryType DEF AuditAction, Entry
  <2> HIDE DEF e
  <2> QED
    BY <1>1, <1>4, <2>1, <2>2, <2>3 DEF Untouched, Handled
<1>8. ASSUME NEW x \in DistId, NEW why \in AuditAction \ {"ESCALATED", "CREATE_INCOMING"},
             Writable(x), AddLog(x, Remark(why)),
             \A y \in DistId \ {x} : dist'[y] = dist[y],
             dist'[x].incoming = dist[x].incoming,
             dist'[x].status = dist[x].status,
             dist'[x].escalationCount = dist[x].escalationCount
      PROVE  Untouched(d) \/ Handled(d)
  <2>1. Remark(why) \in LogEntry /\ Remark(why).why = why /\ Remark(why).newStatus = None
    BY RemarkType DEF Remark, Entry
  <2> QED
    BY <1>1, <1>8, <2>1 DEF Untouched, Handled, Writable, AddLog
<1>9. ASSUME NEW x \in DistId, updateDistributionSLA(x) PROVE Untouched(d) \/ Handled(d)
  <2>1. /\ \A y \in DistId \ {x} : dist'[y] = dist[y]
        /\ dist'[x].incoming = dist[x].incoming
        /\ dist'[x].status = dist[x].status
        /\ dist'[x].escalationCount = dist[x].escalationCount
    BY <1>1, <1>9 DEF updateDistributionSLA, Row
  <2> QED
    BY <1>8, <1>9, <2>1 DEF updateDistributionSLA, AuditAction
<1>10. ASSUME NEW x \in DistId, NEW u \in User, assignDistribution(x, u)
       PROVE  Untouched(d) \/ Handled(d)
  <2>1. /\ \A y \in DistId \ {x} : dist'[y] = dist[y]
        /\ dist'[x].incoming = dist[x].incoming
        /\ dist'[x].status = dist[x].status
        /\ dist'[x].escalationCount = dist[x].escalationCount
    BY <1>1, <1>10 DEF assignDistribution, Row
  <2> QED
    BY <1>8, <1>10, <2>1 DEF assignDistribution, AuditAction
<1>11. ASSUME NEW x \in DistId, addDistributionNote(x) PROVE Untouched(d) \/ Handled(d)
  <2>1. /\ \A y \in DistId \ {x} : dist'[y] = dist[y]
        /\ dist'[x].incoming = dist[x].incoming
        /\ dist'[x].status = dist[x].status
        /\ dist'[x].escalationCount = dist[x].escalationCount
    BY <1>1, <1>11 DEF addDistributionNote, Row
  <2> QED
    BY <1>8, <1>11, <2>1 DEF addDistributionNote, AuditAction
<1>12. ASSUME UNCHANGED <<dist, log>> PROVE Untouched(d)
  BY <1>12 DEF Untouched
<1> QED
  BY <1>5, <1>6, <1>7, <1>9, <1>10, <1>11, <1>12, DistributionAssumption
     DEF DistNext, forwardRead, statusRead, requestFails, updateSettings, tick

Existing == {d \in DistId : Exists(d)}

\* No handler deletes a distribution, or gives it to another incoming record.
LEMMA DistStillExists ==
  ASSUME DistTypeOK, DistNext, NEW d \in Existing
  PROVE  d \in Existing' /\ dist'[d].incoming = dist[d].incoming
<1>1. d \in DistId /\ Exists(d)
  BY DEF Existing
<1>2. dist'[d].incoming = dist[d].incoming
  BY <1>1, HandlerStep DEF Untouched, Opened, Handled
<1> QED
  BY <1>1, <1>2 DEF Existing, Exists

\* An id that has not been given out has no log.
FreshIds == \A d \in DistId \ Existing : log[d] = <<>>

LEMMA FreshIdsStep == DistTypeOK /\ FreshIds /\ DistNext => FreshIds'
<1> SUFFICES ASSUME DistTypeOK, FreshIds, DistNext, NEW d \in DistId, d \notin Existing'
             PROVE  log'[d] = <<>>
  BY DEF FreshIds
<1>1. d \notin Existing
  BY DistStillExists
<1>2. ~ Opened(d) /\ ~ Handled(d)
  BY <1>1, DistributionAssumption DEF Opened, Handled, Existing, Exists
<1> QED
  BY <1>1, <1>2, HandlerStep DEF Untouched, FreshIds

(* The audit trail tells what the logs tell *)

\* What is audited and logged.
Told == AuditAction \ {"CREATE_INCOMING"}

\* EveryChangeAudited, of sets that can be counted.
Audited ==
  \A i \in Incoming, a \in Told :
    IsFiniteSet(LogRows(i, a)) /\ Cardinality(LogRows(i, a)) = audit[i][a]

\* Distribution d has a log row at n about a.
IsTold(d, n, a) == n \in DOMAIN log[d] /\ log[d][n].why = a

\* What LogRows collects.
LogRowsAreTold ==
  \A i, a, x : x \in LogRows(i, a) <=> \E d \in DistsOf(i) : \E n : IsTold(d, n, a) /\ x = <<d, n>>

LEMMA InLogRows == LogRowsAreTold /\ LogRowsAreTold'
<1>1. LogRowsAreTold
  <2> SUFFICES ASSUME NEW i, NEW a, NEW x
               PROVE  x \in LogRows(i, a)
                        <=> \E d \in DistsOf(i) : \E n : IsTold(d, n, a) /\ x = <<d, n>>
    BY DEF LogRowsAreTold
  <2> QED
    BY DEF LogRows, IsTold
<1> QED
  BY <1>1, PTL

\* One row more in the audit trail goes with one row more in the logs.
LEMMA RowCounted ==
  ASSUME DistTypeOK, Audited, NEW i \in Incoming, NEW a \in Told, NEW x,
         x \notin LogRows(i, a), LogRows(i, a)' = LogRows(i, a) \cup {x},
         \A j \in Incoming, b \in Told : j # i \/ b # a => LogRows(j, b)' = LogRows(j, b),
         AddAudit(i, a)
  PROVE  Audited'
<1> SUFFICES ASSUME NEW j \in Incoming, NEW b \in Told
             PROVE  /\ IsFiniteSet(LogRows(j, b)')
                    /\ Cardinality(LogRows(j, b)') = audit'[j][b]
  BY DEF Audited
<1>1. audit \in [Incoming -> [AuditAction -> Nat]] /\ a \in AuditAction /\ b \in AuditAction
  BY DEF DistTypeOK, Told
<1>2. IsFiniteSet(LogRows(j, b)) /\ Cardinality(LogRows(j, b)) = audit[j][b]
  BY DEF Audited
<1>3. CASE j # i \/ b # a
  <2>1. audit'[j][b] = audit[j][b]
    BY <1>1, <1>3 DEF AddAudit
  <2> QED
    BY <1>2, <1>3, <2>1
<1>4. CASE j = i /\ b = a
  <2>1. audit'[i][a] = audit[i][a] + 1
    BY <1>1 DEF AddAudit
  <2>2. /\ IsFiniteSet(LogRows(i, a) \cup {x})
        /\ Cardinality(LogRows(i, a) \cup {x}) = Cardinality(LogRows(i, a)) + 1
    BY <1>2, <1>4, FS_AddElement
  <2> QED
    BY <1>2, <1>4, <2>1, <2>2
<1> QED
  BY <1>3, <1>4

LEMMA NothingCounted ==
  ASSUME Audited, \A j \in Incoming, b \in Told : audit'[j][b] = audit[j][b],
         \A j \in Incoming, b \in Told : LogRows(j, b)' = LogRows(j, b)
  PROVE  Audited'
BY DEF Audited

\* A log row is told of where its distribution belongs, and where else nothing is.
LEMMA RowAdded ==
  ASSUME DistTypeOK, Audited, NEW d \in Existing, NEW e \in LogEntry, e.why \in Told,
         AddLog(d, e), AddAudit(dist[d].incoming, e.why),
         \A x \in DistId : dist'[x].incoming = dist[x].incoming
  PROVE  Audited'
<1>1. /\ log \in [DistId -> Seq(LogEntry)] /\ d \in DistId /\ dist[d] \in Row
      /\ log[d] \in Seq(LogEntry) /\ log' \in [DistId -> Seq(LogEntry)]
  BY DEF DistTypeOK, Existing, AddLog
<1>2. PICK i \in Incoming : i = dist[d].incoming
  BY <1>1 DEF Existing, Exists, Row
<1> PICK n \in Nat : n = Len(log[d]) + 1
  BY <1>1
<1>3. \A j : DistsOf(j)' = DistsOf(j)
  BY DEF DistsOf
<1>4. /\ n \notin DOMAIN log[d]
      /\ DOMAIN log'[d] = DOMAIN log[d] \cup {n}
      /\ log'[d][n] = e
      /\ \A m \in DOMAIN log[d] : log'[d][m] = log[d][m]
      /\ \A x \in DistId \ {d} : log'[x] = log[x]
  <2>1. log'[d] = Append(log[d], e) /\ \A x \in DistId \ {d} : log'[x] = log[x]
    BY <1>1 DEF AddLog
  <2> QED
    BY <1>1, <2>1
<1>5. \A x \in DistId : \A m, b :
         IsTold(x, m, b)' <=> IsTold(x, m, b) \/ (x = d /\ m = n /\ b = e.why)
  BY <1>4 DEF IsTold
<1>6. \A y : \A j : y \in DistsOf(j) <=> y \in DistId /\ dist[y].incoming = j
  BY DEF DistsOf
<1>7. <<d, n>> \notin LogRows(i, e.why)
  BY <1>4, InLogRows DEF LogRowsAreTold, IsTold
<1>8. ASSUME NEW j, NEW b, NEW x
       PROVE  x \in LogRows(j, b)' <=> x \in LogRows(j, b) \/ (j = i /\ b = e.why /\ x = <<d, n>>)
  <2>1. x \in LogRows(j, b)' <=> \E y \in DistsOf(j) : \E m : IsTold(y, m, b)' /\ x = <<y, m>>
    BY <1>3, InLogRows DEF LogRowsAreTold
  <2>2. x \in LogRows(j, b) <=> \E y \in DistsOf(j) : \E m : IsTold(y, m, b) /\ x = <<y, m>>
    BY InLogRows DEF LogRowsAreTold
  <2>3. \A y \in DistsOf(j) : \A m :
          IsTold(y, m, b)' <=> IsTold(y, m, b) \/ (y = d /\ m = n /\ b = e.why)
    BY <1>5, <1>6
  <2>4. d \in DistsOf(j) <=> j = i
    BY <1>1, <1>2, <1>6
  <2> QED
    BY <2>1, <2>2, <2>3, <2>4
<1>9. LogRows(i, e.why)' = LogRows(i, e.why) \cup {<<d, n>>}
  BY <1>8
<1>10. ASSUME NEW j \in Incoming, NEW b \in Told, j # i \/ b # e.why
       PROVE  LogRows(j, b)' = LogRows(j, b)
  <2>1. \A x : x \in LogRows(j, b)' <=> x \in LogRows(j, b)
    BY <1>8, <1>10
  <2> QED
    BY <2>1
<1> QED
  BY <1>2, <1>7, <1>9, <1>10, RowCounted

\* A new distribution brings no log row, or one of its FORWARD.
LEMMA RowsBegin ==
  ASSUME FreshIds, NEW d \in DistId \ Existing, NEW i \in Incoming,
         dist'[d].incoming = i, \A x \in DistId \ {d} : dist'[x].incoming = dist[x].incoming,
         \A x \in DistId \ {d}, a \in Told : \A m : IsTold(x, m, a)' <=> IsTold(x, m, a),
         NEW j \in Incoming, NEW a \in Told
  PROVE  /\ \A x : x \in LogRows(j, a)'
                     <=> x \in LogRows(j, a) \/ (j = i /\ \E m : IsTold(d, m, a)' /\ x = <<d, m>>)
         /\ \A m : <<d, m>> \notin LogRows(j, a)
<1>1. \A m : ~ IsTold(d, m, a)
  BY DEF FreshIds, IsTold
<1>2. dist[d].incoming = None /\ i # None /\ j # None
  BY DistributionAssumption DEF Existing, Exists
<1>3. \A y : /\ y \in DistsOf(j) <=> y \in DistId /\ dist[y].incoming = j
             /\ y \in DistsOf(j)' <=> y \in DistId /\ dist'[y].incoming = j
  BY DEF DistsOf
<1>4. ASSUME NEW x
      PROVE  x \in LogRows(j, a)'
               <=> x \in LogRows(j, a) \/ (j = i /\ \E m : IsTold(d, m, a)' /\ x = <<d, m>>)
  <2>1. x \in LogRows(j, a)' <=> \E y \in DistsOf(j)' : \E m : IsTold(y, m, a)' /\ x = <<y, m>>
    BY InLogRows DEF LogRowsAreTold
  <2>2. x \in LogRows(j, a) <=> \E y \in DistsOf(j) : \E m : IsTold(y, m, a) /\ x = <<y, m>>
    BY InLogRows DEF LogRowsAreTold
  <2>3. \A y \in DistId \ {d} : y \in DistsOf(j)' <=> y \in DistsOf(j)
    BY <1>3
  <2>4. d \in DistsOf(j)' <=> j = i
    BY <1>3
  <2>5. \A y \in DistsOf(j) : y \in DistId \ {d}
    BY <1>2, <1>3
  <2>6. \A y \in DistsOf(j)' : y \in DistId
    BY <1>3
  <2> QED
    BY <2>1, <2>2, <2>3, <2>4, <2>5, <2>6
<1>5. ASSUME NEW m, <<d, m>> \in LogRows(j, a) PROVE FALSE
  <2>1. \E y \in DistsOf(j) : \E k : IsTold(y, k, a) /\ <<d, m>> = <<y, k>>
    BY <1>5, InLogRows DEF LogRowsAreTold
  <2> QED
    BY <1>1, <2>1
<1> QED
  BY <1>4, <1>5
\* No row of the audit trail is ever taken back.
LEMMA AuditGrows ==
  ASSUME DistTypeOK, DistNext, NEW i \in Incoming, NEW a \in AuditAction
  PROVE  audit'[i][a] >= audit[i][a]
<1>1. audit \in [Incoming -> [AuditAction -> Nat]]
  BY DEF DistTypeOK
<1>2. ASSUME NEW j, NEW b, AddAudit(j, b) PROVE audit'[i][a] >= audit[i][a]
  BY <1>1, <1>2 DEF AddAudit
<1>3. CASE UNCHANGED audit
  BY <1>1, <1>3
<1> QED
  BY <1>2, <1>3 DEF DistNext, createIncoming, forwardRead, forwardCommit, statusRead,
     statusCommit, requestFails, updateDistributionSLA, assignDistribution,
     addDistributionNote, updateSettings, tick

\* The registration of a record leaves no log row.
CreationUnlogged ==
  \A d \in DistId : \A n \in DOMAIN log[d] : log[d][n].why # "CREATE_INCOMING"

LEMMA CreationUnloggedStep == DistTypeOK /\ CreationUnlogged /\ DistNext => CreationUnlogged'
<1> SUFFICES ASSUME DistTypeOK, CreationUnlogged, DistNext, NEW d \in DistId
             PROVE  \A n \in DOMAIN log'[d] : log'[d][n].why # "CREATE_INCOMING"
  BY DEF CreationUnlogged
<1>1. log[d] \in Seq(LogEntry)
  BY DEF DistTypeOK
<1>2. \A n \in DOMAIN log[d] : log[d][n].why # "CREATE_INCOMING"
  BY DEF CreationUnlogged
<1>3. CASE log'[d] = log[d]
  BY <1>2, <1>3
<1>4. ASSUME NEW e, log'[d] = Append(log[d], e), e.why # "CREATE_INCOMING"
      PROVE  \A n \in DOMAIN log'[d] : log'[d][n].why # "CREATE_INCOMING"
  BY <1>1, <1>2, <1>4
<1>5. Entry("FORWARD", None, "Open", 0).why # "CREATE_INCOMING"
  BY DEF Entry
<1> QED
  BY <1>3, <1>4, <1>5, HandlerStep DEF Untouched, Opened, Handled

\* What a request has read of a distribution's record stays true.
StatusReads ==
  \A r \in Request : req[r].op = "status" =>
    /\ req[r].dist \in Existing
    /\ dist[req[r].dist].incoming = req[r].incoming

LEMMA StatusReadsKept == DistTypeOK /\ StatusReads /\ DistNext => StatusReads'
<1> SUFFICES ASSUME DistTypeOK, StatusReads, DistNext, NEW r \in Request, req'[r].op = "status"
             PROVE  /\ req'[r].dist \in Existing'
                    /\ dist'[req'[r].dist].incoming = req'[r].incoming
  BY DEF StatusReads
<1>1. req \in [Request -> Reads]
  BY DEF DistTypeOK
<1>2. CASE req'[r] = req[r]
  BY <1>2, DistStillExists DEF StatusReads
<1>3. ASSUME NEW d \in DistId, statusRead(r, d)
      PROVE  /\ req'[r].dist \in Existing'
             /\ dist'[req'[r].dist].incoming = req'[r].incoming
  <2>1. req'[r].dist = d /\ req'[r].incoming = dist[d].incoming /\ d \in Existing
    BY <1>1, <1>3 DEF statusRead, Existing
  <2> QED
    BY <2>1, DistStillExists
<1>4. ASSUME NEW q \in Request, NEW i \in Incoming, NEW c \in BOOLEAN, forwardRead(q, i, c)
      PROVE  req'[r] = req[r]
  BY <1>1, <1>4 DEF forwardRead
<1>5. ASSUME NEW q \in Request, req' = [req EXCEPT ![q] = Idle]
      PROVE  req'[r] = req[r]
  BY <1>1, <1>5 DEF Idle
<1>6. ASSUME NEW q \in Request, NEW d \in DistId, statusRead(q, d), q # r
      PROVE  req'[r] = req[r]
  BY <1>1, <1>6 DEF statusRead
<1>7. CASE UNCHANGED req
  BY <1>2, <1>7
<1> QED
  BY <1>2, <1>3, <1>4, <1>5, <1>6, <1>7
     DEF DistNext, createIncoming, forwardCommit, statusCommit, requestFails,
         updateDistributionSLA, assignDistribution, addDistributionNote, updateSettings, tick

\* FreshIds and StatusReads are what Audited needs to be inductive: the rows of
\* a new distribution are its own, and a status change is audited where the
\* distribution was when it was read.
LEMMA HandlersAudit ==
  ASSUME DistTypeOK, FreshIds, StatusReads, Audited, DistNext
  PROVE  Audited'
<1>2. /\ dist \in [DistId -> Row] /\ log \in [DistId -> Seq(LogEntry)]
      /\ audit \in [Incoming -> [AuditAction -> Nat]] /\ now \in Nat
      /\ \A r \in Request : req[r] \in Reads
  BY DistributionAssumption DEF DistTypeOK
<1>3. FreeIds # {} => NewId \in DistId \ Existing
  BY DEF NewId, FreeIds, Existing
<1>4. ASSUME NEW i \in Incoming, createIncoming(i) PROVE Audited'
  <2> PICK d \in DistId \ Existing : d = NewId
    BY <1>3, <1>4 DEF createIncoming
  <2>1. PICK due \in DueChoices : dist' = [dist EXCEPT ![d] = OpenRow(i, due, None)]
    BY <1>4 DEF createIncoming
  <2>2. /\ dist'[d].incoming = i
        /\ \A x \in DistId \ {d} : dist'[x].incoming = dist[x].incoming
    BY <1>2, <2>1 DEF OpenRow
  <2>3. \A x \in DistId, a \in Told : \A m : IsTold(x, m, a)' <=> IsTold(x, m, a)
    BY <1>4 DEF createIncoming, IsTold
  <2>4. \A a \in Told : \A m : ~ IsTold(d, m, a)'
    BY <2>3 DEF FreshIds, IsTold
  <2>5. ASSUME NEW j \in Incoming, NEW a \in Told PROVE LogRows(j, a)' = LogRows(j, a)
    <3>1. \A x : x \in LogRows(j, a)' <=> x \in LogRows(j, a)
      BY <2>2, <2>3, <2>4, RowsBegin
    <3> QED
      BY <3>1
  <2>6. \A j \in Incoming, a \in Told : audit'[j][a] = audit[j][a]
    BY <1>2, <1>4 DEF createIncoming, AddAudit, Told
  <2> QED
    BY <2>5, <2>6, NothingCounted
<1>5. ASSUME NEW r \in Request, forwardCommit(r) PROVE Audited'
  <2> PICK d \in DistId \ Existing : d = NewId
    BY <1>3, <1>5 DEF forwardCommit
  <2>1. PICK i \in Incoming : i = req[r].incoming
    BY <1>2, <1>5 DEF forwardCommit, DistTypeOK, Reads
  <2>2. req[r].dist # d
    <3>1. req[r].dist # None => Exists(req[r].dist)
      BY <1>5 DEF forwardCommit, Writable
    <3>2. d # None /\ ~ Exists(d)
      BY DistributionAssumption DEF Existing
    <3> QED
      BY <3>1, <3>2
  <2>3. /\ dist'[d].incoming = i
        /\ \A x \in DistId \ {d} : dist'[x].incoming = dist[x].incoming
    <3>1. PICK due \in DueChoices, u \in User \cup {None} :
            dist' = [x \in DistId |->
                       CASE x = NewId -> OpenRow(req[r].incoming, due, u)
                         [] x = req[r].dist -> [dist[x] EXCEPT !.status = "Closed",
                                                               !.lastUpdateAt = now]
                         [] OTHER -> dist[x]]
      BY <1>5 DEF forwardCommit
    <3>2. dist'[d] = OpenRow(i, due, u)
      BY <2>1, <2>2, <3>1
    <3>3. ASSUME NEW x \in DistId \ {d} PROVE dist'[x].incoming = dist[x].incoming
      <4>1. \/ dist'[x] = [dist[x] EXCEPT !.status = "Closed", !.lastUpdateAt = now]
            \/ dist'[x] = dist[x]
        BY <3>1
      <4> QED
        BY <1>2, <4>1 DEF Row
    <3> QED
      BY <3>2, <3>3 DEF OpenRow
  <2>4. /\ log'[d] = Append(log[d], Entry("FORWARD", None, "Open", 0))
        /\ \A x \in DistId \ {d} :
             \/ log'[x] = log[x]
             \/ log'[x] = Append(log[x], Entry("AUTO_CLOSE", req[r].seen, "Closed", 0))
    BY <1>5, <2>2 DEF forwardCommit
  <2>5. \A x \in DistId \ {d}, a \in Told : \A m : IsTold(x, m, a)' <=> IsTold(x, m, a)
    <3> SUFFICES ASSUME NEW x \in DistId \ {d}, NEW a \in Told, NEW m
                 PROVE  IsTold(x, m, a)' <=> IsTold(x, m, a)
      OBVIOUS
    <3> DEFINE e == Entry("AUTO_CLOSE", req[r].seen, "Closed", 0)
    <3>1. e.why # a
      BY DEF Entry, Told, AuditAction
    <3>2. log'[x] = log[x] \/ log'[x] = Append(log[x], e)
      BY <2>4
    <3> HIDE DEF e
    <3>3. log[x] \in Seq(LogEntry)
      BY <1>2
    <3> QED
      BY <3>1, <3>2, <3>3 DEF IsTold
  <2>6. \A a \in Told : \A m : IsTold(d, m, a)' <=> a = "FORWARD" /\ m = 1
    <3> DEFINE e == Entry("FORWARD", None, "Open", 0)
    <3>1. log'[d] = Append(<<>>, e)
      BY <2>4 DEF FreshIds
    <3>2. e.why = "FORWARD"
      BY DEF Entry
    <3> HIDE DEF e
    <3> QED
      BY <3>1, <3>2 DEF IsTold
  <2>7. "FORWARD" \in Told
    BY DEF Told, AuditAction
  <2>8. ASSUME NEW j \in Incoming, NEW a \in Told
        PROVE  /\ \A x : x \in LogRows(j, a)'
                           <=> x \in LogRows(j, a) \/ (j = i /\ a = "FORWARD" /\ x = <<d, 1>>)
               /\ <<d, 1>> \notin LogRows(j, a)
    <3>1. /\ \A x : x \in LogRows(j, a)'
                     <=> x \in LogRows(j, a) \/ (j = i /\ \E m : IsTold(d, m, a)' /\ x = <<d, m>>)
          /\ \A m : <<d, m>> \notin LogRows(j, a)
      BY <2>3, <2>5, RowsBegin
    <3> QED
      BY <2>6, <3>1
  <2>9. LogRows(i, "FORWARD")' = LogRows(i, "FORWARD") \cup {<<d, 1>>}
    BY <2>7, <2>8
  <2>10. ASSUME NEW j \in Incoming, NEW a \in Told, j # i \/ a # "FORWARD"
         PROVE  LogRows(j, a)' = LogRows(j, a)
    <3>1. \A x : x \in LogRows(j, a)' <=> x \in LogRows(j, a)
      BY <2>8, <2>10
    <3> QED
      BY <3>1
  <2>11. AddAudit(i, "FORWARD")
    BY <1>5, <2>1 DEF forwardCommit
  <2> QED
    BY <2>7, <2>8, <2>9, <2>10, <2>11, RowCounted
<1>6. ASSUME NEW d \in Existing, NEW e \in LogEntry, e.why \in Told,
             AddLog(d, e), AddAudit(dist[d].incoming, e.why),
             \A x \in DistId : dist'[x].incoming = dist[x].incoming
      PROVE  Audited'
  BY <1>6, RowAdded
<1>7. ASSUME NEW r \in Request, NEW s \in Status, statusCommit(r, s) PROVE Audited'
  <2> DEFINE d == req[r].dist
             e == Entry("DIST_STATUS", req[r].seen, s, 0)
  <2>1. d \in Existing /\ dist[d].incoming = req[r].incoming
    BY <1>7 DEF statusCommit, StatusReads
  <2>2. e \in LogEntry /\ e.why = "DIST_STATUS" /\ "DIST_STATUS" \in Told
    BY <1>2, EntryType DEF Entry, Told, AuditAction, Reads
  <2>3. AddLog(d, e) /\ AddAudit(dist[d].incoming, "DIST_STATUS")
    BY <1>7, <2>1 DEF statusCommit
  <2>4. \A x \in DistId : dist'[x].incoming = dist[x].incoming
    BY <1>2, <1>7 DEF statusCommit, Row
  <2> HIDE DEF d, e
  <2> QED
    BY <1>6, <2>1, <2>2, <2>3, <2>4
<1>8. ASSUME NEW d \in DistId, NEW why \in Told, Writable(d), AddLog(d, Remark(why)),
             AddAudit(dist[d].incoming, why),
             \A x \in DistId : dist'[x].incoming = dist[x].incoming
      PROVE  Audited'
  <2>1. Remark(why) \in LogEntry /\ Remark(why).why = why
    BY RemarkType DEF Remark, Entry, Told
  <2>2. d \in Existing
    BY <1>8 DEF Writable, Existing
  <2> QED
    BY <1>6, <1>8, <2>1, <2>2
<1>9. ASSUME NEW d \in DistId, updateDistributionSLA(d) PROVE Audited'
  <2>1. \A x \in DistId : dist'[x].incoming = dist[x].incoming
    BY <1>2, <1>9 DEF updateDistributionSLA, Row
  <2> QED
    BY <1>8, <1>9, <2>1 DEF updateDistributionSLA, Told, AuditAction
<1>10. ASSUME NEW d \in DistId, NEW u \in User, assignDistribution(d, u) PROVE Audited'
  <2>1. \A x \in DistId : dist'[x].incoming = dist[x].incoming
    BY <1>2, <1>10 DEF assignDistribution, Row
  <2> QED
    BY <1>8, <1>10, <2>1 DEF assignDistribution, Told, AuditAction
<1>11. ASSUME NEW d \in DistId, addDistributionNote(d) PROVE Audited'
  <2>1. \A x \in DistId : dist'[x].incoming = dist[x].incoming
    BY <1>2, <1>11 DEF addDistributionNote, Row
  <2> QED
    BY <1>8, <1>11, <2>1 DEF addDistributionNote, Told, AuditAction
<1>12. CASE UNCHANGED <<dist, log, audit>>
  BY <1>12, NothingCounted DEF LogRows, DistsOf
<1> QED
  BY <1>4, <1>5, <1>7, <1>9, <1>10, <1>11, <1>12, DistributionAssumption
     DEF DistNext, forwardRead, statusRead, requestFails, updateSettings, tick

\* Before anything is registered nothing is told anywhere.
LEMMA AuditBegins == DistInit => FreshIds /\ StatusReads /\ Audited /\ CreationUnlogged
<1> SUFFICES ASSUME DistInit PROVE FreshIds /\ StatusReads /\ Audited /\ CreationUnlogged
  OBVIOUS
<1>1. \A d \in DistId : log[d] = <<>>
  BY DEF DistInit
<1>2. \A i \in Incoming, a \in Told : audit[i][a] = 0
  BY DEF DistInit, Told
<1>3. ASSUME NEW i \in Incoming, NEW a \in Told PROVE LogRows(i, a) = {}
  <2>1. \A d \in DistsOf(i) : \A n : ~ IsTold(d, n, a)
    BY <1>1 DEF DistsOf, IsTold
  <2> QED
    BY <2>1, InLogRows DEF LogRowsAreTold
<1>4. Audited
  BY <1>2, <1>3, FS_EmptySet DEF Audited
<1>5. StatusReads
  BY DEF DistInit, Idle, StatusReads
<1> QED
  BY <1>1, <1>4, <1>5 DEF FreshIds, CreationUnlogged

=============================================================================
