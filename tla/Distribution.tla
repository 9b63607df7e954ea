---------------------------- MODULE Distribution ----------------------------
(***************************************************************************)
(* The life of the distributions of an incoming record: the commands of    *)
(* src/src/incoming/incoming.service.ts on IncomingDistribution,           *)
(* IncomingDistributionLog and AuditTrail.                                 *)
(*                                                                         *)
(* PostgreSQL runs every handler's transaction at Read Committed.  A read  *)
(* takes no lock and sees the last committed row; the first UPDATE locks   *)
(* the row until commit.  A handler that uses what it read is therefore    *)
(* two steps, the read and the commit of all its writes together; one      *)
(* that reads only what never changes (the document of a distribution) is  *)
(* one step.  A handler that fails or whose process dies commits nothing.  *)
(***************************************************************************)
EXTENDS SlaInfo, Sequences

CONSTANTS
  Incoming,     \* incoming records
  DistId,       \* ids a distribution can get: bounds their number
  User,         \* users a distribution can be assigned to
  Request,      \* handlers that can be in progress at once
  StatusChoices,\* statuses clients ask for
  DueChoices,   \* deadlines a client gives a new distribution
  DueEdits,     \* deadlines a client gives in an SLA update
  Configs,      \* threshold settings an administrator chooses from
  DefaultConfig,\* the settings in force before any update
  MaxTime,      \* bound on the clock
  MaxLog        \* bound on the log rows requests add to a distribution

ASSUME DistributionAssumption ==
  /\ None \notin Incoming \cup DistId \cup User \cup Status
  /\ StatusChoices \subseteq Status
  /\ DueChoices \subseteq DueAt
  /\ DueEdits \subseteq DueAt
  /\ DefaultConfig \in Configs
  /\ Configs \subseteq SlaConfig
  /\ MaxTime \in Nat
  /\ MaxLog \in Nat

VARIABLES
  now,     \* the wall clock of the processes
  cfg,     \* the thresholds in SlaSettings
  dist,    \* IncomingDistribution, by id
  log,     \* IncomingDistributionLog, by distribution, in insertion order
  audit,   \* AuditTrail: how many rows of each actionType, by incoming record
  req,     \* what the handlers in progress have read
  locked   \* distributions whose row another open transaction has locked

distVars == <<now, cfg, dist, log, audit, req, locked>>

\* What forwardIncoming looks for when it closes the previous distribution.
ForwardedStatus == {"Open", "InProgress"}

AuditAction == {"CREATE_INCOMING", "FORWARD", "DIST_STATUS",
                "UPDATE_DISTRIBUTION", "ASSIGN", "NOTE", "ESCALATED"}

Row == [incoming : Incoming \cup {None}, status : Status, dueAt : DueAt,
        escalationCount : Nat, assignee : User \cup {None}, lastUpdateAt : Nat]

\* A log row; "why" stands for the text of its note.
LogEntry == [why : AuditAction \cup {"AUTO_CLOSE"}, oldStatus : Status \cup {None},
             newStatus : Status \cup {None}, level : Nat]

Reads == [op : {"none", "forward", "status"}, incoming : Incoming \cup {None},
          dist : DistId \cup {None}, seen : Status \cup {None}]

Idle == [op |-> "none", incoming |-> None, dist |-> None, seen |-> None]

OpenRow(i, due, u) ==
  [incoming |-> i, status |-> "Open", dueAt |-> due, escalationCount |-> 0,
   assignee |-> u, lastUpdateAt |-> now]

NoRow == [incoming |-> None, status |-> "Open", dueAt |-> None,
          escalationCount |-> 0, assignee |-> None, lastUpdateAt |-> 0]

Entry(why, old, new, level) ==
  [why |-> why, oldStatus |-> old, newStatus |-> new, level |-> level]

\* A log row that says nothing of the status.
Remark(why) == Entry(why, None, None, 0)

Exists(d) == dist[d].incoming # None

DistsOf(i) == {d \in DistId : dist[d].incoming = i}

FreeIds == {d \in DistId : ~ Exists(d)}

NewId == CHOOSE d \in FreeIds : TRUE

\* The log rows requests have added: the worker's are not bounded by MaxLog.
RequestRows(d) == {n \in DOMAIN log[d] : log[d][n].why # "ESCALATED"}

\* The log rows of a record that tell of an action.
LogRows(i, action) ==
  UNION {{d} \X {n \in DOMAIN log[d] : log[d][n].why = action} : d \in DistsOf(i)}

\* The row can be updated by a transaction that did not lock it itself.
Writable(d) ==
  Exists(d) /\ d \notin locked /\ Cardinality(RequestRows(d)) < MaxLog

AddLog(d, entry) == log' = [log EXCEPT ![d] = Append(@, entry)]

AddAudit(i, action) == audit' = [audit EXCEPT ![i][action] = @ + 1]

----------------------------------------------------------------------------

DistInit ==
  /\ now = 0
  /\ cfg = DefaultConfig
  /\ dist = [d \in DistId |-> NoRow]
  /\ log = [d \in DistId |-> <<>>]
  /\ audit = [i \in Incoming |-> [a \in AuditAction |-> 0]]
  /\ req = [r \in Request |-> Idle]
  /\ locked = {}

\* Registration of an incoming record gives it its first distribution, with
\* no log row.  The record's number and party are in module Registry.
createIncoming(i) ==
  /\ DistsOf(i) = {}
  /\ FreeIds # {}
  /\ \E due \in DueChoices :
       dist' = [dist EXCEPT ![NewId] = OpenRow(i, due, None)]
  /\ AddAudit(i, "CREATE_INCOMING")
  /\ UNCHANGED <<now, cfg, log, req, locked>>

\* The distribution a forward will close: the most recently touched one that
\* is Open or InProgress.  An Escalated one is not looked for.
LastOpen(i) ==
  LET open == {d \in DistsOf(i) : dist[d].status \in ForwardedStatus}
  IN {d \in open : \A e \in open : dist[e].lastUpdateAt <= dist[d].lastUpdateAt}

forwardRead(r, i, closePrevious) ==
  /\ req[r] = Idle
  /\ DistsOf(i) # {}
  /\ \E prev \in IF closePrevious /\ LastOpen(i) # {} THEN LastOpen(i) ELSE {None} :
       req' = [req EXCEPT ![r] =
                 [op |-> "forward", incoming |-> i, dist |-> prev,
                  seen |-> IF prev = None THEN None ELSE dist[prev].status]]
  /\ UNCHANGED <<now, cfg, dist, log, audit, locked>>

\* Closes what was read, whatever its status is by now, and opens the new one.
forwardCommit(r) ==
  LET i == req[r].incoming
      prev == req[r].dist
  IN /\ req[r].op = "forward"
     /\ prev # None => Writable(prev)
     /\ FreeIds # {}
     /\ \E due \in DueChoices, u \in User \cup {None} :
          dist' = [d \in DistId |->
                     CASE d = NewId -> OpenRow(i, due, u)
                       [] d = prev  -> [dist[d] EXCEPT !.status = "Closed",
                                                       !.lastUpdateAt = now]
                       [] OTHER     -> dist[d]]
     /\ log' = [d \in DistId |->
                  CASE d = NewId -> Append(log[d], Entry("FORWARD", None, "Open", 0))
                    [] d = prev  -> Append(log[d], Entry("AUTO_CLOSE", req[r].seen, "Closed", 0))
                    [] OTHER     -> log[d]]
     /\ AddAudit(i, "FORWARD")
     /\ req' = [req EXCEPT ![r] = Idle]
     /\ UNCHANGED <<now, cfg, locked>>

statusRead(r, d) ==
  /\ req[r] = Idle
  /\ Exists(d)
  /\ req' = [req EXCEPT ![r] = [op |-> "status", incoming |-> dist[d].incoming,
                                dist |-> d, seen |-> dist[d].status]]
  /\ UNCHANGED <<now, cfg, dist, log, audit, locked>>

\* Fault: no log row when the status asked for is the one that was read.
statusCommitUnlogged(r, status) ==
  LET d == req[r].dist
  IN /\ req[r].op = "status"
     /\ Writable(d)
     /\ dist' = [dist EXCEPT ![d].status = status, ![d].lastUpdateAt = now]
     /\ IF status = req[r].seen THEN UNCHANGED log
        ELSE AddLog(d, Entry("DIST_STATUS", req[r].seen, status, 0))
     /\ AddAudit(req[r].incoming, "DIST_STATUS")
     /\ req' = [req EXCEPT ![r] = Idle]
     /\ UNCHANGED <<now, cfg, locked>>

\* Any status may follow any other one.
statusCommit(r, status) ==
  LET d == req[r].dist
  IN /\ req[r].op = "status"
     /\ Writable(d)
     /\ dist' = [dist EXCEPT ![d].status = status, ![d].lastUpdateAt = now]
     /\ AddLog(d, Entry("DIST_STATUS", req[r].seen, status, 0))
     /\ AddAudit(req[r].incoming, "DIST_STATUS")
     /\ req' = [req EXCEPT ![r] = Idle]
     /\ UNCHANGED <<now, cfg, locked>>

\* A failed statement or commit, or the death of the API process.
requestFails(r) ==
  /\ req[r] # Idle
  /\ req' = [req EXCEPT ![r] = Idle]
  /\ UNCHANGED <<now, cfg, dist, log, audit, locked>>

\* dueAt undefined in the payload keeps the deadline; escalationCount stays.
updateDistributionSLA(d) ==
  /\ Writable(d)
  /\ \E due \in {dist[d].dueAt} \cup DueEdits :
       dist' = [dist EXCEPT ![d].dueAt = due, ![d].lastUpdateAt = now]
  /\ AddLog(d, Remark("UPDATE_DISTRIBUTION"))
  /\ AddAudit(dist[d].incoming, "UPDATE_DISTRIBUTION")
  /\ UNCHANGED <<now, cfg, req, locked>>

assignDistribution(d, u) ==
  /\ Writable(d)
  /\ dist' = [dist EXCEPT ![d].assignee = u, ![d].lastUpdateAt = now]
  /\ AddLog(d, Remark("ASSIGN"))
  /\ AddAudit(dist[d].incoming, "ASSIGN")
  /\ UNCHANGED <<now, cfg, req, locked>>

addDistributionNote(d) ==
  /\ Writable(d)
  /\ dist' = [dist EXCEPT ![d].lastUpdateAt = now]
  /\ AddLog(d, Remark("NOTE"))
  /\ AddAudit(dist[d].incoming, "NOTE")
  /\ UNCHANGED <<now, cfg, req, locked>>

\* The administrator saves other thresholds (SlaService.updateSettings).
\* getSettings stores, where there is no row yet, the ones that hold already.
updateSettings(c) ==
  /\ cfg' = c
  /\ UNCHANGED <<now, dist, log, audit, req, locked>>

tick ==
  /\ now < MaxTime
  /\ now' = now + 1
  /\ UNCHANGED <<cfg, dist, log, audit, req, locked>>

DistNext ==
  \/ \E i \in Incoming : createIncoming(i)
  \/ \E r \in Request, i \in Incoming, close \in BOOLEAN : forwardRead(r, i, close)
  \/ \E r \in Request : forwardCommit(r)
  \/ \E r \in Request, d \in DistId : statusRead(r, d)
  \/ \E r \in Request, s \in StatusChoices : statusCommit(r, s)
  \/ \E r \in Request : requestFails(r)
  \/ \E d \in DistId : updateDistributionSLA(d)
  \/ \E d \in DistId, u \in User : assignDistribution(d, u)
  \/ \E d \in DistId : addDistributionNote(d)
  \/ \E c \in Configs : updateSettings(c)
  \/ tick

----------------------------------------------------------------------------

DistTypeOK ==
  /\ now \in 0 .. MaxTime
  /\ cfg \in Configs
  /\ dist \in [DistId -> Row]
  /\ log \in [DistId -> Seq(LogEntry)]
  /\ audit \in [Incoming -> [AuditAction -> Nat]]
  /\ req \in [Request -> Reads]
  /\ \A r \in Request :
       /\ req[r].op # "none" => req[r].incoming # None
       /\ req[r].op = "status" => req[r].dist # None

=============================================================================
