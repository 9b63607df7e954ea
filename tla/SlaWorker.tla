----------------------------- MODULE SlaWorker -----------------------------
(***************************************************************************)
(* The SLA worker (src/src/worker.ts), a process of its own, running       *)
(* beside the handlers of module Distribution on the same database.        *)
(*                                                                         *)
(* A scan fixes its clock, loads the thresholds, reads every overdue       *)
(* distribution in one query, and then escalates them one transaction at a *)
(* time from what that query returned.  main awaits the first scan and     *)
(* then starts a scan every INTERVAL_MS, whether or not the one before has *)
(* finished: Scan is the set of scans that can be under way at once.       *)
(***************************************************************************)
EXTENDS Distribution

CONSTANTS
  Scan,       \* scans that can be under way at once
  Admin       \* user 1, notified of a distribution nobody is assigned to

ASSUME SlaWorkerAssumption == Admin \in User

\* What the process can run at once and the table can hold is finite.
ASSUME FiniteAssumption == IsFiniteSet(Scan) /\ IsFiniteSet(DistId)

VARIABLES
  notification,  \* Notification rows the worker created, by what identifies them
  worker,        \* the process: stopped, in main's first scan, or past it
  scan           \* the local state of each scan

vars == <<now, cfg, dist, log, audit, req, locked, notification, worker, scan>>

\* The rows the duplicate check compares: the title names the level, the
\* body and the link name the incoming record.
NoticeKey == [userId : User, incoming : Incoming, level : Levels]

\* An overdue distribution as the query returned it, with its target level.
Work == [dist : DistId, seen : Status, target : Levels]

ScanState == [pc : {"idle", "started", "configured", "looping", "inTx"},
              now : Nat, cfg : Configs, todo : SUBSET Work,
              cur : Work \cup {None}, existing : BOOLEAN]

IdleScan == [pc |-> "idle", now |-> 0, cfg |-> DefaultConfig, todo |-> {},
             cur |-> None, existing |-> FALSE]

Recipient(d) == IF dist[d].assignee = None THEN Admin ELSE dist[d].assignee

Notice(w) == [userId |-> Recipient(w.dist), incoming |-> dist[w.dist].incoming,
              level |-> w.target]

----------------------------------------------------------------------------

Init ==
  /\ DistInit
  /\ notification = [k \in NoticeKey |-> 0]
  /\ worker = "stopped"
  /\ scan = [s \in Scan |-> IdleScan]

startWorker ==
  /\ worker = "stopped"
  /\ worker' = "firstScan"
  /\ UNCHANGED <<distVars, notification, scan>>

\* Fault: the open transactions of a dead worker keep their locks.
crashWorkerKeepsLocks ==
  /\ worker # "stopped"
  /\ worker' = "stopped"
  /\ scan' = [s \in Scan |-> IdleScan]
  /\ UNCHANGED <<distVars, notification>>

\* Everything a scan knows is lost; an open transaction is rolled back.
crashWorker ==
  /\ worker # "stopped"
  /\ worker' = "stopped"
  /\ scan' = [s \in Scan |-> IdleScan]
  /\ locked' = {}
  /\ UNCHANGED <<now, cfg, dist, log, audit, req, notification>>

startScan(s) ==
  /\ scan[s].pc = "idle"
  /\ \/ worker = "periodic"
     \/ worker = "firstScan" /\ \A t \in Scan : scan[t].pc = "idle"
  /\ scan' = [scan EXCEPT ![s].pc = "started", ![s].now = now]
  /\ UNCHANGED <<distVars, notification, worker>>

\* The settings in force, or the built-in ones when the query fails.
loadSlaConfig(s, c) ==
  /\ scan[s].pc = "started"
  /\ c \in {cfg, DefaultConfig}
  /\ scan' = [scan EXCEPT ![s].pc = "configured", ![s].cfg = c]
  /\ UNCHANGED <<distVars, notification, worker>>

\* Fault: one level up each time, as EscalationWorker (escalation/) does it.
TargetOfNextLevel(s, d) == dist[d].escalationCount + 1

TargetOf(s, d) == computeTargetLevel(dist[d].dueAt, scan[s].cfg, scan[s].now)

\* Fault: skips a distribution at its target level, but not one above it.
IsSelectedAnyChange(s, d) ==
  /\ Exists(d)
  /\ dist[d].status \in {"Open", "InProgress", "Escalated"}
  /\ IsPastDue(dist[d].dueAt, scan[s].now)
  /\ TargetOf(s, d) # dist[d].escalationCount

\* Fault: the query leaves out what has been escalated before.
IsSelectedOnce(s, d) ==
  /\ Exists(d)
  /\ dist[d].status \in {"Open", "InProgress"}
  /\ IsPastDue(dist[d].dueAt, scan[s].now)
  /\ TargetOf(s, d) > dist[d].escalationCount

\* The distributions the query returns and the loop does not skip.  What is
\* skipped depends only on what the query returned.
IsSelected(s, d) ==
  /\ Exists(d)
  /\ dist[d].status \in {"Open", "InProgress", "Escalated"}
  /\ IsPastDue(dist[d].dueAt, scan[s].now)
  /\ TargetOf(s, d) > dist[d].escalationCount

findOverdue(s) ==
  /\ scan[s].pc = "configured"
  /\ scan' = [scan EXCEPT
       ![s].pc = "looping",
       ![s].todo = {[dist |-> d, seen |-> dist[d].status, target |-> TargetOf(s, d)] :
                      d \in {e \in DistId : IsSelected(s, e)}}]
  /\ UNCHANGED <<distVars, notification, worker>>

AfterScan == IF worker = "firstScan" THEN "periodic" ELSE worker

finishScan(s) ==
  /\ scan[s].pc = "looping"
  /\ scan[s].todo = {}
  /\ scan' = [scan EXCEPT ![s] = IdleScan]
  /\ worker' = AfterScan
  /\ UNCHANGED <<distVars, notification>>

\* The query fails.  After the first scan this only ends the scan; in the
\* first one it ends main before setInterval is reached.
scanThrows(s) ==
  /\ scan[s].pc = "configured"
  /\ scan' = [scan EXCEPT ![s] = IdleScan]
  /\ worker' = IF worker = "firstScan" THEN "stopped" ELSE worker
  /\ UNCHANGED <<distVars, notification>>

\* Fault: the notification looked for may be of any level.
beginEscalationAnyLevel(s, w) ==
  /\ scan[s].pc = "looping"
  /\ w \in scan[s].todo
  /\ w.dist \notin locked
  /\ locked' = locked \cup {w.dist}
  /\ scan' = [scan EXCEPT ![s].pc = "inTx", ![s].cur = w,
                          ![s].existing = \E l \in Levels :
                            notification[[Notice(w) EXCEPT !.level = l]] > 0]
  /\ UNCHANGED <<now, cfg, dist, log, audit, req, notification, worker>>

\* The transaction up to its last read: the UPDATE locks the row, and the
\* notification that would be created is looked for.
beginEscalation(s, w) ==
  /\ scan[s].pc = "looping"
  /\ w \in scan[s].todo
  /\ w.dist \notin locked
  /\ locked' = locked \cup {w.dist}
  /\ scan' = [scan EXCEPT ![s].pc = "inTx", ![s].cur = w,
                          ![s].existing = notification[Notice(w)] > 0]
  /\ UNCHANGED <<now, cfg, dist, log, audit, req, notification, worker>>

DoneWith(s) == [scan EXCEPT ![s].pc = "looping", ![s].cur = None, ![s].existing = FALSE,
                            ![s].todo = @ \ {scan[s].cur}]

\* Fault: a notification is created without looking for an equal one.
commitEscalationUnchecked(s) ==
  LET w == scan[s].cur
      d == w.dist
  IN /\ scan[s].pc = "inTx"
     /\ dist' = [dist EXCEPT ![d].status = "Escalated", ![d].escalationCount = w.target,
                             ![d].lastUpdateAt = now]
     /\ AddLog(d, Entry("ESCALATED", w.seen, "Escalated", w.target))
     /\ AddAudit(dist[d].incoming, "ESCALATED")
     /\ notification' = [notification EXCEPT ![Notice(w)] = @ + 1]
     /\ locked' = locked \ {d}
     /\ scan' = DoneWith(s)
     /\ UNCHANGED <<now, cfg, req, worker>>

\* The UPDATE does not look at the status and the level it overwrites; the
\* log row names the status the query returned.
commitEscalation(s) ==
  LET w == scan[s].cur
      d == w.dist
  IN /\ scan[s].pc = "inTx"
     /\ dist' = [dist EXCEPT ![d].status = "Escalated", ![d].escalationCount = w.target,
                             ![d].lastUpdateAt = now]
     /\ AddLog(d, Entry("ESCALATED", w.seen, "Escalated", w.target))
     /\ AddAudit(dist[d].incoming, "ESCALATED")
     /\ notification' = IF scan[s].existing THEN notification
                        ELSE [notification EXCEPT ![Notice(w)] = @ + 1]
     /\ locked' = locked \ {d}
     /\ scan' = DoneWith(s)
     /\ UNCHANGED <<now, cfg, req, worker>>

\* Fault: the audit row is written outside the transaction and survives it.
failEscalationKeepsAudit(s) ==
  /\ scan[s].pc = "inTx"
  /\ AddAudit(dist[scan[s].cur.dist].incoming, "ESCALATED")
  /\ locked' = locked \ {scan[s].cur.dist}
  /\ scan' = DoneWith(s)
  /\ UNCHANGED <<now, cfg, dist, log, req, notification, worker>>

\* The transaction fails: the loop goes on with the next distribution.
failEscalation(s) ==
  /\ scan[s].pc = "inTx"
  /\ locked' = locked \ {scan[s].cur.dist}
  /\ scan' = DoneWith(s)
  /\ UNCHANGED <<now, cfg, dist, log, audit, req, notification, worker>>

WorkerNext ==
  \/ startWorker
  \/ crashWorker
  \/ \E s \in Scan :
       \/ startScan(s)
       \/ \E c \in Configs : loadSlaConfig(s, c)
       \/ findOverdue(s)
       \/ finishScan(s)
       \/ scanThrows(s)
       \/ \E w \in scan[s].todo : beginEscalation(s, w)
       \/ commitEscalation(s)
       \/ failEscalation(s)

Next ==
  \/ WorkerNext
  \/ DistNext /\ UNCHANGED <<notification, worker, scan>>

Spec == Init /\ [][Next]_vars

\* A supervisor restarts the worker, setInterval fires again and again, and
\* neither a query nor the transaction of a distribution fails, or is cut off
\* by a crash, every single time it is tried.
Fairness ==
  /\ WF_vars(startWorker)
  /\ \A s \in Scan :
       /\ SF_vars(startScan(s))
       /\ SF_vars(loadSlaConfig(s, cfg))
       /\ SF_vars(findOverdue(s))
       /\ SF_vars(finishScan(s))
       /\ \A d \in DistId :
            /\ SF_vars(\E w \in scan[s].todo : w.dist = d /\ beginEscalation(s, w))
            /\ SF_vars(scan[s].cur # None /\ scan[s].cur.dist = d /\ commitEscalation(s))

FairSpec == Spec /\ Fairness

----------------------------------------------------------------------------
(* Safety *)

WorkerTypeOK ==
  /\ notification \in [NoticeKey -> Nat]
  /\ worker \in {"stopped", "firstScan", "periodic"}
  /\ scan \in [Scan -> ScanState]

InTx == {s \in Scan : scan[s].pc = "inTx"}

\* Every variable has its type, and the locked rows are those on which a scan
\* has a transaction open: no rollback or crash leaks a lock.
TypeOK ==
  /\ DistTypeOK
  /\ WorkerTypeOK
  /\ locked = {scan[s].cur.dist : s \in InTx}

StatusRows(rows) == {n \in DOMAIN rows : rows[n].newStatus # None}

EscalationRows(rows) == {n \in DOMAIN rows : rows[n].why = "ESCALATED"}

IsNewest(n, positions) == \A m \in positions : m <= n

\* Replaying the rows gives the status and the level (no row: Open, level 0).
Replays(rows, status, level) ==
  /\ StatusRows(rows) = {} => status = "Open"
  /\ \A n \in StatusRows(rows) :
       IsNewest(n, StatusRows(rows)) => rows[n].newStatus = status
  /\ EscalationRows(rows) = {} => level = 0
  /\ \A n \in EscalationRows(rows) :
       IsNewest(n, EscalationRows(rows)) => rows[n].level = level

\* A distribution's log can be replayed: whatever handlers and scans overlap,
\* its newest status row carries the row's status and its newest escalation
\* carries the row's level.
RowMatchesLog ==
  \A d \in DistId : Replays(log[d], dist[d].status, dist[d].escalationCount)

\* Nobody is escalated in silence: a notification of the level an escalated
\* distribution has reached exists for its incoming record.
EscalatedIsNotified ==
  \A d \in DistId : dist[d].escalationCount > 0 =>
    \E u \in User :
      notification[[userId |-> u, incoming |-> dist[d].incoming,
                    level |-> dist[d].escalationCount]] > 0

\* One notification of a level for its user and record (the check of worker.ts
\* before it creates a Notification row).  The check is per distribution, so
\* the row is created again only for another distribution of the record, by
\* scans that overlap, and by each of them at most once.
NoticeCopiesBounded ==
  \A k \in NoticeKey :
    \/ notification[k] <= 1
    \/ /\ notification[k] <= Cardinality(Scan)
       /\ notification[k] <= Cardinality(DistsOf(k.incoming))

\* The document's audit trail and the logs of its distributions agree on how
\* often each thing was done; only the automatic closing is not audited.
EveryChangeAudited ==
  \A i \in Incoming : \A a \in AuditAction \ {"CREATE_INCOMING"} :
    Cardinality(LogRows(i, a)) = audit[i][a]

\* The worker escalates distributions that are Open, InProgress or Escalated:
\* only a request takes a distribution out of Closed.
WorkerLeavesClosedAlone ==
  [][\A d \in DistId :
       dist[d].status = "Closed" /\ dist'[d].status # "Closed" => UNCHANGED scan]_vars

\* No distribution stands at a level its lateness has not earned.  This needs
\* deadlines and thresholds that do not move (DueEdits = {}, one config).
EscalationIsEarned ==
  \A d \in DistId :
    dist[d].escalationCount <= computeTargetLevel(dist[d].dueAt, cfg, now)

Deserves(d, level) ==
  /\ dist[d].status # "Closed"
  /\ computeTargetLevel(dist[d].dueAt, cfg, now) >= level

\* Whatever fails on the way, a distribution late enough for a level gets
\* there, unless it is closed or its deadline or the thresholds move.
LateIsEscalated ==
  \A d \in DistId, level \in Levels :
    Deserves(d, level) ~> (dist[d].escalationCount >= level \/ ~ Deserves(d, level))

============================================================================
