------------------------------- MODULE Notices -------------------------------
(***************************************************************************)
(* The notifications of the SLA worker as their users have them:           *)
(* NotificationsService (src/src/notifications/notifications.service.ts)   *)
(* beside module SlaWorker on the same rows.                               *)
(*                                                                         *)
(* A notification is unread until its user says otherwise.  After each     *)
(* commit the worker calls the API, which tells the user's open windows;   *)
(* the loop waits for the call, and whether anybody is told is looked at   *)
(* by nobody: the row is what counts.  A row that would be equal to one    *)
(* the user has is not created, also when that one has been read.          *)
(*                                                                         *)
(* setInterval starts a scan whether or not the one before has finished,   *)
(* and a scan escalates to what its own query and clock said: module       *)
(* SlaWorker lets scans overlap, and here it is noted which escalations    *)
(* another scan had overtaken.                                             *)
(***************************************************************************)
EXTENDS SlaWorker

VARIABLES
  unread,  \* the notifications with status Unread
  push,    \* the notification each scan is pushing, or None
  silent,  \* history: the escalations whose notification was a read one
  behind,  \* history: what a scan has yet to escalate, where another scan has
           \* escalated the same distribution since the query
  crossed  \* history: the log rows, by distribution and position, of
           \* escalations by a scan that was behind

history == <<silent, behind, crossed>>

noticeVars == <<vars, unread, push, history>>

NoticesInit ==
  /\ Init
  /\ unread = {}
  /\ push = [s \in Scan |-> None]
  /\ silent = {}
  /\ behind = {}
  /\ crossed = {}

\* Which scan has yet to escalate what.
ToDo == {p \in Scan \X DistId : \E w \in scan[p[1]].todo : w.dist = p[2]}

\* The distribution being escalated, and its new level.
Escalation(s) == <<scan[s].cur.dist, scan[s].cur.target>>

\* The transaction commits and the push begins, of the new row or the old one.
commitAndPush(s) ==
  LET d == scan[s].cur.dist
      k == Notice(scan[s].cur)
  IN /\ commitEscalation(s)
     /\ unread' = IF scan[s].existing THEN unread ELSE unread \cup {k}
     /\ push' = [push EXCEPT ![s] = k]
     /\ silent' = IF scan[s].existing /\ k \notin unread
                  THEN silent \cup {Escalation(s)} ELSE silent
     /\ behind' = {p \in ToDo' : p \in behind \/ p[2] = d}
     /\ crossed' = IF <<s, d>> \in behind
                   THEN crossed \cup {<<d, Len(log'[d])>>} ELSE crossed

\* Answered, refused or failed: the loop goes on.
pushRealtimeNotification(s) ==
  /\ push[s] # None
  /\ push' = [push EXCEPT ![s] = None]
  /\ UNCHANGED <<vars, unread, history>>

\* A user marks some of those listMy returns.
markRead(u) ==
  /\ \E ids \in SUBSET {k \in unread : k.userId = u} \ {{}} : unread' = unread \ ids
  /\ UNCHANGED <<vars, push, history>>

crashWhilePushing ==
  /\ crashWorker
  /\ push' = [s \in Scan |-> None]
  /\ behind' = {}
  /\ UNCHANGED <<unread, silent, crossed>>

\* What a scan does when it does not wait for a push.
ScanMoves(s) ==
  /\ push[s] = None
  /\ \/ startScan(s)
     \/ \E c \in Configs : loadSlaConfig(s, c)
     \/ findOverdue(s)
     \/ finishScan(s)
     \/ scanThrows(s)
     \/ \E w \in scan[s].todo : beginEscalation(s, w)
     \/ failEscalation(s)
  /\ behind' = behind \cap ToDo'
  /\ UNCHANGED <<unread, push, silent, crossed>>

NoticesNext ==
  \/ startWorker /\ UNCHANGED <<unread, push, history>>
  \/ crashWhilePushing
  \/ \E s \in Scan : ScanMoves(s) \/ commitAndPush(s) \/ pushRealtimeNotification(s)
  \/ \E u \in User : markRead(u)
  \/ DistNext /\ UNCHANGED <<notification, worker, scan, unread, push, history>>

NoticesSpec == NoticesInit /\ [][NoticesNext]_noticeVars

----------------------------------------------------------------------------

\* The escalation at position m of a log is to a higher level than the newest
\* escalation before it.
Rises(rows, m) ==
  LET earlier == {n \in EscalationRows(rows) : n < m}
  IN \A n \in earlier : IsNewest(n, earlier) => rows[n].level < rows[m].level

\* "Same level or lower: do nothing" (runScan): every escalation is to a higher
\* level than the one before it.  Only a scan that another has overtaken since
\* its query may repeat an escalation or take one back; the next is to a
\* higher level again.
EscalationsRise ==
  \A d \in DistId : \A m \in EscalationRows(log[d]) :
    <<d, m>> \notin crossed => Rises(log[d], m)

\* An escalation leaves its user an unread notification, or there was one: if
\* the user had read it by then, another distribution of the record had been
\* escalated to the same level before (its body and link name the record
\* only), or a scan that was behind has repeated an escalation of this one, or
\* taken one back.
SilenceIsExplained ==
  \A e \in silent :
    \/ \E d \in DistsOf(dist[e[1]].incoming) \ {e[1]} :
         \E n \in EscalationRows(log[d]) : log[d][n].level = e[2]
    \/ \E c \in crossed : c[1] = e[1]

=============================================================================
