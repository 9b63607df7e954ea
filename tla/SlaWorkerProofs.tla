-------------------------- MODULE SlaWorkerProofs --------------------------
(***************************************************************************)
(* What holds of SlaWorker, and of Notices which runs beside it, for any   *)
(* number of records, handlers, users and overlapping scans.               *)
(***************************************************************************)
EXTENDS Notices, DistributionProofs

----------------------------------------------------------------------------
(* Type correctness *)

\* The lock of a scan's transaction is its own.
LockExclusive ==
  \A s, t \in InTx : scan[s].cur.dist = scan[t].cur.dist => s = t

\* A scan with a transaction open has a distribution to escalate.
InTxHasWork == \A s \in InTx : scan[s].cur \in Work

\* The type invariant alone is not inductive: without LockExclusive, the
\* commit of one scan could release the lock of another.
TypeInv == TypeOK /\ LockExclusive /\ InTxHasWork

LEMMA TablesTyped == TypeInv => DistTypeOK
BY DEF TypeInv, TypeOK

LEMMA InitTypeOK == Init => TypeInv
<1> SUFFICES ASSUME Init PROVE TypeInv
  OBVIOUS
<1>1. DistTypeOK
  BY DistInitTypeOK DEF Init
<1>2. IdleScan \in ScanState
  BY DistributionAssumption DEF IdleScan, ScanState
<1>3. WorkerTypeOK
  BY <1>2 DEF Init, WorkerTypeOK
<1>4. InTx = {} /\ locked = {}
  BY DEF Init, DistInit, InTx, IdleScan
<1> QED
  BY <1>1, <1>3, <1>4 DEF TypeInv, TypeOK, LockExclusive, InTxHasWork

\* A step of one scan that touches neither transactions nor locks.
LEMMA ScanStepKeepsLocks ==
  ASSUME TypeInv, NEW s \in Scan, NEW x \in ScanState,
         scan[s].pc # "inTx", x.pc # "inTx",
         scan' = [scan EXCEPT ![s] = x],
         worker' \in {"stopped", "firstScan", "periodic"},
         UNCHANGED <<distVars, notification>>
  PROVE  TypeInv'
<1>1. scan \in [Scan -> ScanState]
  BY DEF TypeInv, TypeOK, WorkerTypeOK
<1>2. scan' \in [Scan -> ScanState]
  BY <1>1
<1>3. InTx' = InTx /\ \A t \in InTx : scan'[t] = scan[t]
  BY <1>1 DEF InTx
<1>4. DistTypeOK'
  BY DEF TypeInv, TypeOK, DistTypeOK, distVars
<1>5. WorkerTypeOK'
  BY <1>2 DEF TypeInv, TypeOK, WorkerTypeOK, NoticeKey
<1>6. locked' = {scan'[t].cur.dist : t \in InTx'}
  BY <1>3 DEF TypeInv, TypeOK, distVars
<1>7. LockExclusive' /\ InTxHasWork'
  BY <1>3 DEF TypeInv, LockExclusive, InTxHasWork
<1> QED
  BY <1>4, <1>5, <1>6, <1>7 DEF TypeInv, TypeOK

\* The end of a transaction, whether it commits or fails, gives its lock back.
LEMMA TxEndKeepsLocks ==
  ASSUME TypeInv, NEW s \in Scan, scan[s].pc = "inTx",
         locked' = locked \ {scan[s].cur.dist}, scan' = DoneWith(s)
  PROVE  /\ scan' \in [Scan -> ScanState]
         /\ locked' = {scan'[t].cur.dist : t \in InTx'}
         /\ LockExclusive' /\ InTxHasWork'
<1>1. scan \in [Scan -> ScanState] /\ locked = {scan[t].cur.dist : t \in InTx}
  BY DEF TypeInv, TypeOK, WorkerTypeOK
<1> DEFINE x == [scan[s] EXCEPT !.pc = "looping", !.cur = None, !.existing = FALSE,
                                !.todo = @ \ {scan[s].cur}]
<1>2. scan' = [scan EXCEPT ![s] = x]
  BY <1>1 DEF DoneWith
<1>3. x \in ScanState /\ x.pc = "looping"
  BY <1>1 DEF ScanState
<1>4. scan' \in [Scan -> ScanState]
  BY <1>1, <1>2, <1>3
<1>5. s \in InTx /\ InTx' = InTx \ {s} /\ \A t \in InTx' : scan'[t] = scan[t]
  BY <1>1, <1>2, <1>3 DEF InTx
<1>6. \A t \in InTx' : scan[t].cur.dist # scan[s].cur.dist
  BY <1>5 DEF TypeInv, LockExclusive
<1>7. locked' = {scan'[t].cur.dist : t \in InTx'}
  BY <1>1, <1>5, <1>6
<1>8. LockExclusive' /\ InTxHasWork'
  BY <1>5 DEF TypeInv, LockExclusive, InTxHasWork
<1> QED
  BY <1>4, <1>7, <1>8

\* What the query returns to a scan is work for it.
LEMMA SelectionType ==
  ASSUME TypeInv, NEW s \in Scan, NEW d \in DistId, IsSelected(s, d)
  PROVE  [dist |-> d, seen |-> dist[d].status, target |-> TargetOf(s, d)] \in Work
<1>1. dist[d].status \in Status /\ dist[d].escalationCount \in Nat
  BY DEF TypeInv, TypeOK, DistTypeOK, Row
<1>2. TargetOf(s, d) \in 0 .. 4
  BY TargetLevelType DEF TargetOf
<1>3. TargetOf(s, d) \in Levels
  BY <1>1, <1>2 DEF IsSelected, Levels
<1> QED
  BY <1>1, <1>3 DEF Work

LEMMA WorkerNextTypeOK == TypeInv /\ WorkerNext => TypeInv'
<1> SUFFICES ASSUME TypeInv, WorkerNext PROVE TypeInv'
  OBVIOUS
<1>1. /\ scan \in [Scan -> ScanState]
      /\ notification \in [NoticeKey -> Nat]
      /\ worker \in {"stopped", "firstScan", "periodic"}
      /\ locked = {scan[t].cur.dist : t \in InTx}
  BY DEF TypeInv, TypeOK, WorkerTypeOK
<1>2. /\ now \in Nat /\ cfg \in Configs /\ DefaultConfig \in Configs
      /\ dist \in [DistId -> Row]
      /\ log \in [DistId -> Seq(LogEntry)]
      /\ audit \in [Incoming -> [AuditAction -> Nat]]
  BY DistributionAssumption DEF TypeInv, TypeOK, DistTypeOK
<1>3. IdleScan \in ScanState /\ IdleScan.pc = "idle"
  BY DistributionAssumption DEF IdleScan, ScanState
<1>4. CASE startWorker
  <2>1. UNCHANGED <<distVars, notification, scan>> /\ worker' = "firstScan"
    BY <1>4 DEF startWorker
  <2> QED
    BY <2>1 DEF TypeInv, TypeOK, DistTypeOK, WorkerTypeOK, distVars, InTx,
                LockExclusive, InTxHasWork, NoticeKey
<1>5. CASE crashWorker
  <2>1. InTx' = {} /\ scan' \in [Scan -> ScanState]
    BY <1>3, <1>5 DEF crashWorker, InTx
  <2>2. DistTypeOK' /\ WorkerTypeOK' /\ locked' = {}
    BY <1>5, <2>1 DEF crashWorker, TypeInv, TypeOK, DistTypeOK, WorkerTypeOK, NoticeKey
  <2> QED
    BY <2>1, <2>2 DEF TypeInv, TypeOK, LockExclusive, InTxHasWork
<1>6. ASSUME NEW s \in Scan, startScan(s) PROVE TypeInv'
  <2> DEFINE x == [scan[s] EXCEPT !.pc = "started", !.now = now]
  <2>1. x \in ScanState /\ x.pc = "started" /\ scan' = [scan EXCEPT ![s] = x]
    BY <1>1, <1>2, <1>6 DEF startScan, ScanState
  <2> QED
    BY <1>1, <1>6, <2>1, ScanStepKeepsLocks DEF startScan
<1>7. ASSUME NEW s \in Scan, NEW c \in Configs, loadSlaConfig(s, c) PROVE TypeInv'
  <2> DEFINE x == [scan[s] EXCEPT !.pc = "configured", !.cfg = c]
  <2>1. x \in ScanState /\ x.pc = "configured" /\ scan' = [scan EXCEPT ![s] = x]
    BY <1>1, <1>2, <1>7 DEF loadSlaConfig, ScanState
  <2> QED
    BY <1>1, <1>7, <2>1, ScanStepKeepsLocks DEF loadSlaConfig
<1>8. ASSUME NEW s \in Scan, findOverdue(s) PROVE TypeInv'
  <2> DEFINE T == {[dist |-> d, seen |-> dist[d].status, target |-> TargetOf(s, d)] :
                     d \in {e \in DistId : IsSelected(s, e)}}
             x == [scan[s] EXCEPT !.pc = "looping", !.todo = T]
  <2>1. T \subseteq Work
    BY SelectionType
  <2>2. scan' = [scan EXCEPT ![s] = x]
    BY <1>1, <1>8 DEF findOverdue
  <2> HIDE DEF T
  <2>3. x \in ScanState /\ x.pc = "looping"
    BY <1>1, <2>1 DEF ScanState
  <2>4. scan[s].pc # "inTx" /\ UNCHANGED <<distVars, notification, worker>>
    BY <1>8 DEF findOverdue
  <2> HIDE DEF x
  <2> QED
    BY <1>1, <2>2, <2>3, <2>4, ScanStepKeepsLocks
<1>9. ASSUME NEW s \in Scan, finishScan(s) \/ scanThrows(s) PROVE TypeInv'
  <2>1. /\ scan[s].pc # "inTx"
        /\ scan' = [scan EXCEPT ![s] = IdleScan]
        /\ worker' \in {"stopped", "firstScan", "periodic"}
        /\ UNCHANGED <<distVars, notification>>
    BY <1>1, <1>9 DEF finishScan, scanThrows, AfterScan
  <2> QED
    BY <1>3, <2>1, ScanStepKeepsLocks
<1>10. ASSUME NEW s \in Scan, NEW w \in scan[s].todo, beginEscalation(s, w) PROVE TypeInv'
  <2> DEFINE found == notification[Notice(w)] > 0
             x == [scan[s] EXCEPT !.pc = "inTx", !.cur = w, !.existing = found]
  <2>1. w \in Work
    BY <1>1 DEF ScanState
  <2>2. scan' = [scan EXCEPT ![s] = x]
    BY <1>1, <1>10 DEF beginEscalation
  <2>3. x \in ScanState /\ x.pc = "inTx" /\ x.cur = w
    <3>1. found \in BOOLEAN
      OBVIOUS
    <3> HIDE DEF found
    <3> QED
      BY <1>1, <2>1, <3>1 DEF ScanState
  <2> HIDE DEF x
  <2>4. scan' \in [Scan -> ScanState]
    BY <1>1, <2>2, <2>3
  <2>5. /\ s \notin InTx /\ InTx' = InTx \cup {s}
        /\ scan'[s].cur = w /\ \A t \in InTx : scan'[t] = scan[t]
    BY <1>1, <1>10, <2>2, <2>3 DEF beginEscalation, InTx
  <2>6. locked' = locked \cup {w.dist} /\ w.dist \notin locked
    BY <1>10 DEF beginEscalation
  <2>7. locked' = {scan'[t].cur.dist : t \in InTx'}
    BY <1>1, <2>5, <2>6
  <2>8. \A t \in InTx : scan[t].cur.dist # w.dist
    BY <1>1, <2>6
  <2>9. LockExclusive' /\ InTxHasWork'
    BY <2>1, <2>5, <2>8 DEF TypeInv, LockExclusive, InTxHasWork
  <2>10. DistTypeOK' /\ WorkerTypeOK'
    BY <1>10, <2>4 DEF beginEscalation, TypeInv, TypeOK, DistTypeOK, WorkerTypeOK, NoticeKey
  <2> QED
    BY <2>7, <2>9, <2>10 DEF TypeInv, TypeOK
<1>11. ASSUME NEW s \in Scan, commitEscalation(s) PROVE TypeInv'
  <2>1. scan[s].cur \in Work
    BY <1>11 DEF commitEscalation, TypeInv, InTxHasWork, InTx
  <2> DEFINE w == scan[s].cur
             d == w.dist
  <2>2. d \in DistId /\ w.seen \in Status /\ w.target \in Nat
    BY <2>1 DEF Work, Levels
  <2>3. dist' = [dist EXCEPT ![d] = [@ EXCEPT !.status = "Escalated",
                                     !.escalationCount = w.target, !.lastUpdateAt = now]]
    BY <1>2, <1>11, <2>2 DEF commitEscalation
  <2>4. dist' \in [DistId -> Row]
    <3>1. "Escalated" \in Status
      BY DEF Status
    <3>2. dist[d] \in Row
      BY <1>2, <2>2
    <3>3. [dist[d] EXCEPT !.status = "Escalated", !.escalationCount = w.target,
                          !.lastUpdateAt = now] \in Row
      BY <1>2, <2>2, <3>1, <3>2, RowUpdates
    <3> QED
      BY <1>2, <2>3, <3>3
  <2>5. log' \in [DistId -> Seq(LogEntry)]
    <3>1. Entry("ESCALATED", w.seen, "Escalated", w.target) \in LogEntry
      BY <2>2, EntryType DEF AuditAction, Status
    <3> QED
      BY <1>2, <1>11, <2>2, <3>1, TablesGrow DEF commitEscalation
  <2>6. audit' \in [Incoming -> [AuditAction -> Nat]]
    <3>1. dist[d].incoming \in Incoming \cup {None}
      BY <1>2, <2>2 DEF Row
    <3> QED
      BY <1>2, <1>11, <3>1, TablesGrow DEF commitEscalation, AuditAction
  <2>7. notification' \in [NoticeKey -> Nat]
    <3> DEFINE k == Notice(w)
    <3>1. CASE k \in NoticeKey
      <4>1. notification' = notification \/ notification' = [notification EXCEPT ![k] = @ + 1]
        BY <1>11 DEF commitEscalation
      <4> HIDE DEF k
      <4> QED
        BY <1>1, <3>1, <4>1
    <3>2. CASE k \notin NoticeKey
      <4>1. notification' = notification \/ notification' = [notification EXCEPT ![k] = @ + 1]
        BY <1>11 DEF commitEscalation
      <4> HIDE DEF k
      <4> QED
        BY <1>1, <3>2, <4>1
    <3> QED
      BY <3>1, <3>2
  <2>8. /\ locked' = locked \ {scan[s].cur.dist} /\ scan' = DoneWith(s)
        /\ scan[s].pc = "inTx" /\ UNCHANGED <<now, cfg, req, worker>>
    BY <1>11 DEF commitEscalation
  <2>9. DistTypeOK'
    BY <2>4, <2>5, <2>6, <2>8 DEF TypeInv, TypeOK, DistTypeOK
  <2> QED
    BY <1>1, <2>7, <2>8, <2>9, TxEndKeepsLocks DEF TypeInv, TypeOK, WorkerTypeOK, NoticeKey
<1>12. ASSUME NEW s \in Scan, failEscalation(s) PROVE TypeInv'
  <2>1. /\ locked' = locked \ {scan[s].cur.dist} /\ scan' = DoneWith(s)
        /\ scan[s].pc = "inTx"
        /\ UNCHANGED <<now, cfg, dist, log, audit, req, notification, worker>>
    BY <1>12 DEF failEscalation
  <2>2. DistTypeOK'
    BY <2>1 DEF TypeInv, TypeOK, DistTypeOK
  <2> QED
    BY <1>1, <2>1, <2>2, TxEndKeepsLocks DEF TypeInv, TypeOK, WorkerTypeOK, NoticeKey
<1> QED
  BY <1>4, <1>5, <1>6, <1>7, <1>8, <1>9, <1>10, <1>11, <1>12 DEF WorkerNext

LEMMA TypeInvariance == Spec => []TypeInv
<1>1. Init => TypeInv
  BY InitTypeOK
<1>2. TypeInv /\ [Next]_vars => TypeInv'
  <2> SUFFICES ASSUME TypeInv, [Next]_vars PROVE TypeInv'
    OBVIOUS
  <2>1. CASE WorkerNext
    BY <2>1, WorkerNextTypeOK
  <2>2. CASE DistNext /\ UNCHANGED <<notification, worker, scan>>
    <3>1. DistTypeOK'
      BY <2>2, DistNextTypeOK DEF TypeInv, TypeOK
    <3>2. locked' = locked
      BY <2>2, DistNextKeepsLocks
    <3> QED
      BY <2>2, <3>1, <3>2 DEF TypeInv, TypeOK, WorkerTypeOK, LockExclusive,
                              InTxHasWork, InTx, NoticeKey
  <2>3. CASE UNCHANGED vars
    BY <2>3 DEF vars, TypeInv, TypeOK, DistTypeOK, WorkerTypeOK, LockExclusive,
                InTxHasWork, InTx, NoticeKey
  <2> QED
    BY <2>1, <2>2, <2>3 DEF Next
<1> QED
  BY <1>1, <1>2, PTL DEF Spec

\* Type correctness of SlaWorker: the tables hold rows, the scans' states and
\* the locked rows are as TypeOK says, for any number of handlers and scans.
THEOREM TypeCorrect == Spec => []TypeOK
<1>1. TypeInv => TypeOK
  BY DEF TypeInv
<1> QED
  BY <1>1, TypeInvariance, PTL

\* The worker changes a distribution only where it commits its escalation.
LEMMA WorkerStep ==
  ASSUME TypeInv, WorkerNext, NEW d \in DistId
  PROVE  \/ Untouched(d)
         \/ \E s \in InTx :
              /\ commitEscalation(s)
              /\ scan[s].cur.dist = d
              /\ dist'[d] = [dist[d] EXCEPT !.status = "Escalated", !.lastUpdateAt = now,
                                            !.escalationCount = scan[s].cur.target]
              /\ log'[d] = Append(log[d], Entry("ESCALATED", scan[s].cur.seen, "Escalated",
                                                scan[s].cur.target))
<1>1. /\ dist \in [DistId -> Row]
      /\ log \in [DistId -> Seq(LogEntry)]
      /\ dist[d] \in Row
  BY DEF TypeInv, TypeOK, DistTypeOK
<1>2. ASSUME NEW s \in Scan, commitEscalation(s), scan[s].cur.dist = d
      PROVE  /\ s \in InTx
             /\ dist'[d] = [dist[d] EXCEPT !.status = "Escalated", !.lastUpdateAt = now,
                                           !.escalationCount = scan[s].cur.target]
             /\ log'[d] = Append(log[d], Entry("ESCALATED", scan[s].cur.seen, "Escalated",
                                               scan[s].cur.target))
  <2>1. dist'[d] = [dist[d] EXCEPT !.status = "Escalated", !.lastUpdateAt = now,
                                   !.escalationCount = scan[s].cur.target]
    BY <1>1, <1>2 DEF commitEscalation, Row
  <2> QED
    BY <1>1, <1>2, <2>1 DEF commitEscalation, AddLog, InTx
<1>3. ASSUME NEW s \in Scan, commitEscalation(s), scan[s].cur.dist # d PROVE Untouched(d)
  BY <1>1, <1>3 DEF commitEscalation, AddLog, Untouched
<1>4. ASSUME UNCHANGED <<dist, log>> PROVE Untouched(d)
  BY <1>4 DEF Untouched
<1>5. CASE \E s \in Scan : commitEscalation(s)
  BY <1>2, <1>3, <1>5
<1>6. CASE ~ \E s \in Scan : commitEscalation(s)
  BY <1>4, <1>6 DEF WorkerNext, startWorker, crashWorker, startScan, loadSlaConfig,
     findOverdue, finishScan, scanThrows, beginEscalation, failEscalation, distVars
<1> QED
  BY <1>5, <1>6

\* Distributions are never deleted, and their incoming record never changes.
LEMMA StillExists ==
  ASSUME TypeInv, [Next]_vars, NEW d \in Existing
  PROVE  d \in Existing' /\ dist'[d].incoming = dist[d].incoming
<1>1. dist[d] \in Row /\ d \in DistId /\ Exists(d)
  BY DEF TypeInv, TypeOK, DistTypeOK, Existing
<1>2. dist'[d].incoming = dist[d].incoming
  <2>1. CASE Untouched(d)
    BY <2>1 DEF Untouched
  <2>2. CASE WorkerNext /\ ~ Untouched(d)
    <3>1. PICK s \in InTx :
            dist'[d] = [dist[d] EXCEPT !.status = "Escalated", !.lastUpdateAt = now,
                                       !.escalationCount = scan[s].cur.target]
      BY <1>1, <2>2, WorkerStep
    <3> QED
      BY <1>1, <3>1 DEF Row
  <2>3. CASE DistNext
    BY <1>1, <2>3, HandlerStep, TablesTyped DEF Untouched, Opened, Handled
  <2>4. CASE UNCHANGED vars
    BY <2>4 DEF vars
  <2> QED
    BY <2>1, <2>2, <2>3, <2>4 DEF Next
<1> QED
  BY <1>1, <1>2 DEF Existing, Exists

\* What a step does to the local state of one scan.
LEMMA ScanStep ==
  ASSUME TypeInv, [Next]_vars, NEW s \in Scan
  PROVE  \/ scan'[s] = scan[s]
         \/ scan'[s].pc # "inTx" /\ scan'[s].todo \subseteq scan[s].todo
         \/ findOverdue(s)
         \/ \E w \in scan[s].todo : beginEscalation(s, w)
<1> DEFINE Shrinks == scan'[s].pc # "inTx" /\ scan'[s].todo \subseteq scan[s].todo
<1>1. scan \in [Scan -> ScanState] /\ scan[s] \in ScanState
  BY DEF TypeInv, TypeOK, WorkerTypeOK
<1>2. IdleScan.pc # "inTx" /\ IdleScan.todo = {}
  BY DEF IdleScan
<1>3. CASE crashWorker
  BY <1>2, <1>3 DEF crashWorker
<1>4. ASSUME NEW t \in Scan, startScan(t) PROVE scan'[s] = scan[s] \/ Shrinks
  BY <1>1, <1>4 DEF startScan, ScanState
<1>5. ASSUME NEW t \in Scan, NEW c \in Configs, loadSlaConfig(t, c)
      PROVE  scan'[s] = scan[s] \/ Shrinks
  BY <1>1, <1>5 DEF loadSlaConfig, ScanState
<1>6. ASSUME NEW t \in Scan, finishScan(t) \/ scanThrows(t)
      PROVE  scan'[s] = scan[s] \/ Shrinks
  BY <1>1, <1>2, <1>6 DEF finishScan, scanThrows
<1>7. ASSUME NEW t \in Scan, commitEscalation(t) \/ failEscalation(t)
      PROVE  scan'[s] = scan[s] \/ Shrinks
  <2>1. scan' = DoneWith(t)
    BY <1>7 DEF commitEscalation, failEscalation
  <2> QED
    BY <1>1, <2>1 DEF DoneWith, ScanState
<1>8. ASSUME NEW t \in Scan, t # s, findOverdue(t) PROVE scan'[s] = scan[s]
  BY <1>1, <1>8 DEF findOverdue
<1>9. ASSUME NEW t \in Scan, t # s, NEW w \in scan[t].todo, beginEscalation(t, w)
      PROVE  scan'[s] = scan[s]
  BY <1>1, <1>9 DEF beginEscalation
<1>10. CASE UNCHANGED scan
  BY <1>10
<1>11. CASE WorkerNext
  BY <1>3, <1>4, <1>5, <1>6, <1>7, <1>8, <1>9, <1>10, <1>11 DEF WorkerNext, startWorker
<1> QED
  BY <1>10, <1>11 DEF Next, vars

\* A scan only works on distributions that exist.
WorkExists ==
  \A s \in Scan : /\ \A w \in scan[s].todo : w.dist \in Existing
                  /\ scan[s].pc = "inTx" => scan[s].cur.dist \in Existing

LEMMA WorkExistsStep == TypeInv /\ WorkExists /\ [Next]_vars => WorkExists'
<1> SUFFICES ASSUME TypeInv, WorkExists, [Next]_vars, NEW s \in Scan
             PROVE  /\ \A w \in scan'[s].todo : w.dist \in Existing'
                    /\ scan'[s].pc = "inTx" => scan'[s].cur.dist \in Existing'
  BY DEF WorkExists
<1>1. scan \in [Scan -> ScanState] /\ scan[s] \in ScanState
  BY DEF TypeInv, TypeOK, WorkerTypeOK
<1>2. \A d \in Existing : d \in Existing'
  BY StillExists
<1>3. \A w \in scan[s].todo : w.dist \in Existing'
  BY <1>2 DEF WorkExists
<1>4. scan[s].pc = "inTx" => scan[s].cur.dist \in Existing'
  BY <1>2 DEF WorkExists
<1>5. CASE scan'[s] = scan[s]
  BY <1>3, <1>4, <1>5
<1>6. CASE scan'[s].pc # "inTx" /\ scan'[s].todo \subseteq scan[s].todo
  BY <1>3, <1>6
<1>7. CASE findOverdue(s)
  <2>1. /\ scan'[s].pc # "inTx"
        /\ scan'[s].todo = {[dist |-> d, seen |-> dist[d].status, target |-> TargetOf(s, d)] :
                              d \in {e \in DistId : IsSelected(s, e)}}
    BY <1>1, <1>7 DEF findOverdue, ScanState
  <2>2. \A d \in DistId : IsSelected(s, d) => d \in Existing'
    BY <1>2 DEF IsSelected, Existing
  <2> QED
    BY <2>1, <2>2
<1>8. ASSUME NEW w \in scan[s].todo, beginEscalation(s, w)
      PROVE  scan'[s].cur = w /\ scan'[s].todo = scan[s].todo
  BY <1>1, <1>8 DEF beginEscalation, ScanState
<1> QED
  BY <1>3, <1>5, <1>6, <1>7, <1>8, ScanStep

----------------------------------------------------------------------------
(* The log tells the status and the level *)

\* Adding the row that tells of a change keeps a log replayable.
LEMMA ReplayGrows ==
  ASSUME NEW rows \in Seq(LogEntry), NEW e \in LogEntry,
         NEW status, NEW status2, NEW level, NEW level2,
         Replays(rows, status, level),
         \/ e.newStatus = None /\ status2 = status
         \/ e.newStatus # None /\ status2 = e.newStatus,
         \/ e.why # "ESCALATED" /\ level2 = level
         \/ e.why = "ESCALATED" /\ level2 = e.level
  PROVE  Replays(Append(rows, e), status2, level2)
<1> DEFINE more == Append(rows, e)
           n == Len(rows) + 1
<1>1. /\ DOMAIN rows = 1 .. Len(rows) /\ DOMAIN more = 1 .. n
      /\ n \in Nat /\ n \notin DOMAIN rows /\ n \in DOMAIN more
      /\ \A m \in DOMAIN rows : m \in DOMAIN more /\ m <= n /\ ~ (n <= m) /\ more[m] = rows[m]
      /\ more[n] = e
      /\ \A m \in DOMAIN more : m = n \/ m \in DOMAIN rows
  OBVIOUS
<1> HIDE DEF more, n
<1>2. /\ StatusRows(more) = {} => status2 = "Open"
      /\ \A k \in StatusRows(more) :
           IsNewest(k, StatusRows(more)) => more[k].newStatus = status2
  <2>1. CASE e.newStatus = None
    <3>1. StatusRows(more) = StatusRows(rows)
      BY <1>1, <2>1 DEF StatusRows
    <3> QED
      BY <1>1, <2>1, <3>1 DEF Replays, StatusRows
  <2>2. CASE e.newStatus # None
    <3>1. n \in StatusRows(more)
      BY <1>1, <2>2 DEF StatusRows
    <3>2. \A k \in StatusRows(more) : IsNewest(k, StatusRows(more)) => k = n
      BY <1>1, <3>1 DEF StatusRows, IsNewest
    <3> QED
      BY <1>1, <2>2, <3>1, <3>2
  <2> QED
    BY <2>1, <2>2
<1>3. /\ EscalationRows(more) = {} => level2 = 0
      /\ \A k \in EscalationRows(more) :
           IsNewest(k, EscalationRows(more)) => more[k].level = level2
  <2>1. CASE e.why # "ESCALATED"
    <3>1. EscalationRows(more) = EscalationRows(rows)
      BY <1>1, <2>1 DEF EscalationRows
    <3> QED
      BY <1>1, <2>1, <3>1 DEF Replays, EscalationRows
  <2>2. CASE e.why = "ESCALATED"
    <3>1. n \in EscalationRows(more)
      BY <1>1, <2>2 DEF EscalationRows
    <3>2. \A k \in EscalationRows(more) : IsNewest(k, EscalationRows(more)) => k = n
      BY <1>1, <3>1 DEF EscalationRows, IsNewest
    <3> QED
      BY <1>1, <2>2, <3>1, <3>2
  <2> QED
    BY <2>1, <2>2
<1> QED
  BY <1>2, <1>3 DEF Replays, more

\* FreshIds and WorkExists are what RowMatchesLog needs to be inductive: a
\* new row starts at Open and level 0, so its id must not carry an old log.
LogInv == TypeInv /\ WorkExists /\ FreshIds /\ RowMatchesLog

\* The log of a distribution still tells its status and level after a step.
LEMMA LogInvStep == LogInv /\ [Next]_vars => FreshIds' /\ RowMatchesLog'
<1> SUFFICES ASSUME LogInv, [Next]_vars, NEW d \in DistId
             PROVE  /\ d \notin Existing' => log'[d] = <<>>
                    /\ Replays(log'[d], dist'[d].status, dist'[d].escalationCount)
  BY DEF FreshIds, RowMatchesLog
<1>1. TypeInv /\ Replays(log[d], dist[d].status, dist[d].escalationCount)
  BY DEF LogInv, RowMatchesLog
<1>2. dist[d] \in Row /\ log[d] \in Seq(LogEntry)
  BY <1>1 DEF TypeInv, TypeOK, DistTypeOK
<1>3. d \notin Existing => log[d] = <<>>
  BY DEF LogInv, FreshIds
<1>4. d \in Existing => d \in Existing'
  BY <1>1, StillExists
<1>5. CASE Untouched(d)
  <2>1. dist'[d] = dist[d] /\ log'[d] = log[d]
    BY <1>5 DEF Untouched
  <2>2. d \notin Existing => d \notin Existing'
    BY <2>1 DEF Existing, Exists
  <2> QED
    BY <1>1, <1>3, <1>4, <2>1
<1>6. CASE Opened(d)
  <2>1. log[d] = <<>> /\ d \in Existing'
    BY <1>3, <1>6, DistributionAssumption DEF Opened, Existing, Exists
  <2> DEFINE e == Entry("FORWARD", None, "Open", 0)
  <2>2. log'[d] \in {log[d], Append(log[d], e)}
    BY <1>6 DEF Opened
  <2>3. dist'[d].status = "Open" /\ dist'[d].escalationCount = 0
    BY <1>6 DEF Opened
  <2>4. Replays(log[d], "Open", 0)
    BY <2>1 DEF Replays, StatusRows, EscalationRows
  <2>5. e \in LogEntry /\ e.why = "FORWARD" /\ e.newStatus = "Open" /\ "Open" # None
    BY EntryType, DistributionAssumption DEF AuditAction, Status, Entry
  <2> HIDE DEF e
  <2>6. Replays(Append(log[d], e), "Open", 0)
    BY <1>2, <2>4, <2>5, ReplayGrows
  <2> QED
    BY <2>1, <2>2, <2>3, <2>4, <2>6
<1>7. CASE Handled(d)
  <2>1. d \in Existing'
    BY <1>4, <1>7 DEF Handled, Existing
  <2>2. PICK e \in LogEntry :
          /\ log'[d] = Append(log[d], e)
          /\ e.why # "ESCALATED"
          /\ \/ e.newStatus = None /\ dist'[d].status = dist[d].status
             \/ e.newStatus = dist'[d].status /\ e.newStatus # None
    BY <1>7 DEF Handled
  <2>3. dist'[d].escalationCount = dist[d].escalationCount
    BY <1>7 DEF Handled
  <2>4. Replays(Append(log[d], e), dist'[d].status, dist'[d].escalationCount)
    BY <1>1, <1>2, <2>2, <2>3, ReplayGrows
  <2> QED
    BY <2>1, <2>2, <2>4
<1>8. CASE WorkerNext /\ ~ Untouched(d)
  <2>1. PICK s \in InTx :
          /\ scan[s].cur.dist = d
          /\ dist'[d] = [dist[d] EXCEPT !.status = "Escalated", !.lastUpdateAt = now,
                                        !.escalationCount = scan[s].cur.target]
          /\ log'[d] = Append(log[d], Entry("ESCALATED", scan[s].cur.seen, "Escalated",
                                            scan[s].cur.target))
    BY <1>1, <1>8, WorkerStep
  <2>2. d \in Existing'
    BY <1>4, <2>1 DEF LogInv, WorkExists, InTx
  <2>3. scan[s].cur \in Work
    BY <1>1 DEF TypeInv, InTxHasWork
  <2> DEFINE e == Entry("ESCALATED", scan[s].cur.seen, "Escalated", scan[s].cur.target)
  <2>4. dist'[d].status = "Escalated" /\ dist'[d].escalationCount = scan[s].cur.target
    BY <1>2, <2>1 DEF Row
  <2>5. e \in LogEntry /\ e.why = "ESCALATED" /\ e.level = scan[s].cur.target
        /\ e.newStatus = "Escalated" /\ e.newStatus # None
    <3>1. "Escalated" \in Status /\ scan[s].cur.seen \in Status /\ scan[s].cur.target \in Nat
      BY <2>3 DEF Status, Work, Levels
    <3> QED
      BY <3>1, EntryType, DistributionAssumption DEF AuditAction, Entry
  <2>6. log'[d] = Append(log[d], e)
    BY <2>1
  <2> HIDE DEF e
  <2>7. Replays(Append(log[d], e), dist'[d].status, dist'[d].escalationCount)
    BY <1>1, <1>2, <2>4, <2>5, ReplayGrows
  <2> QED
    BY <2>2, <2>6, <2>7
<1>9. CASE UNCHANGED vars
  BY <1>5, <1>9 DEF vars, Untouched
<1> QED
  BY <1>1, <1>5, <1>6, <1>7, <1>8, <1>9, HandlerStep, TablesTyped DEF Next

LEMMA LogInvariance == Spec => []LogInv
<1>1. Init => LogInv
  <2> SUFFICES ASSUME Init PROVE LogInv
    OBVIOUS
  <2>1. TypeInv
    BY InitTypeOK
  <2>2. WorkExists
    BY DEF Init, WorkExists, IdleScan
  <2>3. \A d \in DistId : /\ log[d] = <<>>
                          /\ dist[d].status = "Open" /\ dist[d].escalationCount = 0
    BY DEF Init, DistInit, NoRow
  <2>4. Replays(<<>>, "Open", 0)
    BY DEF Replays, StatusRows, EscalationRows
  <2> QED
    BY <2>1, <2>2, <2>3, <2>4 DEF LogInv, FreshIds, RowMatchesLog
<1>2. LogInv /\ TypeInv' /\ [Next]_vars => LogInv'
  BY LogInvStep, WorkExistsStep DEF LogInv
<1> QED
  BY <1>1, <1>2, TypeInvariance, PTL DEF Spec

\* RowMatchesLog, whatever handlers and scans overlap: the newest status row
\* and the newest escalation in a distribution's log are its status and level.
THEOREM LogTellsState == Spec => []RowMatchesLog
<1>1. LogInv => RowMatchesLog
  BY DEF LogInv
<1> QED
  BY <1>1, LogInvariance, PTL

----------------------------------------------------------------------------
(* Nobody is escalated in silence *)

\* The notification of a distribution that exists is one the table can hold.
LEMMA NoticeType ==
  ASSUME TypeInv, NEW w \in Work, w.dist \in Existing
  PROVE  /\ Notice(w) \in NoticeKey
         /\ Notice(w).userId \in User
         /\ Notice(w).incoming = dist[w.dist].incoming
         /\ Notice(w).level = w.target
<1>1. dist[w.dist] \in Row /\ dist[w.dist].incoming # None
  BY DEF TypeInv, TypeOK, DistTypeOK, Existing, Exists
<1>2. Recipient(w.dist) \in User
  BY <1>1, SlaWorkerAssumption DEF Recipient, Row
<1> QED
  BY <1>1, <1>2 DEF Notice, NoticeKey, Work, Row

\* Notifications are only added.
LEMMA NoticesStay ==
  ASSUME TypeInv, WorkExists, [Next]_vars, NEW k \in NoticeKey
  PROVE  notification'[k] >= notification[k]
<1>1. notification \in [NoticeKey -> Nat]
  BY DEF TypeInv, TypeOK, WorkerTypeOK
<1>2. ASSUME NEW s \in Scan, commitEscalation(s) PROVE notification'[k] >= notification[k]
  <2> DEFINE n == Notice(scan[s].cur)
  <2>1. notification' = notification \/ notification' = [notification EXCEPT ![n] = @ + 1]
    BY <1>2 DEF commitEscalation
  <2>2. n \in NoticeKey
    BY <1>2, NoticeType DEF commitEscalation, WorkExists, TypeInv, InTxHasWork, InTx
  <2> HIDE DEF n
  <2> QED
    BY <1>1, <2>1, <2>2
<1>3. CASE UNCHANGED notification
  BY <1>1, <1>3
<1> QED
  BY <1>2, <1>3 DEF Next, WorkerNext, startWorker, crashWorker, startScan, loadSlaConfig,
     findOverdue, finishScan, scanThrows, beginEscalation, failEscalation, vars

\* While a transaction is open its distribution keeps its assignee: the lock
\* keeps every handler away.
LEMMA NoticeFixed ==
  ASSUME TypeInv, WorkExists, [Next]_vars, NEW s \in InTx
  PROVE  /\ dist'[scan[s].cur.dist].incoming = dist[scan[s].cur.dist].incoming
         /\ dist'[scan[s].cur.dist].assignee = dist[scan[s].cur.dist].assignee
<1> DEFINE d == scan[s].cur.dist
<1>1. d \in locked /\ d \in DistId /\ Exists(d) /\ dist[d] \in Row
  BY DEF TypeInv, TypeOK, DistTypeOK, WorkExists, Existing, InTx
<1> HIDE DEF d
<1>2. CASE Untouched(d)
  BY <1>2 DEF Untouched, d
<1>3. CASE WorkerNext /\ ~ Untouched(d)
  <2>1. PICK t \in InTx :
          dist'[d] = [dist[d] EXCEPT !.status = "Escalated", !.lastUpdateAt = now,
                                     !.escalationCount = scan[t].cur.target]
    BY <1>1, <1>3, WorkerStep
  <2> QED
    BY <1>1, <2>1 DEF Row, d
<1>4. CASE DistNext
  BY <1>1, <1>2, <1>4, HandlerStep, TablesTyped DEF Opened, Handled
<1>5. CASE UNCHANGED vars
  BY <1>5 DEF vars
<1> QED
  BY <1>2, <1>3, <1>4, <1>5 DEF Next

LevelBounded == \A d \in DistId : /\ dist[d].escalationCount \in 0 .. 4
                                  /\ dist[d].escalationCount > 0 => d \in Existing

\* A notification a scan found is there.
FoundNotice == \A s \in InTx : scan[s].existing => notification[Notice(scan[s].cur)] > 0

\* FoundNotice is what makes EscalatedIsNotified inductive: the commit relies
\* on a notification that was looked for some steps before.
NoticeInv == WorkExists /\ LevelBounded /\ FoundNotice /\ EscalatedIsNotified

LEMMA FoundNoticeStep == TypeInv /\ TypeInv' /\ NoticeInv /\ [Next]_vars => FoundNotice'
<1> SUFFICES ASSUME TypeInv, TypeInv', NoticeInv, [Next]_vars, NEW s \in InTx', scan'[s].existing
             PROVE  notification'[Notice(scan[s].cur)'] > 0
  BY DEF FoundNotice
<1>1. /\ s \in Scan /\ scan \in [Scan -> ScanState] /\ scan[s] \in ScanState
      /\ notification \in [NoticeKey -> Nat]
      /\ notification' \in [NoticeKey -> Nat]
  BY DEF TypeInv, TypeOK, WorkerTypeOK, InTx, NoticeKey
<1>2. CASE scan'[s] = scan[s]
  <2>1. s \in InTx /\ scan[s].existing
    BY <1>1, <1>2 DEF InTx
  <2>2. notification[Notice(scan[s].cur)] > 0
    BY <2>1 DEF NoticeInv, FoundNotice
  <2>3. Notice(scan[s].cur)' = Notice(scan[s].cur)
    BY <1>2, <2>1, NoticeFixed DEF NoticeInv, Notice, Recipient
  <2>4. Notice(scan[s].cur) \in NoticeKey
    BY <2>1, NoticeType DEF NoticeInv, WorkExists, TypeInv, InTxHasWork, InTx
  <2> QED
    BY <1>1, <2>2, <2>3, <2>4, NoticesStay DEF NoticeInv
<1>3. ASSUME NEW w \in scan[s].todo, beginEscalation(s, w)
      PROVE  notification'[Notice(scan[s].cur)'] > 0
  <2>1. scan'[s].cur = w /\ scan'[s].existing = (notification[Notice(w)] > 0)
    BY <1>1, <1>3 DEF beginEscalation, ScanState
  <2>2. UNCHANGED <<dist, notification>>
    BY <1>3 DEF beginEscalation
  <2>3. Notice(scan[s].cur)' = Notice(w)
    BY <2>1, <2>2 DEF Notice, Recipient
  <2> QED
    BY <2>1, <2>2, <2>3
<1>4. CASE findOverdue(s)
  BY <1>1, <1>4 DEF findOverdue, InTx, ScanState
<1>5. scan'[s].pc = "inTx"
  BY DEF InTx
<1> QED
  BY <1>1, <1>2, <1>3, <1>4, <1>5, ScanStep

\* What a commit leaves behind: the level of the distribution and a
\* notification of that level for its incoming record.
LEMMA CommitNotifies ==
  ASSUME TypeInv, NoticeInv, NEW s \in InTx, commitEscalation(s)
  PROVE  /\ dist'[scan[s].cur.dist].escalationCount = scan[s].cur.target
         /\ notification'[Notice(scan[s].cur)] > 0
<1> DEFINE w == scan[s].cur
           k == Notice(w)
<1>1. w \in Work /\ w.dist \in Existing /\ s \in Scan
  BY DEF TypeInv, InTxHasWork, NoticeInv, WorkExists, InTx
<1>2. k \in NoticeKey /\ w.dist \in DistId
  BY <1>1, NoticeType DEF Work
<1>3. /\ notification \in [NoticeKey -> Nat]
      /\ dist \in [DistId -> Row]
  BY DEF TypeInv, TypeOK, WorkerTypeOK, DistTypeOK
<1>4. dist'[w.dist].escalationCount = w.target
  BY <1>2, <1>3 DEF commitEscalation, Row
<1>5. notification' = IF scan[s].existing THEN notification
                      ELSE [notification EXCEPT ![k] = @ + 1]
  BY DEF commitEscalation
<1>6. scan[s].existing => notification[k] > 0
  BY DEF NoticeInv, FoundNotice
<1> HIDE DEF w, k
<1>7. notification'[k] > 0
  BY <1>2, <1>3, <1>5, <1>6
<1> QED
  BY <1>4, <1>7 DEF w, k

\* A step that does not commit an escalation of a distribution leaves its
\* level, and its incoming record if it has one, as they are.
LEMMA LevelKept ==
  ASSUME TypeInv, [Next]_vars, NEW d \in DistId,
         \A s \in InTx : scan[s].cur.dist = d => ~ commitEscalation(s)
  PROVE  \/ dist'[d].escalationCount = 0 /\ d \notin Existing
         \/ /\ dist'[d].escalationCount = dist[d].escalationCount
            /\ dist'[d].incoming = dist[d].incoming
<1>1. CASE Untouched(d)
  BY <1>1 DEF Untouched
<1>2. CASE WorkerNext
  BY <1>1, <1>2, WorkerStep
<1>3. CASE DistNext
  BY <1>1, <1>3, HandlerStep, TablesTyped DEF Opened, Handled, Existing
<1>4. CASE UNCHANGED vars
  BY <1>4 DEF vars
<1> QED
  BY <1>2, <1>3, <1>4 DEF Next

LEMMA NoticeInvStep == TypeInv /\ TypeInv' /\ NoticeInv /\ [Next]_vars => NoticeInv'
<1> SUFFICES ASSUME TypeInv, TypeInv', NoticeInv, [Next]_vars PROVE NoticeInv'
  OBVIOUS
<1>1. WorkExists' /\ FoundNotice'
  BY WorkExistsStep, FoundNoticeStep DEF NoticeInv
<1>2. ASSUME NEW s \in InTx, commitEscalation(s), NEW d \in DistId, d = scan[s].cur.dist
      PROVE  /\ dist'[d].escalationCount \in Levels /\ d \in Existing'
             /\ \E u \in User :
                  notification'[[userId |-> u, incoming |-> dist'[d].incoming,
                                 level |-> dist'[d].escalationCount]] > 0
  <2>1. scan[s].cur \in Work /\ d \in Existing
    BY <1>2 DEF TypeInv, InTxHasWork, NoticeInv, WorkExists, InTx
  <2>2. dist'[d].escalationCount = scan[s].cur.target /\ scan[s].cur.target \in Levels
    BY <1>2, <2>1, CommitNotifies DEF Work
  <2>3. d \in Existing' /\ dist'[d].incoming = dist[d].incoming
    BY <2>1, StillExists
  <2>4. /\ Notice(scan[s].cur) = [userId |-> Recipient(d), incoming |-> dist[d].incoming,
                                  level |-> scan[s].cur.target]
        /\ Recipient(d) \in User
    BY <1>2, <2>1, NoticeType DEF Notice
  <2> QED
    BY <1>2, <2>2, <2>3, <2>4, CommitNotifies
<1>3. ASSUME NEW d \in DistId, \A s \in InTx : scan[s].cur.dist = d => ~ commitEscalation(s),
             dist'[d].escalationCount > 0
      PROVE  /\ dist'[d].escalationCount \in Levels /\ d \in Existing'
             /\ \E u \in User :
                  notification'[[userId |-> u, incoming |-> dist'[d].incoming,
                                 level |-> dist'[d].escalationCount]] > 0
  <2>1. /\ dist'[d].escalationCount = dist[d].escalationCount
        /\ dist'[d].incoming = dist[d].incoming
    BY <1>3, LevelKept
  <2>2. d \in Existing /\ dist[d].escalationCount \in Levels /\ dist[d].incoming \in Incoming
    BY <1>3, <2>1 DEF NoticeInv, LevelBounded, Levels, Existing, Exists, TypeInv, TypeOK,
                      DistTypeOK, Row
  <2>3. PICK u \in User : notification[[userId |-> u, incoming |-> dist[d].incoming,
                                        level |-> dist[d].escalationCount]] > 0
    BY <1>3, <2>1 DEF NoticeInv, EscalatedIsNotified
  <2> DEFINE k == [userId |-> u, incoming |-> dist[d].incoming,
                   level |-> dist[d].escalationCount]
  <2>4. k \in NoticeKey
    BY <2>2 DEF NoticeKey
  <2>5. notification'[k] >= notification[k]
    BY <2>4, NoticesStay DEF NoticeInv
  <2>6. notification[k] \in Nat /\ notification'[k] \in Nat
    BY <2>4 DEF TypeInv, TypeOK, WorkerTypeOK, NoticeKey
  <2>7. notification'[k] > 0
    BY <2>3, <2>5, <2>6
  <2> QED
    BY <2>1, <2>2, <2>7, StillExists
<1>4. ASSUME NEW d \in DistId, ~ dist'[d].escalationCount > 0
      PROVE  dist'[d].escalationCount = 0
  <2>1. dist'[d].escalationCount \in Nat
    BY DEF TypeInv, TypeOK, DistTypeOK, Row
  <2> QED
    BY <1>4, <2>1
<1>5. LevelBounded'
  BY <1>2, <1>3, <1>4 DEF LevelBounded, Levels
<1>6. EscalatedIsNotified'
  BY <1>2, <1>3 DEF EscalatedIsNotified
<1> QED
  BY <1>1, <1>5, <1>6 DEF NoticeInv

LEMMA NoticeInvariance == Spec => []NoticeInv
<1>1. Init => NoticeInv
  BY DEF Init, DistInit, NoRow, NoticeInv, WorkExists, IdleScan, LevelBounded, FoundNotice,
         InTx, EscalatedIsNotified
<1>2. TypeInv /\ TypeInv' /\ NoticeInv /\ [Next]_vars => NoticeInv'
  BY NoticeInvStep
<1> QED
  BY <1>1, <1>2, TypeInvariance, PTL DEF Spec

\* EscalatedIsNotified, whatever handlers and scans overlap: the level an
\* escalated distribution has reached has been notified to somebody.
THEOREM NobodyEscalatedInSilence == Spec => []EscalatedIsNotified
<1>1. NoticeInv => EscalatedIsNotified
  BY DEF NoticeInv
<1> QED
  BY <1>1, NoticeInvariance, PTL

----------------------------------------------------------------------------
(* How often a notification is created *)

\* The scans about to create notification k: their check has not found it.
Creators(k) == {s \in InTx : ~ scan[s].existing /\ Notice(scan[s].cur) = k}

\* n copies are no more than the scans and the distributions can account for.
Fits(n, distributions) == n <= 1 \/ (n <= Cardinality(Scan) /\ n <= distributions)

\* Those about to create k are distinct scans, on distinct distributions.
CreatorsAreFew ==
  \A k \in NoticeKey :
    /\ IsFiniteSet(Creators(k)) /\ Cardinality(Creators(k)) \in Nat
    /\ Cardinality(Creators(k)) <= Cardinality(Scan)
    /\ Cardinality(Creators(k)) <= Cardinality(DistsOf(k.incoming))

\* What is there and what is about to be created fits.  While k is missing
\* this is CreatorsAreFew; once it is there nobody new is about to create it.
CopiesFit ==
  \A k \in NoticeKey :
    Fits(notification[k] + Cardinality(Creators(k)), Cardinality(DistsOf(k.incoming)))

LEMMA DistsOfFinite ==
  \A i : IsFiniteSet(DistsOf(i)) /\ Cardinality(DistsOf(i)) \in Nat
<1> SUFFICES ASSUME NEW i PROVE IsFiniteSet(DistsOf(i)) /\ Cardinality(DistsOf(i)) \in Nat
  OBVIOUS
<1>1. DistsOf(i) \in SUBSET DistId
  BY DEF DistsOf
<1> QED
  BY <1>1, FiniteAssumption, FS_Subset, FS_CardinalityType

LEMMA CreatorsFew == TypeInv /\ WorkExists => CreatorsAreFew
<1> SUFFICES ASSUME TypeInv, WorkExists, NEW k \in NoticeKey
             PROVE  /\ IsFiniteSet(Creators(k)) /\ Cardinality(Creators(k)) \in Nat
                    /\ Cardinality(Creators(k)) <= Cardinality(Scan)
                    /\ Cardinality(Creators(k)) <= Cardinality(DistsOf(k.incoming))
  BY DEF CreatorsAreFew
<1> DEFINE C == Creators(k)
           D == DistsOf(k.incoming)
           f == [s \in C |-> scan[s].cur.dist]
<1>1. C \in SUBSET Scan
  BY DEF Creators, InTx
<1>2. ASSUME NEW s \in C PROVE scan[s].cur.dist \in D
  <2>1. s \in InTx /\ Notice(scan[s].cur) = k
    BY DEF Creators
  <2>2. scan[s].cur \in Work /\ scan[s].cur.dist \in Existing
    BY <2>1 DEF TypeInv, InTxHasWork, WorkExists, InTx
  <2>3. dist[scan[s].cur.dist].incoming = k.incoming
    BY <2>1, <2>2, NoticeType
  <2> QED
    BY <2>2, <2>3 DEF DistsOf, Existing
<1>3. \A s, t \in C : scan[s].cur.dist = scan[t].cur.dist => s = t
  BY DEF Creators, TypeInv, LockExclusive
<1> HIDE DEF C, D
<1>4. f \in Injection(C, D)
  BY <1>2, <1>3 DEF Injection, IsInjective
<1>5. IsFiniteSet(D)
  BY DistsOfFinite DEF D
<1> HIDE DEF f
<1>6. IsFiniteSet(C) /\ Cardinality(C) <= Cardinality(D)
  BY <1>4, <1>5, FS_Injection
<1>7. Cardinality(C) <= Cardinality(Scan)
  BY <1>1, FiniteAssumption, FS_Subset
<1>8. Cardinality(C) \in Nat
  BY <1>6, FS_CardinalityType
<1> QED
  BY <1>6, <1>7, <1>8 DEF C, D

\* The distributions of a record only become more.
LEMMA DistsOfGrow ==
  ASSUME TypeInv, [Next]_vars, NEW i \in Incoming
  PROVE  /\ Cardinality(DistsOf(i)) <= Cardinality(DistsOf(i)')
         /\ Cardinality(DistsOf(i)) \in Nat /\ Cardinality(DistsOf(i)') \in Nat
<1>1. ASSUME NEW d \in DistsOf(i) PROVE d \in DistsOf(i)'
  <2>1. d \in Existing
    BY DistributionAssumption DEF DistsOf, Existing, Exists
  <2> QED
    BY <2>1, StillExists DEF DistsOf, Existing
<1>2. DistsOf(i)' \in SUBSET DistId
  BY DEF DistsOf
<1>3. IsFiniteSet(DistsOf(i)')
  BY <1>2, FiniteAssumption, FS_Subset
<1>4. DistsOf(i) \in SUBSET DistsOf(i)'
  BY <1>1
<1> QED
  BY <1>3, <1>4, DistsOfFinite, FS_Subset, FS_CardinalityType

LEMMA FewerFit ==
  ASSUME NEW n \in Nat, NEW m \in Nat, m <= n,
         NEW c \in Nat, NEW d \in Nat, c <= d, Fits(n, c)
  PROVE  Fits(m, d)
<1>1. Cardinality(Scan) \in Nat
  BY FiniteAssumption, FS_CardinalityType
<1> QED
  BY <1>1 DEF Fits

\* Nobody becomes about to create what is there, or while it is created.
LEMMA CreatorsOfOld ==
  ASSUME TypeInv, WorkExists, [Next]_vars, NEW k \in NoticeKey,
         notification[k] > 0 \/ notification'[k] # notification[k],
         NEW s \in Creators(k)'
  PROVE  s \in Creators(k)
<1>1. /\ s \in Scan /\ scan \in [Scan -> ScanState] /\ scan[s] \in ScanState
      /\ scan'[s].pc = "inTx" /\ ~ scan'[s].existing
  BY DEF TypeInv, TypeOK, WorkerTypeOK, Creators, InTx
<1>2. Notice(scan[s].cur)' = k
  BY DEF Creators
<1>3. CASE scan'[s] = scan[s]
  <2>1. s \in InTx /\ ~ scan[s].existing
    BY <1>1, <1>3 DEF InTx
  <2>2. Notice(scan[s].cur)' = Notice(scan[s].cur)
    BY <1>3, <2>1, NoticeFixed DEF Notice, Recipient
  <2> QED
    BY <1>2, <2>1, <2>2 DEF Creators
<1>4. ASSUME NEW w \in scan[s].todo, beginEscalation(s, w) PROVE FALSE
  <2>1. scan'[s].cur = w /\ scan'[s].existing = (notification[Notice(w)] > 0)
    BY <1>1, <1>4 DEF beginEscalation, ScanState
  <2>2. UNCHANGED <<dist, notification>>
    BY <1>4 DEF beginEscalation
  <2>3. Notice(scan[s].cur)' = Notice(w)
    BY <2>1, <2>2 DEF Notice, Recipient
  <2>4. notification[k] > 0 /\ Notice(w) = k
    BY <1>2, <2>2, <2>3
  <2> QED
    BY <1>1, <2>1, <2>4
<1>5. CASE findOverdue(s)
  BY <1>1, <1>5 DEF findOverdue, ScanState
<1> QED
  BY <1>1, <1>3, <1>4, <1>5, ScanStep

\* A scan that creates a notification is no longer about to.
LEMMA CreatorCreates ==
  ASSUME TypeInv, WorkExists, [Next]_vars, NEW k \in NoticeKey,
         notification'[k] # notification[k]
  PROVE  /\ notification'[k] = notification[k] + 1
         /\ \E s \in Creators(k) : s \notin Creators(k)'
<1>1. notification \in [NoticeKey -> Nat] /\ scan \in [Scan -> ScanState]
  BY DEF TypeInv, TypeOK, WorkerTypeOK
<1>2. PICK s \in Scan : commitEscalation(s)
  BY DEF Next, WorkerNext, startWorker, crashWorker, startScan, loadSlaConfig, findOverdue,
     finishScan, scanThrows, beginEscalation, failEscalation, vars
<1> DEFINE n == Notice(scan[s].cur)
<1>3. notification' = IF scan[s].existing THEN notification
                      ELSE [notification EXCEPT ![n] = @ + 1]
  BY <1>2 DEF commitEscalation
<1> HIDE DEF n
<1>4. ~ scan[s].existing /\ n = k /\ notification'[k] = notification[k] + 1
  BY <1>1, <1>3
<1>5. s \in Creators(k)
  BY <1>2, <1>4 DEF Creators, InTx, commitEscalation, n
<1>6. scan'[s].pc = "looping"
  BY <1>1, <1>2 DEF commitEscalation, DoneWith, ScanState
<1>7. s \notin Creators(k)'
  BY <1>6 DEF Creators, InTx
<1> QED
  BY <1>4, <1>5, <1>7

LEMMA CopiesFitStep ==
  ASSUME TypeInv, TypeInv', WorkExists, CreatorsAreFew, CreatorsAreFew', CopiesFit, [Next]_vars
  PROVE  CopiesFit'
<1> SUFFICES ASSUME NEW k \in NoticeKey
             PROVE  Fits(notification'[k] + Cardinality(Creators(k)'),
                         Cardinality(DistsOf(k.incoming)'))
  BY DEF CopiesFit, NoticeKey
<1> DEFINE C == Creators(k)
           D == Creators(k)'
           room == Cardinality(DistsOf(k.incoming))
           more == Cardinality(DistsOf(k.incoming)')
<1>1. notification[k] \in Nat /\ notification'[k] \in Nat
  BY DEF TypeInv, TypeOK, WorkerTypeOK, NoticeKey
<1>2. /\ IsFiniteSet(C) /\ Cardinality(C) \in Nat
      /\ Fits(notification[k] + Cardinality(C), room)
  BY DEF CreatorsAreFew, CopiesFit
<1>3. /\ IsFiniteSet(D) /\ Cardinality(D) \in Nat
      /\ Cardinality(D) <= Cardinality(Scan) /\ Cardinality(D) <= more
  BY DEF CreatorsAreFew, NoticeKey
<1>4. room \in Nat /\ more \in Nat /\ room <= more
  BY DistsOfGrow DEF NoticeKey
<1>5. notification[k] > 0 \/ notification'[k] # notification[k] => D \subseteq C
  BY CreatorsOfOld
<1>6. notification'[k] # notification[k]
        => notification'[k] = notification[k] + 1 /\ \E s \in C : s \notin D
  BY CreatorCreates
<1> HIDE DEF C, D, room, more
<1>7. CASE notification'[k] = 0
  <2>1. notification'[k] + Cardinality(D) = Cardinality(D)
    BY <1>3, <1>7
  <2> QED
    BY <1>3, <2>1 DEF Fits, D, more
<1>8. CASE notification'[k] > 0
  <2>1. notification'[k] + Cardinality(D) <= notification[k] + Cardinality(C)
    <3>1. CASE notification'[k] = notification[k]
      <4>1. Cardinality(D) <= Cardinality(C)
        BY <1>2, <1>5, <1>8, <3>1, FS_Subset
      <4> QED
        BY <1>1, <1>2, <1>3, <3>1, <4>1
    <3>2. CASE notification'[k] # notification[k]
      <4> PICK s \in C : s \notin D
        BY <1>6, <3>2
      <4>1. D \in SUBSET (C \ {s})
        BY <1>5, <3>2
      <4>2. IsFiniteSet(C \ {s}) /\ Cardinality(C \ {s}) = Cardinality(C) - 1
        BY <1>2, FS_RemoveElement
      <4>3. Cardinality(D) <= Cardinality(C) - 1
        BY <4>1, <4>2, FS_Subset
      <4> QED
        BY <1>1, <1>2, <1>3, <1>6, <3>2, <4>3
    <3> QED
      BY <3>1, <3>2
  <2>2. /\ notification[k] + Cardinality(C) \in Nat
        /\ notification'[k] + Cardinality(D) \in Nat
    BY <1>1, <1>2, <1>3
  <2>3. Fits(notification'[k] + Cardinality(D), more)
    BY <1>2, <1>4, <2>1, <2>2, FewerFit
  <2> QED
    BY <2>3 DEF D, more
<1> QED
  BY <1>1, <1>7, <1>8

\* NoticeCopiesBounded, whatever scans overlap and crash: a notification is
\* there once, or other distributions of its record and scans under way at the
\* same time account for every copy.
THEOREM NoticeCopiesStayFew == Spec => []NoticeCopiesBounded
<1>1. Init => CopiesFit
  <2> SUFFICES ASSUME Init, NEW k \in NoticeKey
               PROVE  Fits(notification[k] + Cardinality(Creators(k)),
                           Cardinality(DistsOf(k.incoming)))
    BY DEF CopiesFit
  <2>1. notification[k] = 0 /\ Creators(k) = {}
    BY DEF Init, Creators, InTx, IdleScan
  <2>2. notification[k] + Cardinality(Creators(k)) = 0
    BY <2>1, FS_EmptySet
  <2>3. Fits(0, Cardinality(DistsOf(k.incoming)))
    BY DEF Fits
  <2> QED
    BY <2>2, <2>3
<1>2. TypeInv /\ WorkExists => CreatorsAreFew
  BY CreatorsFew
<1>3. Spec => []WorkExists
  <2>1. NoticeInv => WorkExists
    BY DEF NoticeInv
  <2> QED
    BY <2>1, NoticeInvariance, PTL
<1>4. /\ TypeInv /\ TypeInv' /\ WorkExists /\ CreatorsAreFew /\ CreatorsAreFew'
      /\ CopiesFit /\ [Next]_vars
      => CopiesFit'
  BY CopiesFitStep
<1>5. TypeInv /\ CreatorsAreFew /\ CopiesFit => NoticeCopiesBounded
  <2> SUFFICES ASSUME TypeInv, CreatorsAreFew, CopiesFit, NEW k \in NoticeKey
               PROVE  \/ notification[k] <= 1
                      \/ /\ notification[k] <= Cardinality(Scan)
                         /\ notification[k] <= Cardinality(DistsOf(k.incoming))
    BY DEF NoticeCopiesBounded
  <2>1. notification[k] \in Nat /\ Cardinality(Creators(k)) \in Nat
    BY DEF TypeInv, TypeOK, WorkerTypeOK, CreatorsAreFew
  <2>2. Fits(notification[k] + Cardinality(Creators(k)), Cardinality(DistsOf(k.incoming)))
    BY DEF CopiesFit
  <2>3. Fits(notification[k], Cardinality(DistsOf(k.incoming)))
    BY <2>1, <2>2, DistsOfFinite, FewerFit
  <2> QED
    BY <2>3 DEF Fits
<1> QED
  BY <1>1, <1>2, <1>3, <1>4, <1>5, TypeInvariance, PTL DEF Spec

----------------------------------------------------------------------------
LEMMA StatusReadsStep == TypeInv /\ StatusReads /\ [Next]_vars => StatusReads'
<1> SUFFICES ASSUME TypeInv, StatusReads, [Next]_vars PROVE StatusReads'
  OBVIOUS
<1>1. CASE DistNext
  BY <1>1, StatusReadsKept DEF TypeInv, TypeOK
<1>2. CASE UNCHANGED req
  BY <1>2, StillExists DEF StatusReads
<1>3. CASE WorkerNext
  BY <1>2, <1>3 DEF WorkerNext, startWorker, crashWorker, startScan, loadSlaConfig,
     findOverdue, finishScan, scanThrows, beginEscalation, commitEscalation, failEscalation,
     distVars
<1> QED
  BY <1>1, <1>2, <1>3 DEF Next, vars

AuditInv == LogInv /\ StatusReads /\ Audited

LEMMA AuditedStep == AuditInv /\ [Next]_vars => Audited'
<1> SUFFICES ASSUME AuditInv, [Next]_vars PROVE Audited'
  OBVIOUS
<1>1. LogInv /\ TypeInv /\ WorkExists /\ StatusReads /\ Audited
  BY DEF AuditInv, LogInv
<1>2. /\ dist \in [DistId -> Row]
      /\ DistTypeOK
  BY <1>1 DEF TypeInv, TypeOK, DistTypeOK
<1>3. CASE DistNext
  BY <1>1, <1>2, <1>3, HandlersAudit DEF LogInv
<1>4. ASSUME NEW s \in Scan, commitEscalation(s) PROVE Audited'
  <2> DEFINE w == scan[s].cur
             d == w.dist
             e == Entry("ESCALATED", w.seen, "Escalated", w.target)
  <2>1. w \in Work /\ d \in Existing
    BY <1>1, <1>4 DEF commitEscalation, TypeInv, InTxHasWork, WorkExists, InTx
  <2>2. e \in LogEntry /\ e.why = "ESCALATED" /\ "ESCALATED" \in Told
    <3>1. "Escalated" \in Status /\ w.seen \in Status /\ w.target \in Nat
      BY <2>1 DEF Status, Work, Levels
    <3> QED
      BY <3>1, EntryType DEF Entry, Told, AuditAction
  <2>3. AddLog(d, e) /\ AddAudit(dist[d].incoming, "ESCALATED")
    BY <1>4 DEF commitEscalation
  <2>4. \A x \in DistId : dist'[x].incoming = dist[x].incoming
    BY <1>2, <1>4 DEF commitEscalation, Row
  <2> HIDE DEF w, d, e
  <2> QED
    BY <1>1, <1>2, <2>1, <2>2, <2>3, <2>4, RowAdded
<1>5. CASE UNCHANGED <<dist, log, audit>>
  BY <1>1, <1>5, NothingCounted DEF LogRows, DistsOf
<1>6. CASE WorkerNext
  BY <1>4, <1>5, <1>6 DEF WorkerNext, startWorker, crashWorker, startScan, loadSlaConfig,
     findOverdue, finishScan, scanThrows, beginEscalation, failEscalation, distVars
<1> QED
  BY <1>3, <1>5, <1>6 DEF Next, vars

\* EveryChangeAudited, whatever handlers and scans overlap or fail: the audit
\* trail of a document and the logs of its distributions agree.
THEOREM ChangesAreAudited == Spec => []EveryChangeAudited
<1>1. LogInv /\ StatusReads /\ Audited /\ TypeInv' /\ [Next]_vars => AuditInv'
  BY LogInvStep, WorkExistsStep, StatusReadsStep, AuditedStep DEF AuditInv, LogInv
<1>2. Init => Audited /\ StatusReads
  BY AuditBegins DEF Init
<1>3. Audited => EveryChangeAudited
  BY DEF Audited, EveryChangeAudited, Told
<1> QED
  BY <1>1, <1>2, <1>3, LogInvariance, TypeInvariance, PTL DEF Spec, AuditInv

----------------------------------------------------------------------------
(* What holds as long as deadlines and thresholds do not move *)

NothingMoves == DueEdits = {} /\ Configs = {DefaultConfig}

\* A later clock never computes a lower level.
LEMMA TargetRises ==
  ASSUME NEW due \in DueAt, NEW c \in SlaConfig, NEW t \in Nat, NEW u \in Nat, t <= u
  PROVE  computeTargetLevel(due, c, t) <= computeTargetLevel(due, c, u)
<1>1. CASE due = None \/ t <= due
  BY <1>1, TargetLevelType DEF computeTargetLevel
<1>2. CASE ~ (due = None \/ t <= due)
  <2> DEFINE S == {0} \cup LevelsReached(due, c, t)
             T == {0} \cup LevelsReached(due, c, u)
  <2>1. due \in Nat /\ ~ (u <= due)
    BY <1>2 DEF DueAt
  <2>2. \A l \in Levels : c[l] * TicksPerMinute \in Int
    BY SlaInfoAssumption DEF SlaConfig
  <2>3. S \subseteq T
    BY <2>1, <2>2 DEF LevelsReached
  <2>4. computeTargetLevel(due, c, t) = Max(S) /\ computeTargetLevel(due, c, u) = Max(T)
    BY <1>2, <2>1 DEF computeTargetLevel
  <2>5. ASSUME NEW R, R = S \/ R = T
        PROVE  Max(R) \in R /\ \A x \in R : Max(R) >= x
    <3>1. R \subseteq 0 .. 4 /\ 0 \in R
      BY <2>5 DEF LevelsReached, Levels
    <3>2. \E x \in R : \A y \in R : x >= y
      <4>1. CASE 4 \in R
        BY <3>1, <4>1
      <4>2. CASE 4 \notin R /\ 3 \in R
        BY <3>1, <4>2
      <4>3. CASE 4 \notin R /\ 3 \notin R /\ 2 \in R
        BY <3>1, <4>3
      <4>4. CASE 4 \notin R /\ 3 \notin R /\ 2 \notin R
        BY <3>1, <4>4
      <4> QED
        BY <4>1, <4>2, <4>3, <4>4
    <3> HIDE DEF S, T
    <3> QED
      BY <3>2 DEF Max
  <2> HIDE DEF S, T
  <2> QED
    BY <2>3, <2>4, <2>5, TargetLevelType
<1> QED
  BY <1>1, <1>2

\* Nobody turns the clock back.
LEMMA ClockRises == TypeInv /\ [Next]_vars => now' >= now
<1> SUFFICES ASSUME TypeInv, [Next]_vars PROVE now' >= now
  OBVIOUS
<1>1. now \in Nat
  BY DistributionAssumption DEF TypeInv, TypeOK, DistTypeOK
<1>2. CASE DistNext
  <2>1. now' = now \/ tick
    BY <1>2 DEF DistNext, createIncoming, forwardRead, forwardCommit, statusRead,
       statusCommit, requestFails, updateDistributionSLA, assignDistribution,
       addDistributionNote, updateSettings
  <2> QED
    BY <1>1, <2>1 DEF tick
<1>3. CASE WorkerNext
  <2>1. now' = now
    BY <1>3 DEF WorkerNext, startWorker, crashWorker, startScan, loadSlaConfig, findOverdue,
       finishScan, scanThrows, beginEscalation, commitEscalation, failEscalation, distVars
  <2> QED
    BY <1>1, <2>1
<1>4. CASE UNCHANGED vars
  BY <1>1, <1>4 DEF vars
<1> QED
  BY <1>2, <1>3, <1>4 DEF Next

\* Lateness earns d a level of n.
IsEarned(d, n) == computeTargetLevel(dist[d].dueAt, cfg, now) >= n

\* What is earned stays earned: time goes on, and nothing else moves.
LEMMA EarnedStays ==
  ASSUME NothingMoves, TypeInv, TypeInv', [Next]_vars, NEW d \in Existing,
         NEW n \in Nat, IsEarned(d, n)
  PROVE  IsEarned(d, n)'
<1>1. d \in DistId /\ Exists(d) /\ dist \in [DistId -> Row]
  BY DEF Existing, TypeInv, TypeOK, DistTypeOK
<1>2. /\ dist[d].dueAt \in DueAt /\ cfg = DefaultConfig /\ cfg' = DefaultConfig
      /\ DefaultConfig \in SlaConfig /\ now \in Nat /\ now' \in Nat
  BY <1>1, DistributionAssumption DEF TypeInv, TypeOK, DistTypeOK, Row, NothingMoves
<1>3. now' >= now
  BY ClockRises
<1>4. dist'[d].dueAt = dist[d].dueAt
  <2>1. ASSUME NEW i \in Incoming, createIncoming(i) PROVE dist'[d] = dist[d]
    <3>1. NewId # d
      BY <1>1, <2>1 DEF createIncoming, NewId, FreeIds
    <3> QED
      BY <1>1, <2>1, <3>1 DEF createIncoming
  <2>2. ASSUME NEW r \in Request, forwardCommit(r) PROVE dist'[d].dueAt = dist[d].dueAt
    <3>1. NewId # d
      BY <1>1, <2>2 DEF forwardCommit, NewId, FreeIds
    <3>2. \/ dist'[d] = [dist[d] EXCEPT !.status = "Closed", !.lastUpdateAt = now]
          \/ dist'[d] = dist[d]
      BY <1>1, <2>2, <3>1 DEF forwardCommit
    <3> QED
      BY <1>1, <3>2 DEF Row
  <2>3. ASSUME NEW r \in Request, NEW s \in Status, statusCommit(r, s)
        PROVE  dist'[d].dueAt = dist[d].dueAt
    BY <1>1, <2>3 DEF statusCommit, Row
  <2>4. ASSUME NEW x \in DistId, updateDistributionSLA(x) PROVE dist'[d].dueAt = dist[d].dueAt
    BY <1>1, <2>4 DEF updateDistributionSLA, Row, NothingMoves
  <2>5. ASSUME NEW x \in DistId, NEW u \in User, assignDistribution(x, u)
        PROVE  dist'[d].dueAt = dist[d].dueAt
    BY <1>1, <2>5 DEF assignDistribution, Row
  <2>6. ASSUME NEW x \in DistId, addDistributionNote(x) PROVE dist'[d].dueAt = dist[d].dueAt
    BY <1>1, <2>6 DEF addDistributionNote, Row
  <2>7. CASE UNCHANGED dist
    BY <2>7
  <2>8. CASE DistNext
    BY <2>1, <2>2, <2>3, <2>4, <2>5, <2>6, <2>7, <2>8, DistributionAssumption
       DEF DistNext, forwardRead, statusRead, requestFails, updateSettings, tick
  <2>9. CASE WorkerNext
    <3>1. CASE Untouched(d)
      BY <3>1 DEF Untouched
    <3>2. CASE ~ Untouched(d)
      <4>1. PICK s \in InTx :
              dist'[d] = [dist[d] EXCEPT !.status = "Escalated", !.lastUpdateAt = now,
                                         !.escalationCount = scan[s].cur.target]
        BY <1>1, <2>9, <3>2, WorkerStep
      <4> QED
        BY <1>1, <4>1 DEF Row
    <3> QED
      BY <3>1, <3>2
  <2> QED
    BY <2>7, <2>8, <2>9 DEF Next, vars
<1>5. /\ computeTargetLevel(dist[d].dueAt, DefaultConfig, now)
           <= computeTargetLevel(dist[d].dueAt, DefaultConfig, now')
      /\ computeTargetLevel(dist[d].dueAt, DefaultConfig, now) \in 0 .. 4
      /\ computeTargetLevel(dist[d].dueAt, DefaultConfig, now') \in 0 .. 4
  BY <1>2, <1>3, TargetRises, TargetLevelType
<1> QED
  BY <1>2, <1>4, <1>5 DEF IsEarned

\* A scan's clock is behind the wall clock, and its work is for levels that
\* are earned: a commit makes them the level of the row.
WorkIsEarned ==
  \A s \in Scan :
    /\ scan[s].now <= now
    /\ \A w \in scan[s].todo : IsEarned(w.dist, w.target)
    /\ scan[s].pc = "inTx" => IsEarned(scan[s].cur.dist, scan[s].cur.target)

LEMMA WorkIsEarnedStep ==
  ASSUME NothingMoves, TypeInv, TypeInv', WorkExists, WorkIsEarned, [Next]_vars
  PROVE  WorkIsEarned'
<1> SUFFICES ASSUME NEW s \in Scan
             PROVE  /\ scan'[s].now <= now'
                    /\ \A w \in scan'[s].todo : IsEarned(w.dist, w.target)'
                    /\ scan'[s].pc = "inTx" => IsEarned(scan[s].cur.dist, scan[s].cur.target)'
  BY DEF WorkIsEarned
<1>1. /\ scan \in [Scan -> ScanState] /\ scan[s] \in ScanState
      /\ now \in Nat /\ now' \in Nat /\ cfg = DefaultConfig
      /\ dist \in [DistId -> Row] /\ scan[s].cfg = DefaultConfig
      /\ DefaultConfig \in SlaConfig
  BY DistributionAssumption DEF TypeInv, TypeOK, DistTypeOK, WorkerTypeOK, ScanState, NothingMoves
<1>2. ASSUME NEW w \in Work, w \in scan[s].todo \/ (scan[s].pc = "inTx" /\ scan[s].cur = w)
      PROVE  IsEarned(w.dist, w.target)'
  <2>1. w.dist \in Existing /\ IsEarned(w.dist, w.target) /\ w.target \in Nat
    BY <1>2 DEF WorkExists, WorkIsEarned, Work, Levels
  <2> QED
    BY <2>1, EarnedStays
<1>3. \A w \in scan[s].todo : IsEarned(w.dist, w.target)'
  BY <1>1, <1>2 DEF ScanState
<1>4. scan'[s].now <= now'
  <2>1. now' >= now
    BY ClockRises
  <2>2. scan'[s].now \in {scan[s].now, now, 0}
    <3>1. ASSUME NEW t \in Scan, startScan(t) PROVE scan'[s].now \in {scan[s].now, now}
      BY <1>1, <3>1 DEF startScan, ScanState
    <3>2. ASSUME NEW t \in Scan, \/ \E c \in Configs : loadSlaConfig(t, c)
                                 \/ findOverdue(t)
                                 \/ \E w \in scan[t].todo : beginEscalation(t, w)
          PROVE  scan'[s].now = scan[s].now
      <4>1. CASE \E c \in Configs : loadSlaConfig(t, c)
        BY <1>1, <4>1 DEF loadSlaConfig, ScanState
      <4>2. CASE findOverdue(t)
        BY <1>1, <4>2 DEF findOverdue, ScanState
      <4>3. CASE \E w \in scan[t].todo : beginEscalation(t, w)
        BY <1>1, <4>3 DEF beginEscalation, ScanState
      <4> QED
        BY <3>2, <4>1, <4>2, <4>3
    <3>3. ASSUME NEW t \in Scan, finishScan(t) \/ scanThrows(t)
          PROVE  scan'[s].now \in {scan[s].now, 0}
      BY <1>1, <3>3 DEF finishScan, scanThrows, IdleScan
    <3>4. ASSUME NEW t \in Scan, commitEscalation(t) \/ failEscalation(t)
          PROVE  scan'[s].now = scan[s].now
      <4>1. scan' = DoneWith(t)
        BY <3>4 DEF commitEscalation, failEscalation
      <4> QED
        BY <1>1, <4>1 DEF DoneWith, ScanState
    <3>5. CASE crashWorker
      BY <3>5 DEF crashWorker, IdleScan
    <3>6. CASE UNCHANGED scan
      BY <3>6
    <3> QED
      BY <3>1, <3>2, <3>3, <3>4, <3>5, <3>6 DEF Next, WorkerNext, startWorker, vars
  <2>3. scan[s].now \in Nat /\ scan[s].now <= now
    BY <1>1 DEF WorkIsEarned, ScanState
  <2> QED
    BY <1>1, <2>1, <2>2, <2>3
<1>5. CASE scan'[s] = scan[s]
  <2>1. scan[s].pc = "inTx" => IsEarned(scan[s].cur.dist, scan[s].cur.target)'
    <3> SUFFICES ASSUME scan[s].pc = "inTx"
                 PROVE  IsEarned(scan[s].cur.dist, scan[s].cur.target)'
      OBVIOUS
    <3> PICK w \in Work : w = scan[s].cur
      BY DEF TypeInv, InTxHasWork, InTx
    <3>1. IsEarned(w.dist, w.target)'
      BY <1>2
    <3> QED
      BY <1>5, <3>1 DEF IsEarned
  <2> QED
    BY <1>3, <1>4, <1>5, <2>1
<1>6. CASE scan'[s].pc # "inTx" /\ scan'[s].todo \subseteq scan[s].todo
  BY <1>3, <1>4, <1>6
<1>7. CASE findOverdue(s)
  <2>1. /\ scan'[s].pc # "inTx" /\ UNCHANGED <<now, cfg, dist>>
        /\ scan'[s].todo = {[dist |-> d, seen |-> dist[d].status, target |-> TargetOf(s, d)] :
                              d \in {e \in DistId : IsSelected(s, e)}}
    BY <1>1, <1>7 DEF findOverdue, ScanState, distVars
  <2>2. ASSUME NEW d \in DistId
        PROVE  computeTargetLevel(dist[d].dueAt, cfg, now) >= TargetOf(s, d)
    <3>1. scan[s].now \in Nat /\ scan[s].now <= now /\ dist[d].dueAt \in DueAt
      BY <1>1 DEF WorkIsEarned, ScanState, Row
    <3>2. /\ computeTargetLevel(dist[d].dueAt, DefaultConfig, scan[s].now)
               <= computeTargetLevel(dist[d].dueAt, DefaultConfig, now)
          /\ computeTargetLevel(dist[d].dueAt, DefaultConfig, scan[s].now) \in 0 .. 4
          /\ computeTargetLevel(dist[d].dueAt, DefaultConfig, now) \in 0 .. 4
      BY <1>1, <3>1, TargetRises, TargetLevelType
    <3> QED
      BY <1>1, <3>2 DEF TargetOf
  <2>3. ASSUME NEW w \in scan'[s].todo PROVE IsEarned(w.dist, w.target)'
    <3>1. PICK d \in DistId : w.dist = d /\ w.target = TargetOf(s, d)
      BY <2>1
    <3>2. computeTargetLevel(dist'[d].dueAt, cfg', now') >= w.target
      BY <2>1, <2>2, <3>1
    <3> QED
      BY <3>1, <3>2 DEF IsEarned
  <2> QED
    BY <1>4, <2>1, <2>3
<1>8. ASSUME NEW w \in scan[s].todo, beginEscalation(s, w)
      PROVE  /\ \A v \in scan'[s].todo : IsEarned(v.dist, v.target)'
             /\ scan'[s].pc = "inTx" => IsEarned(scan[s].cur.dist, scan[s].cur.target)'
  <2>1. scan'[s].cur = w /\ scan'[s].todo = scan[s].todo
    BY <1>1, <1>8 DEF beginEscalation, ScanState
  <2>2. IsEarned(w.dist, w.target)'
    BY <1>3
  <2> QED
    BY <1>3, <2>1, <2>2 DEF IsEarned
<1> QED
  BY <1>4, <1>5, <1>6, <1>7, <1>8, ScanStep

\* EscalationIsEarned as long as no deadline and no threshold moves: however
\* old the work of a scan is, its level is one the distribution has earned.
THEOREM LevelsAreEarned ==
  ASSUME NothingMoves
  PROVE  Spec => []EscalationIsEarned
<1>1. Init => WorkIsEarned /\ EscalationIsEarned
  <2> SUFFICES ASSUME Init PROVE WorkIsEarned /\ EscalationIsEarned
    OBVIOUS
  <2>1. WorkIsEarned
    BY DEF Init, DistInit, IdleScan, WorkIsEarned
  <2>2. EscalationIsEarned
    BY TargetLevelType DEF Init, DistInit, NoRow, EscalationIsEarned
  <2> QED
    BY <2>1, <2>2
<1>2. TypeInv /\ TypeInv' /\ NoticeInv /\ WorkIsEarned /\ EscalationIsEarned /\ [Next]_vars
        => WorkIsEarned' /\ EscalationIsEarned'
  <2> SUFFICES ASSUME TypeInv, TypeInv', NoticeInv, WorkIsEarned, EscalationIsEarned, [Next]_vars,
                      NEW d \in DistId
               PROVE  dist'[d].escalationCount <= computeTargetLevel(dist'[d].dueAt, cfg', now')
    BY WorkIsEarnedStep DEF NoticeInv, EscalationIsEarned
  <2>1. /\ dist[d].escalationCount \in Nat /\ dist'[d].escalationCount \in Nat
        /\ dist \in [DistId -> Row]
    BY DEF TypeInv, TypeOK, DistTypeOK, Row
  <2>2. /\ computeTargetLevel(dist[d].dueAt, cfg, now) \in 0 .. 4
        /\ computeTargetLevel(dist'[d].dueAt, cfg', now') \in 0 .. 4
    BY TargetLevelType
  <2>3. ASSUME NEW s \in InTx, scan[s].cur.dist = d, commitEscalation(s)
        PROVE  dist'[d].escalationCount <= computeTargetLevel(dist'[d].dueAt, cfg', now')
    <3>1. PICK w \in Work : w = scan[s].cur
      BY DEF TypeInv, InTxHasWork
    <3>2. w.dist \in Existing /\ IsEarned(w.dist, w.target) /\ w.target \in Nat
      BY <3>1 DEF NoticeInv, WorkExists, WorkIsEarned, InTx, Work, Levels
    <3>3. IsEarned(w.dist, w.target)'
      BY <3>2, EarnedStays
    <3>4. dist'[d].escalationCount = w.target
      BY <2>1, <2>3, <3>1 DEF commitEscalation, Row
    <3> QED
      BY <2>2, <2>3, <3>1, <3>3, <3>4 DEF IsEarned
  <2>4. CASE \A s \in InTx : scan[s].cur.dist = d => ~ commitEscalation(s)
    <3>1. CASE dist'[d].escalationCount = 0
      BY <2>2, <3>1
    <3>2. CASE dist'[d].escalationCount # 0
      <4> PICK n \in Nat : n = dist[d].escalationCount
        BY <2>1
      <4>1. dist'[d].escalationCount = n
        BY <2>4, <3>2, LevelKept
      <4>2. d \in Existing
        BY <2>1, <3>2, <4>1 DEF NoticeInv, LevelBounded
      <4>3. IsEarned(d, n)
        BY <2>1, <2>2 DEF EscalationIsEarned, IsEarned
      <4>4. IsEarned(d, n)'
        BY <4>2, <4>3, EarnedStays
      <4> QED
        BY <2>2, <4>1, <4>4 DEF IsEarned
    <3> QED
      BY <3>1, <3>2
  <2> QED
    BY <2>3, <2>4
<1> QED
  BY <1>1, <1>2, NoticeInvariance, TypeInvariance, PTL DEF Spec

----------------------------------------------------------------------------
(* Beside the users who read their notifications *)

\* Each step of the composition is one of SlaWorker or leaves it alone.
LEMMA NoticesStep == [NoticesNext]_noticeVars => [Next]_vars
BY DEF NoticesNext, noticeVars, ScanMoves, commitAndPush, pushRealtimeNotification, markRead,
       crashWhilePushing, Next, WorkerNext

\* NoticesSpec implements Spec: users who read and pushes that are answered
\* change nothing for the worker, the handlers and the tables of module SlaWorker.
THEOREM NoticesKeepWorker == NoticesSpec => Spec
BY NoticesStep, PTL DEF NoticesSpec, NoticesInit, Spec

\* Distribution d has been escalated to level l.
Reached(d, l) == \E n \in EscalationRows(log[d]) : log[d][n].level = l

\* What a log says stays there.
LEMMA ReachedStays ==
  ASSUME TypeInv, [Next]_vars, NEW d \in DistId, NEW l, Reached(d, l)
  PROVE  Reached(d, l)'
<1>1. log[d] \in Seq(LogEntry)
  BY DEF TypeInv, TypeOK, DistTypeOK
<1>2. log'[d] = log[d] \/ \E e : log'[d] = Append(log[d], e)
  <2>1. CASE DistNext
    BY <2>1, HandlerStep, TablesTyped DEF Untouched, Opened, Handled
  <2>2. CASE WorkerNext
    BY <2>2, WorkerStep DEF Untouched
  <2>3. CASE UNCHANGED vars
    BY <2>3 DEF vars
  <2> QED
    BY <2>1, <2>2, <2>3 DEF Next
<1>3. ASSUME NEW e, log'[d] = Append(log[d], e) PROVE Reached(d, l)'
  <2> PICK n \in DOMAIN log[d] : log[d][n].why = "ESCALATED" /\ log[d][n].level = l
    BY DEF Reached, EscalationRows
  <2>1. n \in DOMAIN log'[d] /\ log'[d][n] = log[d][n]
    BY <1>1, <1>3
  <2> QED
    BY <2>1 DEF Reached, EscalationRows
<1>4. CASE log'[d] = log[d]
  BY <1>4 DEF Reached, EscalationRows
<1> QED
  BY <1>2, <1>3, <1>4

\* A commit is in the log.
LEMMA CommitReaches ==
  ASSUME TypeInv, NEW s \in InTx, NEW w \in Work, w = scan[s].cur, commitEscalation(s)
  PROVE  Reached(w.dist, w.target)'
<1> DEFINE e == Entry("ESCALATED", w.seen, "Escalated", w.target)
<1>1. w.dist \in DistId /\ log \in [DistId -> Seq(LogEntry)]
  BY DEF Work, TypeInv, TypeOK, DistTypeOK
<1>2. e.why = "ESCALATED" /\ e.level = w.target /\ e \in LogEntry
  <2>1. w.seen \in Status /\ w.target \in Nat /\ "Escalated" \in Status
    BY DEF Work, Levels, Status
  <2> QED
    BY <2>1, EntryType DEF Entry, AuditAction
<1>3. log'[w.dist] = Append(log[w.dist], e)
  BY <1>1 DEF commitEscalation, AddLog
<1> HIDE DEF e
<1>4. \E n \in DOMAIN log'[w.dist] : log'[w.dist][n] = e
  <2>1. log[w.dist] \in Seq(LogEntry)
    BY <1>1
  <2>2. /\ Len(log[w.dist]) + 1 \in DOMAIN log'[w.dist]
        /\ log'[w.dist][Len(log[w.dist]) + 1] = e
    <3>1. \A l \in Seq(LogEntry), x \in LogEntry :
            /\ Len(l) + 1 \in DOMAIN Append(l, x)
            /\ Append(l, x)[Len(l) + 1] = x
      OBVIOUS
    <3> QED
      BY <1>2, <1>3, <2>1, <3>1
  <2> QED
    BY <2>2
<1>5. \E n \in EscalationRows(log'[w.dist]) : log'[w.dist][n].level = w.target
  BY <1>2, <1>4 DEF EscalationRows
<1> QED
  BY <1>5 DEF Reached

\* A notification tells of an escalation there has been.
NoticeHasCause ==
  \A k \in NoticeKey : notification[k] > 0 => \E d \in DistsOf(k.incoming) : Reached(d, k.level)

LEMMA NoticeHasCauseStep ==
  ASSUME TypeInv, NoticeInv, NoticeHasCause, [Next]_vars
  PROVE  NoticeHasCause'
<1> SUFFICES ASSUME NEW k \in NoticeKey, notification'[k] > 0
             PROVE  \E d \in DistsOf(k.incoming)' : Reached(d, k.level)'
  BY DEF NoticeHasCause, NoticeKey
<1>1. notification \in [NoticeKey -> Nat] /\ k.incoming \in Incoming
  BY DEF TypeInv, TypeOK, WorkerTypeOK, NoticeKey
<1>2. CASE notification[k] > 0
  <2> PICK d \in DistsOf(k.incoming) : Reached(d, k.level)
    BY <1>2 DEF NoticeHasCause
  <2>1. d \in DistId /\ d \in Existing
    BY <1>1, DistributionAssumption DEF DistsOf, Existing, Exists
  <2>2. d \in DistsOf(k.incoming)'
    BY <2>1, StillExists DEF DistsOf
  <2>3. Reached(d, k.level)'
    BY <2>1, ReachedStays
  <2> QED
    BY <2>2, <2>3
<1>3. ASSUME NEW s \in Scan, commitEscalation(s), notification'[k] # notification[k]
      PROVE  \E d \in DistsOf(k.incoming)' : Reached(d, k.level)'
  <2>1. s \in InTx
    BY <1>3 DEF commitEscalation, InTx
  <2> PICK w \in Work : w = scan[s].cur
    BY <2>1 DEF TypeInv, InTxHasWork
  <2>2. w.dist \in Existing
    BY <2>1 DEF NoticeInv, WorkExists, InTx
  <2>3. Notice(w) = k
    <3> DEFINE n == Notice(w)
    <3>1. notification' = notification \/ notification' = [notification EXCEPT ![n] = @ + 1]
      BY <1>3 DEF commitEscalation
    <3> HIDE DEF n
    <3>2. n = k
      BY <1>1, <1>3, <3>1
    <3> QED
      BY <3>2 DEF n
  <2>4. dist[w.dist].incoming = k.incoming /\ w.target = k.level
    BY <2>2, <2>3, NoticeType
  <2>5. w.dist \in DistsOf(k.incoming)'
    BY <2>2, <2>4, StillExists DEF DistsOf, Existing
  <2>6. Reached(w.dist, w.target)'
    BY <1>3, <2>1, CommitReaches
  <2> QED
    BY <2>4, <2>5, <2>6
<1>4. CASE UNCHANGED notification
  BY <1>2, <1>4
<1>5. CASE \E s \in Scan : commitEscalation(s)
  BY <1>1, <1>2, <1>3, <1>5
<1> QED
  BY <1>4, <1>5 DEF Next, WorkerNext, startWorker, crashWorker, startScan, loadSlaConfig,
     findOverdue, finishScan, scanThrows, beginEscalation, failEscalation, vars

----------------------------------------------------------------------------
(* Escalations rise, and silence has a cause *)

\* A commit changes the distribution it escalates, and no other.
LEMMA CommitStep ==
  ASSUME TypeInv, NEW s \in InTx, commitAndPush(s), NEW d \in DistId
  PROVE  /\ scan[s].cur.dist # d => Untouched(d)
         /\ scan[s].cur.dist = d =>
              /\ dist'[d].escalationCount = scan[s].cur.target
              /\ log'[d] = Append(log[d], Entry("ESCALATED", scan[s].cur.seen, "Escalated",
                                                scan[s].cur.target))
<1>1. /\ dist \in [DistId -> Row] /\ log \in [DistId -> Seq(LogEntry)]
      /\ commitEscalation(s)
  BY DEF TypeInv, TypeOK, DistTypeOK, commitAndPush
<1>2. CASE scan[s].cur.dist # d
  BY <1>1, <1>2 DEF commitEscalation, AddLog, Untouched
<1>3. CASE scan[s].cur.dist = d
  BY <1>1, <1>3 DEF commitEscalation, AddLog, Row
<1> QED
  BY <1>2, <1>3

\* What a step of the composition does to one distribution.
LEMMA NoticesDistStep ==
  ASSUME TypeInv, [NoticesNext]_noticeVars, NEW d \in DistId
  PROVE  \/ Untouched(d) \/ Opened(d) \/ Handled(d)
         \/ \E s \in InTx : commitAndPush(s) /\ scan[s].cur.dist = d
<1>1. CASE DistNext
  BY <1>1, HandlerStep, TablesTyped
<1>2. ASSUME NEW s \in Scan, commitAndPush(s)
      PROVE  s \in InTx /\ (Untouched(d) \/ scan[s].cur.dist = d)
  <2>1. s \in InTx
    BY <1>2 DEF commitAndPush, commitEscalation, InTx
  <2> QED
    BY <1>2, <2>1, CommitStep
<1>3. CASE UNCHANGED <<dist, log>>
  BY <1>3 DEF Untouched
<1>4. CASE ~ DistNext /\ ~ \E s \in Scan : commitAndPush(s)
  BY <1>3, <1>4 DEF NoticesNext, ScanMoves, pushRealtimeNotification, markRead,
     crashWhilePushing, crashWorker, startWorker, startScan, loadSlaConfig, findOverdue,
     finishScan, scanThrows, beginEscalation, failEscalation, noticeVars, vars, distVars
<1> QED
  BY <1>1, <1>2, <1>4

\* A scan's work is one thing per distribution and holds what it works on; it
\* raises the level unless another scan has escalated the distribution since.
WorkRaises ==
  \A s \in Scan :
    /\ \A w \in scan[s].todo : <<s, w.dist>> \in behind \/ w.target > dist[w.dist].escalationCount
    /\ \A v, w \in scan[s].todo : v.dist = w.dist => v = w
    /\ scan[s].pc = "inTx" => scan[s].cur \in scan[s].todo

\* A scan that is behind stays so, as long as it has the work to do.
LEMMA BehindStays ==
  ASSUME [NoticesNext]_noticeVars, TypeInv, NEW s \in Scan, NEW w \in scan'[s].todo,
         w.dist \in DistId, <<s, w.dist>> \in behind
  PROVE  <<s, w.dist>> \in behind'
<1>1. <<s, w.dist>> \in ToDo'
  BY DEF ToDo
<1>2. CASE \E t \in Scan : commitAndPush(t) \/ ScanMoves(t)
  BY <1>1, <1>2 DEF commitAndPush, ScanMoves
<1>3. CASE crashWhilePushing
  BY <1>3 DEF crashWhilePushing, crashWorker, IdleScan
<1> QED
  BY <1>2, <1>3 DEF NoticesNext, noticeVars, history, pushRealtimeNotification, markRead

\* Once a distribution has been escalated, everybody else is behind on it.
LEMMA CommitLeavesBehind ==
  ASSUME NEW t \in Scan, commitAndPush(t), NEW s \in Scan, NEW w \in scan'[s].todo,
         w.dist \in DistId, w.dist = scan[t].cur.dist
  PROVE  <<s, w.dist>> \in behind'
<1>1. <<s, w.dist>> \in ToDo'
  BY DEF ToDo
<1> QED
  BY <1>1 DEF commitAndPush

LEMMA WorkRaisesStep ==
  ASSUME TypeInv, TypeInv', WorkExists, WorkRaises, [NoticesNext]_noticeVars
  PROVE  WorkRaises'
<1> SUFFICES ASSUME NEW s \in Scan
             PROVE  /\ \A w \in scan'[s].todo :
                         <<s, w.dist>> \in behind' \/ w.target > dist'[w.dist].escalationCount
                    /\ \A v, w \in scan'[s].todo : v.dist = w.dist => v = w
                    /\ scan'[s].pc = "inTx" => scan'[s].cur \in scan'[s].todo
  BY DEF WorkRaises
<1>1. /\ scan \in [Scan -> ScanState] /\ scan[s] \in ScanState
      /\ \A w \in scan[s].todo : w \in Work /\ w.dist \in DistId /\ w.dist \in Existing
  BY DEF TypeInv, TypeOK, WorkerTypeOK, ScanState, Work, WorkExists
<1>2. /\ \A w \in scan[s].todo :
           <<s, w.dist>> \in behind \/ w.target > dist[w.dist].escalationCount
      /\ \A v, w \in scan[s].todo : v.dist = w.dist => v = w
      /\ scan[s].pc = "inTx" => scan[s].cur \in scan[s].todo
  BY DEF WorkRaises
<1>3. [Next]_vars
  BY NoticesStep
<1>4. ASSUME NEW w \in scan[s].todo, w \in scan'[s].todo
      PROVE  <<s, w.dist>> \in behind' \/ w.target > dist'[w.dist].escalationCount
  <2>1. CASE <<s, w.dist>> \in behind
    BY <1>1, <1>4, <2>1, BehindStays
  <2>2. ASSUME NEW t \in InTx, commitAndPush(t), scan[t].cur.dist = w.dist
        PROVE  <<s, w.dist>> \in behind'
    BY <1>1, <1>4, <2>2, CommitLeavesBehind DEF InTx
  <2>3. CASE Untouched(w.dist) \/ Opened(w.dist) \/ Handled(w.dist)
    <3>1. dist'[w.dist].escalationCount = dist[w.dist].escalationCount
      BY <1>1, <2>3 DEF Untouched, Opened, Handled, Existing
    <3> QED
      BY <1>2, <2>1, <3>1
  <2> QED
    BY <1>1, <2>2, <2>3, NoticesDistStep
<1>5. CASE scan'[s] = scan[s]
  BY <1>2, <1>4, <1>5
<1>6. CASE scan'[s].pc # "inTx" /\ scan'[s].todo \subseteq scan[s].todo
  BY <1>2, <1>4, <1>6
<1>7. CASE findOverdue(s)
  <2>1. /\ scan'[s].pc # "inTx" /\ UNCHANGED dist
        /\ scan'[s].todo = {[dist |-> d, seen |-> dist[d].status, target |-> TargetOf(s, d)] :
                              d \in {e \in DistId : IsSelected(s, e)}}
    BY <1>1, <1>7 DEF findOverdue, ScanState, distVars
  <2>2. \A d \in DistId : IsSelected(s, d) => TargetOf(s, d) > dist'[d].escalationCount
    BY <2>1 DEF IsSelected
  <2> QED
    BY <2>1, <2>2
<1>8. ASSUME NEW w \in scan[s].todo, beginEscalation(s, w)
      PROVE  scan'[s].cur = w /\ scan'[s].todo = scan[s].todo
  BY <1>1, <1>8 DEF beginEscalation, ScanState
<1> QED
  BY <1>2, <1>3, <1>4, <1>5, <1>6, <1>7, <1>8, ScanStep

\* A scan that is not behind commits a higher level than there was.
LEMMA CommitRaises ==
  ASSUME TypeInv, WorkRaises, NEW s \in InTx, <<s, scan[s].cur.dist>> \notin behind
  PROVE  scan[s].cur.target > dist[scan[s].cur.dist].escalationCount
BY DEF WorkRaises, InTx

\* A log that grows by a row keeps the escalations it tells of; a new one is
\* the row at its end.
LEMMA EscalationRowsGrow ==
  \A rows \in Seq(LogEntry), e \in LogEntry :
    /\ Len(rows) + 1 \in Nat /\ Len(rows) + 1 = Len(Append(rows, e))
    /\ Append(rows, e)[Len(rows) + 1] = e
    /\ \A n \in EscalationRows(rows) :
         n \in Nat /\ n < Len(rows) + 1 /\ Append(rows, e)[n] = rows[n]
    /\ e.why = "ESCALATED" =>
         EscalationRows(Append(rows, e)) = EscalationRows(rows) \cup {Len(rows) + 1}
    /\ e.why # "ESCALATED" => EscalationRows(Append(rows, e)) = EscalationRows(rows)
<1> TAKE rows \in Seq(LogEntry), e \in LogEntry
<1> DEFINE more == Append(rows, e)
           m == Len(rows) + 1
<1>1. /\ DOMAIN rows = 1 .. Len(rows) /\ DOMAIN more = 1 .. m
      /\ m \in Nat /\ m = Len(more) /\ m \notin DOMAIN rows /\ m \in DOMAIN more
      /\ \A n \in DOMAIN rows : n \in Nat /\ n < m /\ n \in DOMAIN more /\ more[n] = rows[n]
      /\ more[m] = e
      /\ \A n \in DOMAIN more : n = m \/ n \in DOMAIN rows
  OBVIOUS
<1> HIDE DEF more, m
<1>2. /\ m \in Nat /\ m = Len(more) /\ more[m] = e
      /\ \A n \in EscalationRows(rows) : n \in Nat /\ n < m /\ more[n] = rows[n]
      /\ e.why = "ESCALATED" => EscalationRows(more) = EscalationRows(rows) \cup {m}
      /\ e.why # "ESCALATED" => EscalationRows(more) = EscalationRows(rows)
  BY <1>1 DEF EscalationRows
<1> QED
  BY <1>2 DEF more, m

LEMMA RisesStays ==
  ASSUME NEW rows \in Seq(LogEntry), NEW e \in LogEntry, NEW m \in EscalationRows(rows),
         Rises(rows, m)
  PROVE  Rises(Append(rows, e), m)
<1> DEFINE more == Append(rows, e)
           end == Len(rows) + 1
<1>1. /\ end \in Nat
      /\ \A n \in EscalationRows(rows) : n \in Nat /\ n < end /\ more[n] = rows[n]
      /\ e.why = "ESCALATED" => EscalationRows(more) = EscalationRows(rows) \cup {end}
      /\ e.why # "ESCALATED" => EscalationRows(more) = EscalationRows(rows)
  BY EscalationRowsGrow
<1> HIDE DEF more, end
<1>2. {n \in EscalationRows(more) : n < m} = {n \in EscalationRows(rows) : n < m}
  <2>1. ~ end < m
    BY <1>1
  <2>2. \A n : n \in EscalationRows(more) /\ n < m <=> n \in EscalationRows(rows) /\ n < m
    BY <1>1, <2>1
  <2> QED
    BY <2>2
<1>3. ASSUME NEW n \in EscalationRows(rows), n < m,
             IsNewest(n, {k \in EscalationRows(rows) : k < m})
      PROVE  more[n].level < more[m].level
  <2>1. rows[n].level < rows[m].level
    BY <1>3 DEF Rises
  <2> QED
    BY <1>1, <2>1
<1>4. Rises(more, m)
  BY <1>2, <1>3 DEF Rises
<1> QED
  BY <1>4 DEF more

LEMMA EscalationsRiseStep ==
  ASSUME LogInv, WorkRaises, EscalationsRise, [NoticesNext]_noticeVars
  PROVE  EscalationsRise'
<1> SUFFICES ASSUME NEW d \in DistId, NEW m \in EscalationRows(log'[d]), <<d, m>> \notin crossed'
             PROVE  Rises(log'[d], m)
  BY DEF EscalationsRise
<1>1. TypeInv /\ log[d] \in Seq(LogEntry) /\ dist[d].escalationCount \in Nat
  BY DEF LogInv, TypeInv, TypeOK, DistTypeOK, Row
<1>2. <<d, m>> \notin crossed
  BY DEF NoticesNext, noticeVars, history, ScanMoves, commitAndPush, pushRealtimeNotification,
         markRead, crashWhilePushing
<1>3. m \in EscalationRows(log[d]) => Rises(log[d], m)
  BY <1>2 DEF EscalationsRise
<1>4. ASSUME NEW e \in LogEntry, log'[d] = Append(log[d], e), m \in EscalationRows(log[d])
      PROVE  Rises(log'[d], m)
  BY <1>1, <1>3, <1>4, RisesStays
<1>5. CASE log'[d] = log[d]
  BY <1>3, <1>5
<1>6. ASSUME NEW e \in LogEntry, log'[d] = Append(log[d], e), e.why # "ESCALATED"
      PROVE  Rises(log'[d], m)
  <2>1. EscalationRows(log'[d]) = EscalationRows(log[d])
    BY <1>1, <1>6, EscalationRowsGrow
  <2> QED
    BY <1>4, <1>6, <2>1
<1>7. CASE Untouched(d)
  BY <1>5, <1>7 DEF Untouched
<1>8. CASE Opened(d)
  <2> DEFINE e == Entry("FORWARD", None, "Open", 0)
  <2>1. log'[d] \in {log[d], Append(log[d], e)}
    BY <1>8 DEF Opened
  <2>2. e \in LogEntry /\ e.why = "FORWARD"
    BY EntryType, DistributionAssumption DEF AuditAction, Status, Entry
  <2> HIDE DEF e
  <2> QED
    BY <1>5, <1>6, <2>1, <2>2
<1>9. CASE Handled(d)
  BY <1>6, <1>9 DEF Handled
<1>10. ASSUME NEW s \in InTx, commitAndPush(s), scan[s].cur.dist = d
       PROVE  Rises(log'[d], m)
  <2> PICK w \in Work : w = scan[s].cur
    BY <1>1 DEF TypeInv, InTxHasWork
  <2> DEFINE e == Entry("ESCALATED", w.seen, "Escalated", w.target)
  <2>1. log'[d] = Append(log[d], e)
    BY <1>1, <1>10, CommitStep
  <2>2. e \in LogEntry /\ e.why = "ESCALATED" /\ e.level = w.target /\ w.target \in Nat
    <3>1. w.seen \in Status /\ w.target \in Nat /\ "Escalated" \in Status
      BY DEF Work, Levels, Status
    <3> QED
      BY <3>1, EntryType DEF Entry, AuditAction
  <2> HIDE DEF e
  <2>3. CASE m \in EscalationRows(log[d])
    BY <1>4, <2>1, <2>2, <2>3
  <2>4. CASE m \notin EscalationRows(log[d])
    <3> DEFINE more == Append(log[d], e)
               end == Len(log[d]) + 1
    <3>1. /\ end \in Nat /\ end = Len(more) /\ more[end] = e
          /\ \A n \in EscalationRows(log[d]) : n < end /\ more[n] = log[d][n]
          /\ EscalationRows(more) = EscalationRows(log[d]) \cup {end}
      BY <1>1, <2>2, EscalationRowsGrow
    <3> HIDE DEF more, end
    <3>2. log'[d] = more
      BY <2>1 DEF more
    <3>3. /\ m \in Nat /\ m = Len(log'[d]) /\ log'[d][m] = e
          /\ EscalationRows(log'[d]) = EscalationRows(log[d]) \cup {m}
          /\ \A n \in EscalationRows(log[d]) : n < m /\ log'[d][n] = log[d][n]
      BY <2>4, <3>1, <3>2
    <3>4. <<s, d>> \notin behind
      BY <1>10, <3>3 DEF commitAndPush
    <3>5. w.target > dist[d].escalationCount
      BY <1>1, <1>10, <3>4, CommitRaises
    <3>6. \A n \in EscalationRows(log[d]) :
            IsNewest(n, EscalationRows(log[d])) => log[d][n].level = dist[d].escalationCount
      BY DEF LogInv, RowMatchesLog, Replays
    <3>7. {n \in EscalationRows(log'[d]) : n < m} = EscalationRows(log[d])
      <4>1. ~ m < m
        BY <3>3
      <4>2. \A n : n \in EscalationRows(log'[d]) /\ n < m <=> n \in EscalationRows(log[d])
        BY <3>3, <4>1
      <4> QED
        BY <4>2
    <3>8. ASSUME NEW n \in EscalationRows(log[d]), IsNewest(n, EscalationRows(log[d]))
          PROVE  log'[d][n].level < log'[d][m].level
      <4>1. log[d][n].level < w.target
        BY <3>5, <3>6, <3>8
      <4> QED
        BY <2>2, <3>3, <4>1
    <3> QED
      BY <3>7, <3>8 DEF Rises
  <2> QED
    BY <2>3, <2>4
<1> QED
  BY <1>1, <1>7, <1>8, <1>9, <1>10, NoticesDistStep

\* What the proofs below rest on, of Notices as of SlaWorker.
LEMMA WorkRaisesInvariance ==
  NoticesSpec => [](TypeInv /\ NoticeInv /\ LogInv /\ WorkRaises)
<1>1. NoticesInit => WorkRaises
  BY DEF NoticesInit, Init, WorkRaises, IdleScan
<1>2. TypeInv /\ TypeInv' /\ NoticeInv /\ WorkRaises /\ [NoticesNext]_noticeVars => WorkRaises'
  BY WorkRaisesStep DEF NoticeInv
<1>3. NoticesSpec => [](TypeInv /\ NoticeInv /\ LogInv)
  BY NoticesKeepWorker, TypeInvariance, NoticeInvariance, LogInvariance, PTL
<1> QED
  BY <1>1, <1>2, <1>3, PTL DEF NoticesSpec

\* EscalationsRise, whatever scans overlap and whatever the requests in
\* between: an escalation is to a higher level than the one before it, unless
\* another scan escalated the distribution after the query of its scan.
THEOREM LevelsRise == NoticesSpec => []EscalationsRise
<1>1. NoticesInit => EscalationsRise
  BY DEF NoticesInit, Init, DistInit, EscalationsRise, EscalationRows
<1>2. LogInv /\ WorkRaises /\ EscalationsRise /\ [NoticesNext]_noticeVars => EscalationsRise'
  BY EscalationsRiseStep
<1> QED
  BY <1>1, <1>2, WorkRaisesInvariance, PTL DEF NoticesSpec

\* A scan that was behind has escalated d.
IsCrossed(d) == \E c \in crossed : c[1] = d

LEMMA CrossedStays ==
  ASSUME [NoticesNext]_noticeVars, NEW d, IsCrossed(d)
  PROVE  IsCrossed(d)'
<1>1. crossed \subseteq crossed'
  BY DEF NoticesNext, noticeVars, history, ScanMoves, commitAndPush, pushRealtimeNotification,
         markRead, crashWhilePushing
<1> QED
  BY <1>1 DEF IsCrossed

\* An escalation crosses another, or raises the level.
LEMMA CrossesOrRaises ==
  ASSUME TypeInv, WorkRaises, NEW s \in InTx, commitAndPush(s), NEW d, d = scan[s].cur.dist
  PROVE  IsCrossed(d)' \/ scan[s].cur.target > dist[d].escalationCount
<1>1. CASE <<s, d>> \in behind
  <2>1. <<d, Len(log'[d])>> \in crossed'
    BY <1>1 DEF commitAndPush
  <2> QED
    BY <2>1 DEF IsCrossed
<1>2. CASE <<s, d>> \notin behind
  BY <1>2, CommitRaises
<1> QED
  BY <1>1, <1>2

\* No log tells of a level above the one its distribution is at, unless an
\* escalation has been taken back.
LoggedIsBelow ==
  \A d \in DistId :
    IsCrossed(d) \/ \A n \in EscalationRows(log[d]) : log[d][n].level <= dist[d].escalationCount

LEMMA LoggedIsBelowStep ==
  ASSUME TypeInv, NoticeInv, LogInv, WorkRaises, LoggedIsBelow, [NoticesNext]_noticeVars
  PROVE  LoggedIsBelow'
<1> SUFFICES ASSUME NEW d \in DistId, ~ IsCrossed(d)', NEW n \in EscalationRows(log'[d])
             PROVE  log'[d][n].level <= dist'[d].escalationCount
  BY DEF LoggedIsBelow
<1>0. ~ IsCrossed(d)
  BY CrossedStays
<1>1. /\ log[d] \in Seq(LogEntry) /\ dist \in [DistId -> Row] /\ dist[d] \in Row
      /\ dist[d].escalationCount \in Nat
      /\ \A m \in EscalationRows(log[d]) : /\ log[d][m].level <= dist[d].escalationCount
                                           /\ log[d][m].level \in Nat
  <2>1. /\ log[d] \in Seq(LogEntry) /\ dist \in [DistId -> Row] /\ dist[d] \in Row
        /\ dist[d].escalationCount \in Nat
    BY DEF TypeInv, TypeOK, DistTypeOK, Row
  <2>2. ASSUME NEW m \in EscalationRows(log[d]) PROVE log[d][m].level \in Nat
    <3>1. log[d][m] \in LogEntry
      BY <2>1 DEF EscalationRows
    <3> QED
      BY <3>1 DEF LogEntry
  <2> QED
    BY <1>0, <2>1, <2>2 DEF LoggedIsBelow
<1>2. ASSUME NEW e, log'[d] = Append(log[d], e), n \notin EscalationRows(log[d])
      PROVE  log'[d][n] = e /\ e.why = "ESCALATED"
  BY <1>1, <1>2 DEF EscalationRows
<1>3. ASSUME NEW e, log'[d] = Append(log[d], e), n \in EscalationRows(log[d])
      PROVE  log'[d][n] = log[d][n]
  BY <1>1, <1>3 DEF EscalationRows
<1>4. CASE Untouched(d)
  BY <1>1, <1>4 DEF Untouched
<1>5. CASE Opened(d)
  <2>1. log[d] = <<>>
    BY <1>5 DEF LogInv, FreshIds, Opened, Existing
  <2>2. n \notin EscalationRows(log[d])
    BY <2>1 DEF EscalationRows
  <2> DEFINE e == Entry("FORWARD", None, "Open", 0)
  <2>3. e.why = "FORWARD"
    BY DEF Entry
  <2>4. log'[d] = log[d] \/ log'[d] = Append(log[d], e)
    BY <1>5 DEF Opened
  <2> HIDE DEF e
  <2> QED
    BY <1>2, <2>2, <2>3, <2>4
<1>6. CASE Handled(d)
  <2> PICK e \in LogEntry : log'[d] = Append(log[d], e) /\ e.why # "ESCALATED"
    BY <1>6 DEF Handled
  <2> QED
    BY <1>1, <1>2, <1>3, <1>6 DEF Handled
<1>7. ASSUME NEW s \in InTx, commitAndPush(s), scan[s].cur.dist = d
      PROVE  log'[d][n].level <= dist'[d].escalationCount
  <2>1. /\ dist'[d].escalationCount = scan[s].cur.target
        /\ log'[d] = Append(log[d], Entry("ESCALATED", scan[s].cur.seen, "Escalated",
                                          scan[s].cur.target))
    BY <1>7, CommitStep
  <2>2. PICK w \in Work : w = scan[s].cur
    BY DEF TypeInv, InTxHasWork
  <2>3. w.target > dist[d].escalationCount /\ w.target \in Nat
    BY <1>7, <2>2, CrossesOrRaises DEF Work, Levels
  <2>4. dist'[d].escalationCount = w.target
    BY <2>1, <2>2
  <2> DEFINE e == Entry("ESCALATED", w.seen, "Escalated", w.target)
  <2>5. e.level = w.target /\ log'[d] = Append(log[d], e)
    BY <2>1, <2>2 DEF Entry
  <2> HIDE DEF e
  <2>6. CASE n \in EscalationRows(log[d])
    <3>1. log'[d][n] = log[d][n]
      BY <1>3, <2>5, <2>6
    <3> QED
      BY <1>1, <2>3, <2>4, <2>6, <3>1
  <2>7. CASE n \notin EscalationRows(log[d])
    <3>1. log'[d][n] = e
      BY <1>2, <2>5, <2>7
    <3> QED
      BY <2>3, <2>4, <2>5, <3>1
  <2> QED
    BY <2>6, <2>7
<1> QED
  BY <1>4, <1>5, <1>6, <1>7, NoticesDistStep

\* A silent escalation is of a distribution there is.
SilentIsReal == \A e \in silent : e[1] \in Existing

\* SilenceIsExplained is inductive beside a cause for every notification, and
\* logs that stay below the level while no escalation crosses another.
SilenceInv == NoticeHasCause /\ LoggedIsBelow /\ SilentIsReal /\ SilenceIsExplained

\* Why an escalation of x to level l can have been silent.
Explained(x, l) ==
  \/ \E d \in DistsOf(dist[x].incoming) \ {x} : Reached(d, l)
  \/ IsCrossed(x)

LEMMA ExplainedStays ==
  ASSUME TypeInv, [NoticesNext]_noticeVars, NEW x \in Existing, NEW l, Explained(x, l)
  PROVE  x \in Existing' /\ Explained(x, l)'
<1>1. [Next]_vars
  BY NoticesStep
<1>2. x \in Existing' /\ dist'[x].incoming = dist[x].incoming
  BY <1>1, StillExists
<1>3. ASSUME NEW d \in DistsOf(dist[x].incoming) \ {x}, Reached(d, l)
      PROVE  d \in DistsOf(dist[x].incoming)' \ {x} /\ Reached(d, l)'
  <2>1. d \in Existing
    BY DEF DistsOf, Existing, Exists
  <2>2. d \in DistId /\ dist'[d].incoming = dist[d].incoming
    BY <1>1, <2>1, StillExists DEF Existing
  <2>3. d \in DistsOf(dist[x].incoming)'
    BY <1>2, <2>2 DEF DistsOf
  <2>4. Reached(d, l)'
    BY <1>1, <1>3, <2>2, ReachedStays
  <2> QED
    BY <2>3, <2>4
<1>4. CASE IsCrossed(x)
  BY <1>2, <1>4, CrossedStays DEF Explained
<1>5. CASE \E d \in DistsOf(dist[x].incoming) \ {x} : Reached(d, l)
  BY <1>2, <1>3, <1>5 DEF Explained
<1> QED
  BY <1>4, <1>5 DEF Explained

LEMMA SilenceStep ==
  ASSUME TypeInv, NoticeInv, LogInv, WorkRaises, SilenceInv, [NoticesNext]_noticeVars
  PROVE  SilentIsReal' /\ SilenceIsExplained'
<1> SUFFICES ASSUME NEW e \in silent'
             PROVE  e[1] \in Existing' /\ Explained(e[1], e[2])'
  BY DEF SilentIsReal, SilenceIsExplained, Explained, Reached, IsCrossed
<1>1. CASE e \in silent
  <2>1. e[1] \in Existing /\ Explained(e[1], e[2])
    BY <1>1 DEF SilenceInv, SilentIsReal, SilenceIsExplained, Explained, Reached, IsCrossed
  <2> QED
    BY <2>1, ExplainedStays
<1>2. ASSUME NEW s \in Scan, commitAndPush(s), scan[s].existing, e = Escalation(s)
      PROVE  e[1] \in Existing' /\ Explained(e[1], e[2])'
  <2>1. s \in InTx
    BY <1>2 DEF commitAndPush, commitEscalation, InTx
  <2> PICK w \in Work : w = scan[s].cur
    BY <2>1 DEF TypeInv, InTxHasWork
  <2>2. e[1] = w.dist /\ e[2] = w.target
    BY <1>2 DEF Escalation
  <2>3. w.dist \in Existing /\ w.dist \in DistId
    BY <2>1 DEF NoticeInv, WorkExists, InTx, Existing
  <2>4. PICK d \in DistsOf(dist[w.dist].incoming) : Reached(d, w.target)
    <3>1. notification[Notice(w)] > 0
      BY <1>2, <2>1 DEF NoticeInv, FoundNotice
    <3>2. /\ Notice(w) \in NoticeKey
          /\ Notice(w).incoming = dist[w.dist].incoming
          /\ Notice(w).level = w.target
      BY <2>3, NoticeType
    <3> QED
      BY <3>1, <3>2 DEF SilenceInv, NoticeHasCause
  <2>5. CASE d # w.dist
    <3>1. Explained(w.dist, w.target)
      BY <2>4, <2>5 DEF Explained
    <3> QED
      BY <2>2, <2>3, <3>1, ExplainedStays
  <2>6. CASE d = w.dist /\ IsCrossed(w.dist)
    <3>1. Explained(w.dist, w.target)
      BY <2>6 DEF Explained
    <3> QED
      BY <2>2, <2>3, <3>1, ExplainedStays
  <2>7. CASE d = w.dist /\ ~ IsCrossed(w.dist)
    <3>1. ~ w.target > dist[w.dist].escalationCount
      <4>1. \A n \in EscalationRows(log[w.dist]) :
              log[w.dist][n].level <= dist[w.dist].escalationCount
        BY <2>3, <2>7 DEF SilenceInv, LoggedIsBelow
      <4>2. PICK n \in EscalationRows(log[w.dist]) : log[w.dist][n].level = w.target
        BY <2>4, <2>7 DEF Reached
      <4>3. dist[w.dist].escalationCount \in Nat /\ w.target \in Nat
        BY <2>3 DEF TypeInv, TypeOK, DistTypeOK, Row, Work, Levels
      <4> QED
        BY <4>1, <4>2, <4>3
    <3>2. IsCrossed(w.dist)'
      BY <1>2, <2>1, <3>1, CrossesOrRaises
    <3>3. w.dist \in Existing'
      BY <2>3, NoticesStep, StillExists
    <3> QED
      BY <2>2, <3>2, <3>3 DEF Explained
  <2> QED
    BY <2>5, <2>6, <2>7
<1>3. CASE silent' = silent
  BY <1>1, <1>3
<1>4. CASE \E s \in Scan : commitAndPush(s)
  BY <1>1, <1>2, <1>4 DEF commitAndPush
<1> QED
  BY <1>3, <1>4 DEF NoticesNext, noticeVars, history, ScanMoves, pushRealtimeNotification,
     markRead, crashWhilePushing

\* SilenceIsExplained, whatever scans overlap: an escalation that leaves its
\* user no unread notification has another distribution of the record to
\* blame, which had been escalated to the same level before, or a scan that
\* escalated this one after another had overtaken it.
THEOREM SilenceHasACause == NoticesSpec => []SilenceIsExplained
<1>1. NoticesInit => SilenceInv
  <2> SUFFICES ASSUME NoticesInit PROVE SilenceInv
    OBVIOUS
  <2>1. NoticeHasCause /\ SilentIsReal /\ SilenceIsExplained
    BY DEF NoticesInit, Init, NoticeHasCause, SilentIsReal, SilenceIsExplained
  <2>2. LoggedIsBelow
    BY DEF NoticesInit, Init, DistInit, LoggedIsBelow, EscalationRows
  <2> QED
    BY <2>1, <2>2 DEF SilenceInv
<1>2. TypeInv /\ NoticeInv /\ LogInv /\ WorkRaises /\ SilenceInv /\ [NoticesNext]_noticeVars
        => SilenceInv'
  BY NoticesStep, NoticeHasCauseStep, LoggedIsBelowStep, SilenceStep DEF SilenceInv
<1>3. SilenceInv => SilenceIsExplained
  BY DEF SilenceInv
<1> QED
  BY <1>1, <1>2, <1>3, WorkRaisesInvariance, PTL DEF NoticesSpec

============================================================================
