# Archive backend: a TLA+ model

The repository is the backend of an electronic archive (NestJS, Prisma,
PostgreSQL, under `src/`): correspondence is registered with a number,
distributed to departments, escalated when it is late, and kept with its files.
Two kinds of process work on one database: API servers that handle requests,
and the SLA worker (`src/worker.ts`), started beside them. Paths below are
relative to the repository's root.

## The system

| Component | State | Operations | Interacts with | What makes it correct |
|---|---|---|---|---|
| SLA worker, `src/worker.ts` | its scans in progress; rows of IncomingDistribution, its log, AuditTrail, Notification | `main`, `runScan`, `loadSlaConfig` | shares every row with the handlers; posts to the API's realtime gateway | each late distribution reaches its level and somebody is told; nothing is escalated twice, too early, or after it was closed |
| Incoming distributions, `src/incoming/` | IncomingDistribution, IncomingDistributionLog, AuditTrail | create, forward, status, SLA, assign, note | each other and the worker, through rows; the connection pool | the log and the audit trail tell what happened to the row; every request ends |
| Registration, `src/incoming/`, `src/outgoing/` | IncomingRecord, OutgoingRecord, Document, ExternalParty, NumberSequence | `createIncoming`, `createOutgoing` | each other, through the party and the numbers | numbers of a year are 1, 2, 3... with no gap and no double |
| Delivery, `src/outgoing/` | OutgoingRecord, AuditTrail | `markDelivered` | - | the trail tells the delivery that is stored |
| Document files, `src/files/` | DocumentFile and the stored file | `upload`, `remove`, downloads | each other, what lists show | at most one current version, the newest; uploads go on |
| SLA settings and status, `src/sla/` | SlaSettings | `getSettings`, `updateSettings`, `computeSlaInfo` | read by the worker and the reads | the status shown agrees with the deadline |
| Accounts, `src/auth/`, `src/security/`, `src/users/` | User, PasswordReset, the throttle's counters in Redis | login, lockout, unlock, change and reset of password | the throttle; each other, through the row | failures are counted; a lock holds; a replaced password is refused; a link works once |
| Authorization, `src/auth/`, `src/rbac/`, `src/users/` | UserRole, RolePermission, a cache in the memory of the API process, tokens | `list`, `invalidate`, `setRolePermissions`, `setUserRoles` (two of them), login, `PermissionsGuard` | guards of every route | what the guard lets through is what the rows say, or said not long ago |
| Departments, `src/departments/` | Department | create, update or toggle the status | the seed | few rows of one name |
| Start-up, `src/entrypoint.sh`, `prisma/seed.ts` | which rows of the seed are there | migrate, count users, seed | other instances that start | an instance that serves has what it needs |
| Notifications, `src/notifications/` | Notification, open sockets | list, mark as read, push | the worker | who has to act is told, at least by the list |
| Reads: my desk, search, statistics, timeline, dashboard, audit | none | queries | all tables | lists and figures that are made of several statements fit together |
| `src/escalation/` | - | a cron job no module starts | - | dead code: `src/worker.ts` replaced it |
| Scripts, `scripts/` | none | grant permissions and roles, reset the administrator's password | rows of users, roles and permissions, beside a running API | the cache and the logins bear with changes nobody tells them of |

The behaviour that is hard to test lies where rows are read in one step and
written in a later one. No query asks for a lock, every transaction runs at
PostgreSQL's default Read Committed, and the worker takes its decisions from a
list it read before the first of its transactions. On top of that:

- `main` starts a scan every `INTERVAL_MS` whether or not the previous one has
  ended, so scans overlap;
- each distribution is escalated in a transaction of its own, so a scan may do
  some of its work and die;
- `upload`, `remove`, `markDelivered`, the logins and the seed use no
  transaction at all;
- a login takes the count of failures, the lock and the hash from one query and
  writes a count computed from them after `bcrypt` has run; the throttle's
  counters are read when a login begins and raised when it ends;
- a token carries the permissions of its login and cannot be called back, and
  the guard asks a cache when it carries none;
- three handlers read through `this.prisma` inside a transaction and so need a
  second connection of the pool while they hold one;
- lists are paged by offset while rows come, go and move, and figures that are
  shown side by side are counted by statements of their own;
- numbers are computed by counting (incoming) or from a row (outgoing) by
  handlers that run at the same time, and the year may change while they do.

`PROJECT.json` lists each of these hazards at its line, with the properties that
would show it going wrong.

## The modules

```
SlaInfo <- Distribution <- SlaWorker <- MCSlaWorker
                        |            <- Notices <- MCNotices, SlaWorkerProofs
                        <- Desk <- MCDesk, DeskProofs
                        <- DistributionProofs <- SlaWorkerProofs, DeskProofs
NumberBook <= Registry <- MCRegistry, RecordsProofs
DocumentFiles <- Documents <- RecordsProofs
AuthzCache <- Tokens <- AuthzProofs
LoginThrottle <- Accounts <- MCAccounts, AccountsProofs
ConnectionPool <- ConnectionPoolProofs
Departments <- Setup <- SetupProofs
        a <- b: b extends a          a <= b: b implements a
```

**SlaInfo** has the two pure functions that read a deadline:
`computeTargetLevel` of the worker and the status of `computeSlaInfo`. Time is
in ticks; `TicksPerMinute` of them make a minute, so that rounding to minutes is
a definition and not the identity.

**Distribution** is the incoming service's commands. Each is one transaction.
A command that uses what it read (`forwardIncoming`, `updateDistributionStatus`)
is a read step and a commit step with anything in between; the others read only
a distribution's document, which never changes, and are one step. `Writable` is
the row lock: an UPDATE waits for the transaction that has updated the row. A
handler that fails, or whose process dies, commits nothing (`requestFails`).
`audit` counts a record's AuditTrail rows by action; `log` keeps each
distribution's log rows in order.

**SlaWorker** adds the worker. `startScan` fixes the scan's clock;
`loadSlaConfig` reads the thresholds or falls back to the built-in ones;
`findOverdue` is the one query with the levels computed from it;
`beginEscalation` is a distribution's transaction up to its last read (its first
statement is the UPDATE, which locks the row, so nobody else's update comes
between); `commitEscalation` and `failEscalation` end it. `crashWorker` forgets
all scans and rolls their transactions back. `scanThrows` is a failing query: in
the first scan it ends `main` before `setInterval` is reached. A notification is
known by what the duplicate check compares: user, title (the level), body and
link (the record).

**Notices** composes the worker with NotificationsService on the same rows: a
notification is unread until its user marks it (`markRead`); after a commit the
worker pushes the notification to the API and waits for the answer
(`commitAndPush`, `pushRealtimeNotification`), whatever it is. The push is not
retried, and its HTTP status is looked at by nobody. `silent` remembers the
escalations whose notification turned out to be one already read. Scans overlap
here as in SlaWorker, and two more history variables remember what comes of it:
a scan is `behind` with a distribution that another scan has escalated since its
query, and `crossed` has the log rows of what such scans did all the same.

**Registry** is `createIncoming` and `createOutgoing` as transactions: `begin`
reads the clock's year and looks up the external party, the number is computed,
and the commit writes record, party and number together, unless the unique
constraint on the number refuses it. The NumberSequence row is locked by its
upsert until the transaction ends (`holder`). **NumberBook** is the abstract
register: a year's numbers are issued one by one. Registry instantiates it
twice, with `issued` the numbers of the incoming and of the outgoing records.

**DocumentFiles** has the three statements of `upload` and the one of `remove`
as separate steps. An upload may stop after any of them (`uploadFails`).
**Documents** puts an outgoing record beside it: what `getOne` and the lists show
of the files, and `markDelivered`, which finds the record, updates it and writes
the audit row in three statements; `crossed` remembers that two requests were
between update and audit row at once.

**AuthzCache** is `list` and `invalidate` of AuthorizationService between the
replacements that change what `list` should answer. A miss notes the time
(`ask`), then Prisma sends one SELECT per table, outside a transaction
(`readRoles`, `readPermissions`), then the answer is put in the map (`store`);
anything may happen in between. RbacService's `setUserRoles` and
`setRolePermissions` delete, insert and commit in a transaction and invalidate
afterwards, the second one from a query for the holders of the role that is a
step of its own. `setUserRoles` of UsersController deletes (`emptyUserRoles`) and
inserts (`createUserRoles`) in separate transactions and never invalidates.
`replacementFails` may stop a replacement before its commit, between its two
transactions, or between its commit and the invalidation. Role ids and
permission codes that do not exist are dropped by the code before it deletes, so
`new` is a set of existing ones. The scripts (`ScriptNext`) add what is missing,
in transactions of their own, and the cache hears nothing of it: the roles a new
user is created with are such grants too. The history variables `rolesAt`, `permsAt` and
the flag `overtaken` are read by properties only.

**Tokens** composes the cache with the other source of permissions: `login`
reads them table by table, and `signToken` dates the token. `canActivate` decides
in one of two ways. `decidesAtOnce` is from the token's own permissions if it has
any, from an entry of the cache otherwise. On a miss the request waits for `list`
(`guardAsks` is the `ask` of that call) and decides on whatever it answers
(`decidesOnAnswer`): neither the age of the answer nor the token is looked at
again, so a query that takes longer than TTL decides all the same. A token dies
with its `TokenLife` only; a restart of the process empties the cache and leaves
tokens alone.

**LoginThrottle** is the two counters in Redis with their window. It fails open:
`getCount` answers 0 when Redis does, and also when Redis fails, so `startLogin`
chooses which of the two counts are `unread`, and `IsLocked` sees only the
others. A counter's `unread` is history: how many logins began beyond its limit
for that reason (`MaxUnread` bounds it in the runs). Commands that change a counter may fail, too
(`throttleFails`). **Accounts** is one user's row with every handler that reads or writes count, lock, hash or
reset link: login with its six ends, `completePasswordReset`, `changePassword`,
`changeOwnPassword`, both resets by an administrator, both ways to unlock,
`createUser`, and the script `resetAdmin`. A handler that compares first is a read step and a write step, with
any other handler in between. `wrong`, `exact`, `uses` and an attempt's `overtaken` are
history.

**ConnectionPool** looks at the same requests from below: which of them hold a
connection, wait for one, or wait for a row. `Kind` has the handlers with a
nested read, those without, and plain queries. `giveUp` and `expire` are
Prisma's limits on the wait for a connection and on the life of a transaction;
an expired transaction frees connection and row, while its handler goes on until
it touches `tx` again.

**Desk** is a reader among the writers of Distribution: pages of my desk, of the
records and of the audit trail; the figures of an overview; the log and the
audit rows of a timeline. Each statement is a step. `FirstRows` is every answer
the database may give to ORDER BY with LIMIT, so rows that tie come in any order,
and in another order on the next page. The order by priority, which comes first
on my desk, is left out: it is one more reason for a row to move.

**Departments** has find and write of each handler as separate steps, and
**Setup** runs the entrypoint and the seed beside it: `migrate`, `countUsers` (or
`countFails`, whose exit status is lost in the pipe to `tee`), then `main` of the
seed step by step in the order of `AfterStep`. All steps but the departments are
upserts, so `has` remembers only which are complete.

The MC modules give constants that a .cfg cannot state (functions, symmetry
sets). Operators whose comment starts with "Fault:" are not part of a specification.
Each is a plausible mistake in the definition that follows it; substituted for
it, it makes a property fail, which shows what the property guards against.

Nothing in the repository sets a time zone, and days are modelled as the
server's own, whole numbers of ticks.

## The runs

| Run | Instance | Shows |
|---|---|---|
| `escalation_overlap` | 1 distribution, closed, reopened and rescheduled, 2 scans, 2 levels, 1 handler, with Notices | locks are released whatever fails; the log replays to the row (`RowMatchesLog`); only a scan that was overtaken repeats an escalation or takes one back (`EscalationsRise`) |
| `escalation_safety` | 2 distributions of a record, 2 users, 2 scans, 1 handler, with Notices | `EscalatedIsNotified`, `EveryChangeAudited`; no more copies of a notification than scans and distributions of the record can make (`NoticeCopiesBounded`); an escalation that leaves nobody an unread notification has another distribution, or an overtaken scan, to blame (`SilenceIsExplained`) |
| `escalation_liveness` | 1 distribution, 1 scan, 1 handler | `EscalationIsEarned`, and under fairness `LateIsEscalated` |
| `registry` | 3 registrations at once, 4 documents, 2 years | both registers implement `NumberBook`; copies of a party stay bounded |
| `documents` | 4 uploads, 2 confirmations of a delivery | `LatestIsNewest` while nothing is removed; why a document with files is shown with none (`HiddenFilesExplained`); when the next upload finds its number free (`NextVersionIsFree`); what the trail tells (`TrailTellsDelivery`) |
| `tokens` | 1 user, role and permission, 1 client, 1 call of `list`, 1 replacement, TTL 2, token life 2 | `GuardIsTimely`: the guard is behind the rows by TTL, by a token's life and the time of its login, or, when it waits for a query, by the time since it asked, and no more; `CacheIsCoherent`: apart from overtaken and unannounced answers the cache agrees with the rows |
| `accounts` | 2 logins, 2 forms, 1 link, lock after 2 failures, throttle after 1, 1 unread count | what overlap costs and what not: `CountIsExact`, `FailureLeavesCount`, `LockIsKept`, `OldPasswordIsRefused`, `LinkUsesBounded`, `ThrottleOverrunBounded` |
| `connection_pool` | 3 requests, pool of 2, 2 rows | only nested reads can fill the pool and wait (`OnlyNestedReadsBlock`); every request ends all the same (`EveryRequestEnds`) |
| `desk` | 2 records, 2 distributions, 1 department, 2 ticks a minute, pages of 1 and 2 rows | what a walk through pages misses (`WalkMissesNothing`), how far figures drift (`OverviewCoheres`), that a timeline shows no log row without its audit row, that routes agree on what is late (`ViewsAgree`) |
| `setup` | 2 instances, 1 request, 2 names | a user there is finds what the seed makes before users (`SeededBeforeUser`); what a serving instance may lack and why (`SeedGapsExplained`); `DepartmentCopiesBounded` |
| `closed_escalated`, `my_desk` | expected to fail | see below |

**Bounds.** The clock of the escalation runs stops at `MaxTime = 2` with
thresholds 1, 2, 9, 9 minutes: levels 1 and 2 are reached one after the other,
and one level more would repeat the same step. `MaxLog` bounds the log rows
*requests* add, never the worker's: a handler acts before, between and after
escalations. Two scans are what it takes for one to use what the other has
changed; two distributions of one record are what it takes for two notifications
to be equal. All of that at once is too much: `OverlapIsSmall` lets the scans of
`escalation_safety` overlap at the first level only and beside the requests of
one distribution, and explores the second level with one scan at a time, while
`escalation_overlap` has both levels on one distribution. Three registrars let two count the same records while a third
commits; two years hold one new year. Four uploads give a version line with two
uploads racing on it, and two confirmations can be written and audited in
different orders. With `TTL = 2` an answer is served at one time after the one it
was asked at, and at the next, still within `MaxTime = 3`, it is not; the same
holds of a token. One role with one permission gives the four cases that matter
(the user has the role or not, the role the permission or not); more of each,
and more calls, are left to the theorems. Two logins let one store a count while
the other still holds the old one; `MaxFailed = 2` tells the first failure from
the one that locks; `MaxCount` bounds failures, above the limit by one.
The throttle's limits are 0, so that one counted failure exceeds them, and
`MaxUnread = 1` lets one login pass each counter for want of an answer; `NotBoth`
explores that, and the handlers that set a password, each beside the logins but
not beside each other, since they touch different state. Two
nested reads fill a pool of two and a third request waits behind them. Pages of
one row make every boundary a page boundary; the trail, which grows by several
rows at a time, has pages of two. Two ticks a minute and half-minute rounding
give an instant that is late and shown as on time. Two instances overlap anywhere
in the seed, with a request beside them.

`HandlerSymmetry` permutes logins, and forms, `ScanSymmetry` the scans in
`escalation_overlap`, `RecordSymmetry` scans and distributions in
`escalation_safety` and `RecordsAlike` the records in `desk`; none is named by
a property or chosen by name, and `LockIsKept` quantifies over all logins alike.
Runs with liveness use no symmetry. Deadlock is checked in `tokens`, which can
always restart, and not in the others: the bounded clock and ids end every
behaviour, and the system may be idle for ever.

**Fairness.** In `SlaWorker!Fairness`, weak fairness of `startWorker` says that
whoever deploys the worker starts it again after it stops; the repository has no
such policy of its own, so it is an assumption. Strong fairness of the scan's steps
says that `setInterval` fires again and again, and that a query or one
distribution's transaction does not fail, or lose the process, each single time
it is tried: the code's own retry (the `catch` inside the loop, then the next
interval) is worth something only under this assumption. Nothing is assumed of
requests, of the clock, or of failures.

`ConnectionPool!FairSpec` has weak fairness of a request's own steps, and of
the two time limits that Prisma puts on every wait for a connection and on every
interactive transaction. It is the limits that end a pool full of nested
reads; no fairness between requests that compete for a connection or a row is
assumed, and none that requests arrive.

## What the code does against its own words

Two runs are expected to fail, each on one property that states a comment.

- `closed_escalated`: a distribution closed between the worker's query and its
  transaction is put back to Escalated; the UPDATE looks at the id alone
  (`src/worker.ts:196`).
- `my_desk`: a distribution assigned to a user of another department is not on
  that user's desk, because the query asks for `user.id`
  (`src/incoming/incoming.service.ts:246`), which the token strategy never sets.

The properties that hold are worded for what the code does, and their
exceptions are worth knowing too:

- of two overlapping scans the older one may repeat the escalation the other has
  made, or take it back to a lower level (`src/worker.ts:197`): `EscalationsRise`
  exempts the escalations of a scan that another has overtaken since its query,
  and no others;
- both may miss the other's uncommitted notification (`src/worker.ts:263`), of
  two distributions of a record: `NoticeCopiesBounded` allows a copy for each
  scan, and for each distribution of the record, but no second one on top of
  what is committed;
- a login is let in when its counters cannot be read
  (`src/security/services/login-throttle.service.ts:103`):
  `ThrottleOverrunBounded` allows one failure beyond the limit for each such
  login, and for each login under way;
- a request without permissions in its token that waits for a slow query is
  decided by what the query read, however long ago
  (`src/auth/permissions.guard.ts:47`): `GuardIsTimely` bounds it by the time
  since the query was asked, and TTL does not come into it;
- a notification names the record and not the distribution, so the second
  distribution of a record may be escalated without a new one, also when the
  first was read long ago, and so may one that an overtaken scan escalates again
  (`SilenceIsExplained`);
- a distribution closed in time is shown as overdue once its deadline has
  passed (`src/sla/sla.util.ts:38`);
- after the current version is removed the next upload computes a version number
  that is taken and fails (`src/files/files.controller.ts:111`), which is why
  `NextVersionIsFree` asks that only superseded versions were removed;
- two failed logins that overlap may count once, a correct one wipes out a
  failure it did not see, and a link may be used twice by two requests that
  found it at the same time (`exact`, `LinkUsesBounded`);
- an instance whose count of users failed serves an empty database, and one that
  died behind the admin user is never seeded to the end (`SeedGapsExplained`).

## The theorems

All hold for any sets and numbers the modules' ASSUMEs allow (types of the
constants, `None` outside the other sets, sets that are counted finite: the
readers of Desk count records and distributions, and copies of a notification are
bounded by scans and distributions, so those are), and need nothing
else but what they name. Every invariant and every action property of the runs
is stated by one of them. No theorem assumes that scans do not overlap: the code
relies on it here and there, and does not ensure it. `NothingMoves` says that no deadline and no threshold is edited.

**DistributionProofs** has what the worker and the reader both need of the
handlers beside them, as lemmas: types (`DistNextTypeOK`), that ids not given out
have no log (`FreshIdsStep`), that what a request has read of a distribution's
record still holds when it commits (`StatusReadsKept`), that every step keeps the
trail and the logs in agreement (`HandlersAudit`), and that a creation is audited
and not logged (`CreationUnlogged`).

**SlaWorkerProofs**

| Theorem | Statement | Argument |
|---|---|---|
| `TypeCorrect` | `Spec => []TypeOK` | `TypeInv`: besides the types, no two scans have a transaction on the same distribution (`LockExclusive`) and a scan in a transaction has its work in hand (`InTxHasWork`). Without exclusion, one scan's commit would release the lock of another |
| `LogTellsState` | `Spec => []RowMatchesLog` | `LogInv` adds that what handlers and scans hold in hand exists (`WorkExists`) and that ids not given out have no log (`FreshIds`), so a new distribution starts with an empty log. Each step appends at most one row that says what the step did to the row (`ReplayGrows`) |
| `NobodyEscalatedInSilence` | `Spec => []EscalatedIsNotified` | `NoticeInv`: a scan that found an equal notification in its transaction may rely on it until it commits (`FoundNotice`), because no step deletes one; the level in hand is a level (`LevelBounded`) |
| `LevelsRise` | `NoticesSpec => []EscalationsRise` | `WorkRaises`: what a scan has left to do is above the present level, or another scan has escalated it and the scan is `behind`. A commit leaves every other scan behind (`CommitLeavesBehind`), and no other step of the system changes a level; the newest escalation of the log is the present level (`LogTellsState`), so a row by a scan that is not behind rises |
| `NoticeCopiesStayFew` | `Spec => []NoticeCopiesBounded` | `CopiesFit`: the copies there are and the scans about to create another (`Creators`) together fit the bound. While there is none, the creators hold the locks of different distributions of the record, so they are no more than these, nor than the scans (`CreatorsFew`); once there is one, nobody becomes a creator any more (`CreatorsOfOld`), and each that commits stops being one (`CreatorCreates`) |
| `ChangesAreAudited` | `Spec => []EveryChangeAudited` | `AuditInv`: each step that adds an audit row adds the log row it counts (`RowCounted`); a new distribution has no log of its own yet (`FreshIds`), and what a request has read of a distribution's record is still so when it commits (`StatusReads`) |
| `LevelsAreEarned` | `NothingMoves => (Spec => []EscalationIsEarned)` | `WorkIsEarned`: a scan's clock is in the past, so the level it computed is at most the present one (`TargetRises`), and stays so until it is stored |
| `NoticesKeepWorker` | `NoticesSpec => Spec` | each step of the composition is one of SlaWorker or leaves it alone; so the theorems above hold beside users who read and pushes that are awaited |
| `SilenceHasACause` | `NoticesSpec => []SilenceIsExplained` | a notification has an escalated distribution behind it (`NoticeHasCause`), and unless an escalation of a distribution crossed another its log tells of no level above the present one (`LoggedIsBelow`), so the work at hand, which is above it or crosses one itself (`CrossesOrRaises`), is not what the notification comes from |

**DeskProofs**

| Theorem | Statement | Argument |
|---|---|---|
| `DeskTypeCorrect` | `Spec => []TypeOK` | types; an overview's clock is in the past, and so is the registration of a record |
| `TimelinesAreAudited` | `Spec => []TimelineAuditsWhatItLogs` | `TimelineInv`: trail and logs agree at the instant the log is read (`LogsAreAudited`), and from then on the trail only grows |
| `OverviewsCohere` | `Spec => []OverviewCoheres` | `OverviewInv`: a total that was counted is at most what the same figure, for the overview's clock, would be now (`TotalsInv`), and those figures are nested sets; the statuses counted so far are off from the rows there are by the changes since (`DriftInv`), because a step of a handler moves a row from one status to another, or adds one, and is counted as a move |
| `WalksMissNothing` | `Spec => []WalkMissesNothing` | `WalkInv`: a row that was on the list all along and has not been shown has the rows of every page read before it (`Ahead`), however the database orders the answer, because nothing ties and nothing that stays changes its place; so it is on a later page. Where the count comes first it is short by the rows that arrived since, and so is the last page |
| `ViewsAlwaysAgree` | `Spec => []ViewsAgree` | at each instant: minutes rounded to the nearest and the clock itself differ by half a minute at most (`OverdueAgree`); the daily series adds up to the figure of the last days, because the days divide its records among them (`SeriesAgree`). The community modules' sum is a CHOOSE of a function on subsets; that there is one and one only (`SumIsUnique`) is by well-founded induction on the strict subsets of a finite set |

`WalksMissNothing` is what the exceptions in the property are made from: without
`~ Tied`, or with a row that moves, `WalkInv` is false, and each is a page on
which a user misses a row.

**AuthzProofs**, about AuthzCache and Tokens

| Theorem | Statement | Argument |
|---|---|---|
| `AuthzTypeCorrect` | `Spec => []TypeOK` | `TypeInv`: a call in progress is for a user and dated in the past, a replacement is of a user's roles or of a role's permissions (`AdminShape`), so its commit writes rows of the right kind |
| `WithdrawnExpires` | `Spec => []WithdrawnStopsBeingServed` | `AgeInv`: what a call has read, or the cache holds, differs from the rows only where they have changed since the call began (`Within`). Steps either change rows and stamp the change (`Stamped`) or only drop and mark answers (`Forgets`), or both, like a grant by a script. An answer is served while it is younger than TTL, so each difference is too |
| `GrantedArrives` | `Spec => []GrantedIsServed` | the other half of `Within` |
| `AnswersAreCoherent` | `Spec => []CacheIsCoherent` | `CoherenceInv`: the same holds of what calls in progress have read (`FillIsCoherent`), without which `store` could not be shown harmless. Every step leaves a user's permissions alone, has an invalidation due, or marks all that was read (`Announces`) |
| `TokensKeepCache` | `TokensSpec => Spec` | each step of the composition is one of the cache or leaves it alone; so the four above hold beside tokens too (`CoherentBesideTokens`) |
| `TokensTypeCorrect`, `GuardDecidesTimely` | `TokensSpec => []TokensTypeOK`, `[]GuardIsTimely` | what a login has read differs from the rows only where they have changed since it began, like a call of `list`; then a token's date bounds its age. For a request that waited, the answer differs from the rows only where they have changed since it was asked, which is `AgeInv`'s `Within` with no bound on the time |

`WithdrawnExpires` does not depend on invalidation at all: the time taken before
the query is what makes it true. `AnswersAreCoherent` says what invalidation adds.

**AccountsProofs**

| Theorem | Statement | Argument |
|---|---|---|
| `AccountsTypeCorrect` | `Spec => []TypeOK` | types are inductive |
| `EveryFailureCounts` | `Spec => []CountIsExact` | as long as nothing overlapped, a login that will store a failure still holds the count and the lock of the row |
| `FailuresAreSeen` | `Spec => []FailureLeavesCount` | a failure stores a count of one at least, and only a reset stores zero |
| `LocksHold` | `Spec => LockIsKept` | a login that read a lock in force is refused at once, so one that is counting read the row before it |
| `OldPasswordsFail` | `Spec => []OldPasswordIsRefused` | every step that sets the password marks the attempts in progress |
| `LinksRunOut` | `Spec => []LinkUsesBounded` | a completion takes a handler away for the use it adds, and a used link gets no new handler |
| `ThrottleHolds` | `Spec => []ThrottleOverrunBounded` | counter and logins in progress are bounded together (`Bounded`): a login that begins adds to those in progress, and either the count was read and is within its limit, or `unread` grows with it (`StartIsBounded`); when it ends it is counted once at most |

**RecordsProofs**, about Registry

| Theorem | Statement | Argument |
|---|---|---|
| `RegistryTypeCorrect` | `Spec => []TypeOK` | the types are inductive; `TypeInv` adds that the records are finitely many, so that counting them gives a number |
| `IncomingHasNoGap`, `IncomingKeepsBook` | `Spec => []IncomingGapless`, `Spec => ImplementsIncomingBook` | a handler's number is at most the present count plus one, since records only come; the unique constraint refuses it below, so a commit issues exactly the next number |
| `OutgoingHasNoGap`, `OutgoingKeepsBook` | the same of outgoing numbers | the handler that holds the row has its number, and nobody else may raise it until the end |
| `PartyCopiesStayFew` | `Spec => []PartyCopiesBounded` | a handler that is creating a party did not find one, so copies and creators together never exceed the handlers |

and about Documents

| Theorem | Statement | Argument |
|---|---|---|
| `DocumentsTypeCorrect` | `DocumentsSpec => []DocumentsTypeOK` | types; the trail names a request only once it is done |
| `TrailTellsTheDelivery` | `DocumentsSpec => []TrailTellsDelivery` | unless two overlapped or one broke off, an update that awaits its row is the last one there was |
| `HiddenFilesHaveReasons`, `UploadsGoOn` | `DocumentsSpec => []HiddenFilesExplained`, `[]NextVersionIsFree` | `FilesInv`: an upload comes right after the version it found (`SeenIsBefore`), a version is not current when and only when its place was taken (`FlagsTell`), and among those ever stored one has the highest number (`HasTop`); nobody has taken the place of that one (`TopRow`) |
| `OneCurrentVersion` | `DocumentsSpec => []LatestIsNewest` | while nothing is removed the numbers have no hole (`Consecutive`), so an upload whose number is free is about to store the highest |

**SetupProofs**

| Theorem | Statement | Argument |
|---|---|---|
| `SetupTypeCorrect` | `Spec => []TypeOK` | a seed in the middle of a create is at a department step |
| `UserFindsSeed` | `Spec => []SeededBeforeUser` | an instance at a step has completed, or found completed, all steps before it, and nothing in the database is deleted |
| `GapsHaveReasons` | `Spec => []SeedGapsExplained` | behind the admin user there is a seed on its way, one that died, or a complete one |
| `DepartmentCopiesStayFew` | `Spec => []DepartmentCopiesBounded` | as for parties, with the seeds among the handlers |

**ConnectionPoolProofs**

| Theorem | Statement | Argument |
|---|---|---|
| `PoolTypeCorrect` | `Spec => []TypeOK` | `PoolInv`: a transaction is open at four places only (`TxIsPlaced`), so a `begin` adds a connection to those in use, and a read adds one that is no transaction's |
| `OnlyNestedReadsCanBlock` | `Spec => []OnlyNestedReadsBlock` | who has a row locked is about to commit and waits for nothing (`OwnersWrite`), so a standstill has nobody waiting for a row; then all wait for connections, and all connections are transactions' |

**Only model-checked**: liveness (`LateIsEscalated`, `EveryRequestEnds`), because
fairness is stated with ENABLED, which the prover does not handle. The two
properties that are expected to fail are refuted by their runs.

## Not modelled

Priority, notes, target departments and other data no property tells apart, and
text filters of searches. The search, overview and daily series of outgoing
records, which repeat those of incoming ones. Downloads and
`listLatestForUser`. The gateway's rooms, which keep nothing.
`src/escalation/`, `FilesService.attachFileToDocument` and `createForUsers`,
which nothing calls. `getSettings` creating the default row, which changes
nothing that is in force (the worker falls back to the same values). Lists of users, and the separate statements of
`createUser`; no route edits or deactivates a user. `AuditService.log`,
`TimelineService` and the latest lists of the dashboard are single statements.
Bootstrap and DTOs have no state; `scripts/check-login.ts` and
`scripts/debug-perms.ts` only read. `scripts/reset-admin.ts` is `resetAdmin` of
Accounts, which also stands for the user it creates when there is none; run by
hand on a database that was never seeded, that user would make the next start
skip the seed, which Setup leaves out. A Redis that is not configured at all, the
user names exempt from the throttle outside production, and a Redis client that
sends an unanswered INCR twice are left out of LoginThrottle.

## Plan

What could still be added, in this order: the sockets that receive the push, for
the notification that reaches the list and not the screen; ConnectionPool for
several pools (API and worker have one each); `createUser` statement by
statement; the outgoing reads.
