------------------------------ MODULE Accounts ------------------------------
(***************************************************************************)
(* One user's account: login (src/src/auth/auth.service.ts, called from    *)
(* src/src/auth/auth.controller.ts between the two calls of the throttle), *)
(* the changes and resets of the password in AuthService and UsersService, *)
(* and the two ways an administrator unlocks a login.  Accounts share no   *)
(* rows, so one is enough.                                                 *)
(*                                                                         *)
(* No handler here locks what it has read: a login takes the count, the    *)
(* lock and the hash from one query, compares, and stores a count computed *)
(* from that query.  Everything else may happen in between.                *)
(* The roles given to a new user are in AuthzCache; AuditTrail rows, which *)
(* a login only adds, are left out, but not that adding one may fail.      *)
(***************************************************************************)
EXTENDS LoginThrottle, FiniteSets

CONSTANTS
  None,        \* null
  Password,    \* passwords that are given, tried or generated
  Temp,        \* those among them that generateTempPassword makes
  Login,       \* login handlers that can be in progress at once
  Form,        \* handlers that set a password and can be in progress at once
  Link,        \* reset links: bounds their number
  IsSystem,    \* User.isSystem of the account
  MaxFailed,   \* LOGIN_MAX_FAILED_ATTEMPTS
  LockTime,    \* LOGIN_LOCKOUT_MINUTES
  LinkTime,    \* how long a reset link is good
  MaxTime,     \* bound on the clock
  MaxCount     \* bound on the failures counted

ASSUME AccountsAssumption ==
  /\ None \notin Password \cup Link
  /\ Temp \subseteq Password
  /\ IsSystem \in BOOLEAN
  /\ MaxFailed \in Nat \ {0}
  /\ LockTime \in Nat \ {0}
  /\ LinkTime \in Nat \ {0}
  /\ MaxTime \in Nat
  /\ MaxCount \in Nat
  /\ IsFiniteSet(Login)
  /\ IsFiniteSet(Form)

VARIABLES
  account,     \* the User row
  attempt,     \* what the logins in progress have read
  form,        \* what the password changes in progress have read
  link,        \* PasswordReset rows
  wrong,       \* history: failures stored since the count was last reset, and
               \* when the last of them began; only whether there are any once
               \* they are not exact
  exact,       \* history: none of them overlapped another change of the count
  uses         \* history: how often a link has set the password

vars == <<now, counter, account, attempt, form, link, wrong, exact, uses>>

----------------------------------------------------------------------------

\* lockoutUntil 0 is null.
Account == [state : {"absent", "active", "inactive"}, password : Password \cup {None},
            mustChange : BOOLEAN, failed : Nat, lock : Nat]

\* "overtaken" is history: the password was set after it was read, or tried.
Attempt == [pc : {"idle", "started", "wrong", "right", "refused", "accepted"},
            ip : Ip \cup {None}, password : Password \cup {None}, at : Nat,
            failed : Nat, lock : Nat, overtaken : BOOLEAN]

NoAttempt == [pc |-> "idle", ip |-> None, password |-> None, at |-> 0,
              failed |-> 0, lock |-> 0, overtaken |-> FALSE]

FormState == [op : {"none", "link", "change", "own"}, link : Link \cup {None},
              new : Password \cup {None}]

NoForm == [op |-> "none", link |-> None, new |-> None]

\* A PasswordReset row; expires 0 when there is none yet.
LinkRow == [expires : Nat, used : BOOLEAN]

Init ==
  /\ now = 0
  /\ counter = [k \in Key |-> NoCount]
  /\ account = [state |-> "absent", password |-> None, mustChange |-> FALSE,
                failed |-> 0, lock |-> 0]
  /\ attempt = [l \in Login |-> NoAttempt]
  /\ form = [f \in Form |-> NoForm]
  /\ link = [k \in Link |-> [expires |-> 0, used |-> FALSE]]
  /\ wrong = [n |-> 0, at |-> 0]
  /\ exact = TRUE
  /\ uses = [k \in Link |-> 0]

----------------------------------------------------------------------------
(* What the handlers store *)

\* Logins that hold a count they have read.
Counting(ls) == {l \in ls : attempt[l].pc \in {"wrong", "right"}}

ResetCount(row) == [row EXCEPT !.failed = 0, !.lock = 0]

CountIsReset(others) ==
  /\ wrong' = [n |-> 0, at |-> 0]
  /\ exact' = (Counting(others) = {})

KeepHistory == UNCHANGED <<wrong, exact, uses>>

WithPassword(row, p, must) == [row EXCEPT !.password = p, !.mustChange = must]

\* The password is set while these logins are under way.
Overtake ==
  attempt' = [l \in Login |-> IF attempt[l].password = None THEN attempt[l]
                              ELSE [attempt[l] EXCEPT !.overtaken = TRUE]]

----------------------------------------------------------------------------
(* Login *)

Begin(l, ip, p) ==
  /\ attempt[l].pc = "idle"
  /\ attempt' = [attempt EXCEPT ![l] = [NoAttempt EXCEPT !.pc = "started", !.ip = ip,
                                                         !.password = p, !.at = now]]

\* Fault: the user name alone is looked at.
startLoginByName(l, ip, p) ==
  /\ counter[UserKey].n <= Limit(UserKey)
  /\ Begin(l, ip, p)
  /\ UNCHANGED <<now, counter, account, form, link, wrong, exact, uses>>

\* A login the throttle refuses changes nothing; Redis may fail to tell each
\* of the two counts.
startLogin(l, ip, p) ==
  \E unread \in SUBSET {ip, UserKey} :
    /\ ~ IsLocked(ip, unread)
    /\ LetIn(unread)
    /\ Begin(l, ip, p)
    /\ UNCHANGED <<now, account, form, link, wrong, exact, uses>>

\* A login that failed has only to be counted.
Refused(l) == [NoAttempt EXCEPT !.pc = "refused", !.ip = attempt[l].ip]

\* Fault: a temporary password stays good when it has been replaced.
ComparedLeniently(l) ==
  IF attempt[l].password \in Temp \cup {account.password}
  THEN [attempt[l] EXCEPT !.pc = "right", !.at = 0]
  ELSE [NoAttempt EXCEPT !.pc = "wrong", !.ip = attempt[l].ip, !.at = attempt[l].at,
                         !.failed = account.failed, !.lock = account.lock]

\* What the query and the comparison with its hash tell; each outcome keeps
\* what it will use.
Compared(l) ==
  IF attempt[l].password = account.password
  THEN [attempt[l] EXCEPT !.pc = "right", !.at = 0]
  ELSE [NoAttempt EXCEPT !.pc = "wrong", !.ip = attempt[l].ip, !.at = attempt[l].at,
                         !.failed = account.failed, !.lock = account.lock]

\* Fault: a lock is not looked at.
findUserUnlocked(l) ==
  /\ attempt[l].pc = "started"
  /\ attempt' = [attempt EXCEPT ![l] =
                   IF account.state # "active" THEN Refused(l) ELSE Compared(l)]
  /\ UNCHANGED <<now, counter, account, form, link, wrong, exact, uses>>

\* An account that is locked when the login began ends it, uncounted.
findUser(l) ==
  /\ attempt[l].pc = "started"
  /\ attempt' = [attempt EXCEPT ![l] =
                   IF account.state # "active" THEN Refused(l)
                   ELSE IF account.lock > attempt[l].at THEN NoAttempt
                   ELSE Compared(l)]
  /\ UNCHANGED <<now, counter, account, form, link, wrong, exact, uses>>

Locks(l) == attempt[l].failed + 1 >= MaxFailed

LockAfter(l) == IF Locks(l) THEN attempt[l].at + LockTime ELSE attempt[l].lock

AFailureIsStored(l) ==
  /\ exact' = (exact /\ Counting(Login \ {l}) = {})
  /\ wrong' = IF exact' THEN [n |-> wrong.n + 1, at |-> attempt[l].at] ELSE [n |-> 1, at |-> 0]

\* Fault: the count that was read is stored, and not the next one.
storeFailureUncounted(l) ==
  /\ attempt[l].pc = "wrong"
  /\ wrong.n < MaxCount
  /\ account' = [account EXCEPT !.failed = attempt[l].failed, !.lock = LockAfter(l)]
  /\ AFailureIsStored(l)
  /\ \/ attempt' = [attempt EXCEPT ![l] = Refused(l)]
     \/ Locks(l) /\ attempt' = [attempt EXCEPT ![l] = NoAttempt]
  /\ UNCHANGED <<now, counter, form, link, uses>>

\* Fault: the failure that reaches the limit does not lock yet.
storeFailureLate(l) ==
  /\ attempt[l].pc = "wrong"
  /\ attempt[l].failed < MaxCount
  /\ wrong.n < MaxCount
  /\ account' = [account EXCEPT !.failed = attempt[l].failed + 1,
                                !.lock = IF attempt[l].failed >= MaxFailed
                                         THEN attempt[l].at + LockTime ELSE attempt[l].lock]
  /\ AFailureIsStored(l)
  /\ \/ attempt' = [attempt EXCEPT ![l] = Refused(l)]
     \/ Locks(l) /\ attempt' = [attempt EXCEPT ![l] = NoAttempt]
  /\ UNCHANGED <<now, counter, form, link, uses>>

\* A failure that locks is not counted by the throttle, unless its audit fails.
storeFailure(l) ==
  /\ attempt[l].pc = "wrong"
  /\ attempt[l].failed < MaxCount
  /\ wrong.n < MaxCount
  /\ account' = [account EXCEPT !.failed = attempt[l].failed + 1, !.lock = LockAfter(l)]
  /\ AFailureIsStored(l)
  /\ \/ attempt' = [attempt EXCEPT ![l] = Refused(l)]
     \/ Locks(l) /\ attempt' = [attempt EXCEPT ![l] = NoAttempt]
  /\ UNCHANGED <<now, counter, form, link, uses>>

storeSuccess(l) ==
  /\ attempt[l].pc = "right"
  /\ account' = ResetCount(account)
  /\ CountIsReset(Login \ {l})
  /\ attempt' = [attempt EXCEPT ![l].pc = "accepted"]
  /\ UNCHANGED <<now, counter, form, link, uses>>

\* Any other error counts as a refused login, even after storeSuccess.
loginThrows(l) ==
  /\ attempt[l].pc \in {"started", "wrong", "right", "accepted"}
  /\ attempt' = [attempt EXCEPT ![l] = Refused(l)]
  /\ UNCHANGED <<now, counter, account, form, link, wrong, exact, uses>>

EndLogin(l) ==
  /\ attempt' = [attempt EXCEPT ![l] = NoAttempt]
  /\ UNCHANGED <<now, account, form, link, wrong, exact, uses>>

onFailure(l) ==
  /\ attempt[l].pc = "refused"
  /\ CountFailure({attempt[l].ip, UserKey})
  /\ EndLogin(l)

\* The token is signed before this.
onSuccess(l) ==
  /\ attempt[l].pc = "accepted"
  /\ Forget({attempt[l].ip, UserKey})
  /\ EndLogin(l)

\* Redis does not take the commands, or of the two counts takes only the one
\* of the address; the login ends all the same.
throttleFails(l) ==
  /\ attempt[l].pc \in {"refused", "accepted"}
  /\ \/ UNCHANGED counter
     \/ attempt[l].pc = "refused" /\ CountFailure({attempt[l].ip})
  /\ EndLogin(l)

----------------------------------------------------------------------------
(* Setting the password.  mustChangePassword is part of the same UPDATE.   *)

\* The user name is unique: of two calls one creates the row.  A password is
\* generated when none is given, and when it is blank, but only in the first
\* case must it be changed.
createUser(p, must, active) ==
  /\ account.state = "absent"
  /\ must => p \in Temp
  /\ account' = [WithPassword(account, p, must) EXCEPT
                   !.state = IF active THEN "active" ELSE "inactive"]
  /\ UNCHANGED <<now, counter, attempt, form, link, wrong, exact, uses>>

\* Fault: a link has no lifetime.
initiatePasswordResetForever(k) ==
  /\ account.state # "absent"
  /\ link[k].expires = 0
  /\ link' = [link EXCEPT ![k].expires = None]
  /\ UNCHANGED <<now, counter, account, attempt, form, wrong, exact, uses>>

initiatePasswordReset(k) ==
  /\ account.state # "absent"
  /\ link[k].expires = 0
  /\ link' = [link EXCEPT ![k].expires = now + LinkTime]
  /\ UNCHANGED <<now, counter, account, attempt, form, wrong, exact, uses>>

Fill(f, op, k, new) ==
  /\ form[f].op = "none"
  /\ form' = [form EXCEPT ![f] = [op |-> op, link |-> k, new |-> new]]
  /\ UNCHANGED <<now, counter, account, attempt, link, wrong, exact, uses>>

\* Fault: a used link is as good as a new one.
findReusableLink(f, k, new) ==
  /\ link[k].expires > now
  /\ account.state = "active"
  /\ Fill(f, "link", k, new)

\* completePasswordReset up to the hashing of the new password.
findLink(f, k, new) ==
  /\ link[k].expires > now
  /\ ~ link[k].used
  /\ account.state = "active"
  /\ Fill(f, "link", k, new)

\* Its transaction does not look at the link again.
completePasswordReset(f) ==
  /\ form[f].op = "link"
  /\ account' = ResetCount(WithPassword(account, form[f].new, FALSE))
  /\ CountIsReset(Login)
  /\ link' = [link EXCEPT ![form[f].link].used = TRUE]
  /\ uses' = [uses EXCEPT ![form[f].link] = @ + 1]
  /\ Overtake
  /\ form' = [form EXCEPT ![f] = NoForm]
  /\ UNCHANGED <<now, counter>>

\* changePassword of AuthService compares with the present password twice.
checkPassword(f, current, new) ==
  /\ account.state = "active"
  /\ current = account.password
  /\ new # account.password
  /\ Fill(f, "change", None, new)

changePassword(f) ==
  /\ form[f].op = "change"
  /\ account' = ResetCount(WithPassword(account, form[f].new, FALSE))
  /\ CountIsReset(Login)
  /\ Overtake
  /\ form' = [form EXCEPT ![f] = NoForm]
  /\ UNCHANGED <<now, counter, link, uses>>

\* changeOwnPassword of UsersService lets the password stay the same.
checkOwnPassword(f, current, new) ==
  /\ account.state # "absent"
  /\ current = account.password
  /\ Fill(f, "own", None, new)

changeOwnPassword(f) ==
  /\ form[f].op = "own"
  /\ account' = WithPassword(account, form[f].new, FALSE)
  /\ Overtake
  /\ form' = [form EXCEPT ![f] = NoForm]
  /\ UNCHANGED <<now, counter, link, wrong, exact, uses>>

formFails(f) ==
  /\ form[f].op # "none"
  /\ form' = [form EXCEPT ![f] = NoForm]
  /\ UNCHANGED <<now, counter, account, attempt, link, wrong, exact, uses>>

AdminSets(p, must) ==
  /\ account.state # "absent"
  /\ ~ IsSystem
  /\ account' = WithPassword(account, p, must)
  /\ Overtake
  /\ UNCHANGED <<now, counter, form, link, wrong, exact, uses>>

resetPassword(p) == AdminSets(p, FALSE)

adminResetToTemporary(p) == p \in Temp /\ AdminSets(p, TRUE)

\* The script reset-admin, run beside the API: it asks neither whose account
\* this is nor what state it is in, and leaves a lock in force.
resetAdmin(p) ==
  /\ account' = [account EXCEPT !.state = "active", !.password = p]
  /\ Overtake
  /\ UNCHANGED <<now, counter, form, link, wrong, exact, uses>>

----------------------------------------------------------------------------
(* Unlocking.  Each of the two routes lifts one of the two blocks.         *)

adminUnlockUserLogin ==
  /\ account.state # "absent"
  /\ account' = ResetCount(account)
  /\ CountIsReset(Login)
  /\ UNCHANGED <<now, counter, attempt, form, link, uses>>

unlockLogin ==
  /\ account.state # "absent"
  /\ clearForUsername
  /\ UNCHANGED <<now, account, attempt, form, link, wrong, exact, uses>>

----------------------------------------------------------------------------

\* The API process dies and is started again; rows and counters stay.
crash ==
  /\ attempt' = [l \in Login |-> NoAttempt]
  /\ form' = [f \in Form |-> NoForm]
  /\ UNCHANGED <<now, counter, account, link, wrong, exact, uses>>

tick ==
  /\ now < MaxTime
  /\ now' = now + 1
  /\ Expire(now + 1)
  /\ UNCHANGED <<account, attempt, form, link, wrong, exact, uses>>

\* A step of a login.
LoginNext ==
  \E l \in Login :
    \/ \E ip \in Ip, p \in Password : startLogin(l, ip, p)
    \/ findUser(l)
    \/ storeFailure(l)
    \/ storeSuccess(l)
    \/ loginThrows(l)
    \/ onFailure(l)
    \/ onSuccess(l)
    \/ throttleFails(l)

\* A step of a handler that sets a password after a check.
FormNext ==
  \E f \in Form :
    \/ \E k \in Link, new \in Password : findLink(f, k, new)
    \/ \E current, new \in Password :
         checkPassword(f, current, new) \/ checkOwnPassword(f, current, new)
    \/ completePasswordReset(f)
    \/ changePassword(f)
    \/ changeOwnPassword(f)
    \/ formFails(f)

\* What an administrator does.
AdminNext ==
  \/ \E p \in Password, must, active \in BOOLEAN : createUser(p, must, active)
  \/ \E k \in Link : initiatePasswordReset(k)
  \/ \E p \in Password : resetPassword(p) \/ adminResetToTemporary(p) \/ resetAdmin(p)
  \/ adminUnlockUserLogin
  \/ unlockLogin

Next == LoginNext \/ FormNext \/ AdminNext \/ crash \/ tick

Spec == Init /\ [][Next]_vars

----------------------------------------------------------------------------
(* Safety *)

\* Every variable has its type.
TypeOK ==
  /\ now \in 0 .. MaxTime
  /\ counter \in [Key -> Counter]
  /\ account \in Account
  /\ attempt \in [Login -> Attempt]
  /\ form \in [Form -> FormState]
  /\ link \in [Link -> LinkRow]
  /\ wrong \in [n : Nat, at : Nat]
  /\ exact \in BOOLEAN
  /\ uses \in [Link -> Nat]

\* Since the count was last reset, and if no failure overlapped another change
\* of it, every failure is counted, and the lock runs from the last failure
\* that reached the limit: crashes and errors lose neither.
CountIsExact ==
  exact => /\ account.failed = wrong.n
           /\ account.lock = IF wrong.n >= MaxFailed THEN wrong.at + LockTime ELSE 0

\* Whatever overlaps, a stored failure is not lost altogether: the count says
\* that there was one.
FailureLeavesCount == wrong.n > 0 => account.failed > 0

\* A lock in force ends early, or is put off, only by a reset of the count or
\* by a login that read the row before the lock was set: trying again while
\* locked does not prolong it.
LockIsKept ==
  [][(account.lock > now /\ account'.lock # account.lock) =>
       \/ account'.failed = 0
       \/ \E l \in Login : attempt[l].pc = "wrong" /\ attempt[l].lock # account.lock]_vars

\* A login that began after the password was set is accepted only with it.
OldPasswordIsRefused ==
  \A l \in Login : (attempt[l].pc = "accepted" /\ ~ attempt[l].overtaken) =>
                     attempt[l].password = account.password

\* A reset link sets the password once, and again only for as many handlers as
\* had found it before that: a link once used is found no more.
LinkUsesBounded ==
  \A k \in Link :
    uses[k] > 0 => uses[k] + Cardinality({f \in Form : form[f].link = k}) <= Cardinality(Form)

\* The throttle counts no more failures beyond its limit than logins can be in
\* progress at once, for the counters are read when a login begins and raised
\* when it ends, and than logins were let in because Redis did not tell the
\* count: each such error is worth one attempt, never the whole window.
ThrottleOverrunBounded ==
  \A k \in Key : counter[k].n <= Limit(k) + Cardinality(Login) + counter[k].unread

=============================================================================
