--------------------------- MODULE AccountsProofs ---------------------------
(***************************************************************************)
(* Proofs about module Accounts, for any passwords, addresses, limits and  *)
(* times, and any number of logins and password changes at once.           *)
(***************************************************************************)
EXTENDS Accounts, FiniteSetTheorems, TLAPS

----------------------------------------------------------------------------
(* Types *)

LEMMA TimeType == TypeOK => now \in Nat
BY AccountsAssumption DEF TypeOK

LEMMA AccountRow == TypeOK => account \in Account
BY DEF TypeOK

\* What the throttle stores is a counter for every key.
LEMMA ThrottleType ==
  ASSUME TypeOK, NEW keys, NEW t,
         CountFailure(keys) \/ LetIn(keys) \/ Forget(keys) \/ Expire(t)
  PROVE  counter' \in [Key -> Counter]
<1>1. \A k \in Key : counter[k] \in Counter
  BY DEF TypeOK
<1>2. NoCount \in Counter
  BY DEF NoCount, Counter
<1>3. \A c \in Counter : Bump(c) \in Counter
  <2> SUFFICES ASSUME NEW c \in Counter PROVE Bump(c) \in Counter
    OBVIOUS
  <2>1. now + Window \in Nat
    BY TimeType, LoginThrottleAssumption
  <2>2. [NoCount EXCEPT !.n = 1, !.until = now + Window] \in Counter
    BY <2>1 DEF Counter, NoCount
  <2>3. [c EXCEPT !.n = @ + 1] \in Counter
    BY DEF Counter
  <2> QED BY <2>2, <2>3 DEF Bump
<1>4. CASE CountFailure(keys)
  BY <1>1, <1>3, <1>4 DEF CountFailure
<1>5. CASE Forget(keys)
  BY <1>1, <1>2, <1>5 DEF Forget
<1>6. CASE Expire(t)
  BY <1>1, <1>2, <1>6 DEF Expire
<1>7. CASE LetIn(keys)
  <2>1. \A c \in Counter : [c EXCEPT !.unread = @ + 1] \in Counter
    BY DEF Counter
  <2> QED BY <1>1, <1>7, <2>1 DEF LetIn
<1> QED BY <1>4, <1>5, <1>6, <1>7

\* Every outcome of a login is one a login can have.
LEMMA AttemptTypes ==
  ASSUME TypeOK, NEW l \in Login
  PROVE  /\ attempt[l] \in Attempt
         /\ NoAttempt \in Attempt
         /\ Refused(l) \in Attempt
         /\ Compared(l) \in Attempt
<1>1. attempt[l] \in Attempt
  BY DEF TypeOK
<1>2. NoAttempt \in Attempt
  BY DEF NoAttempt, Attempt
<1>3. Refused(l) \in Attempt
  BY <1>1 DEF Refused, NoAttempt, Attempt
<1>4. account.failed \in Nat /\ account.lock \in Nat
  BY AccountRow DEF Account
<1>5. [attempt[l] EXCEPT !.pc = "right", !.at = 0] \in Attempt
  BY <1>1 DEF Attempt
<1>6. [NoAttempt EXCEPT !.pc = "wrong", !.ip = attempt[l].ip, !.at = attempt[l].at,
                        !.failed = account.failed, !.lock = account.lock] \in Attempt
  BY <1>1, <1>4 DEF NoAttempt, Attempt
<1> QED BY <1>1, <1>2, <1>3, <1>5, <1>6 DEF Compared

\* Setting a password, or resetting the count, leaves a row.
LEMMA AccountTypes ==
  ASSUME TypeOK, NEW p \in Password, NEW must \in BOOLEAN
  PROVE  /\ account \in Account
         /\ ResetCount(account) \in Account
         /\ WithPassword(account, p, must) \in Account
         /\ ResetCount(WithPassword(account, p, must)) \in Account
BY DEF TypeOK, Account, ResetCount, WithPassword

\* Overtaking logins keeps everything else of them.
LEMMA OvertakeType ==
  ASSUME TypeOK, Overtake
  PROVE  /\ attempt' \in [Login -> Attempt]
         /\ \A l \in Login :
              /\ attempt'[l].pc = attempt[l].pc
              /\ attempt'[l].ip = attempt[l].ip
              /\ attempt'[l].password = attempt[l].password
              /\ attempt'[l].at = attempt[l].at
              /\ attempt'[l].failed = attempt[l].failed
              /\ attempt'[l].lock = attempt[l].lock
              /\ attempt[l].password # None => attempt'[l].overtaken
<1>1. \A l \in Login : attempt[l] \in Attempt
  BY DEF TypeOK
<1>2. \A l \in Login : [attempt[l] EXCEPT !.overtaken = TRUE] \in Attempt
  BY <1>1 DEF Attempt
<1>3. attempt' \in [Login -> Attempt]
  BY <1>1, <1>2 DEF Overtake
<1>4. ASSUME NEW l \in Login
      PROVE  \/ attempt'[l] = attempt[l] /\ attempt[l].password = None
             \/ attempt'[l] = [attempt[l] EXCEPT !.overtaken = TRUE]
  BY DEF Overtake
<1> QED
  BY <1>1, <1>3, <1>4 DEF Attempt

LEMMA TypeInit == Init => TypeOK
<1> SUFFICES ASSUME Init PROVE TypeOK
  OBVIOUS
<1> QED BY AccountsAssumption
  DEF Init, TypeOK, NoCount, Counter, Account, Attempt, NoAttempt, FormState, NoForm, LinkRow

LEMMA LoginType ==
  ASSUME TypeOK, LoginNext
  PROVE  TypeOK'
<1> PICK l \in Login :
      \/ \E ip \in Ip, p \in Password : startLogin(l, ip, p)
      \/ findUser(l)
      \/ storeFailure(l)
      \/ storeSuccess(l)
      \/ loginThrows(l)
      \/ onFailure(l)
      \/ onSuccess(l)
      \/ throttleFails(l)
  BY DEF LoginNext
<1>1. CASE \E ip \in Ip, p \in Password : startLogin(l, ip, p)
  <2> PICK ip \in Ip, p \in Password : startLogin(l, ip, p)
    BY <1>1
  <2>1. [NoAttempt EXCEPT !.pc = "started", !.ip = ip, !.password = p, !.at = now] \in Attempt
    BY TimeType DEF NoAttempt, Attempt
  <2>2. attempt' = [attempt EXCEPT ![l] = [NoAttempt EXCEPT !.pc = "started", !.ip = ip,
                                             !.password = p, !.at = now]]
    BY DEF startLogin, Begin
  <2>3. attempt' \in [Login -> Attempt]
    BY <2>1, <2>2 DEF TypeOK
  <2>4. counter' \in [Key -> Counter]
    BY ThrottleType DEF startLogin
  <2> QED BY <2>3, <2>4 DEF startLogin, Begin, TypeOK
<1>2. CASE findUser(l)
  BY <1>2, AttemptTypes DEF findUser, TypeOK
<1>3. CASE storeFailure(l)
  <2>0. LockAfter(l) \in Nat /\ attempt[l].failed + 1 \in Nat /\ attempt[l].at \in Nat
    <3>1. attempt[l].at \in Nat /\ attempt[l].failed \in Nat /\ attempt[l].lock \in Nat
      BY AttemptTypes DEF Attempt
    <3> QED BY <3>1, AccountsAssumption DEF LockAfter
  <2>1. [account EXCEPT !.failed = attempt[l].failed + 1, !.lock = LockAfter(l)] \in Account
    BY <2>0, AccountRow DEF Account
  <2>2. wrong' \in [n : Nat, at : Nat] /\ exact' \in BOOLEAN
    BY <1>3, <2>0 DEF storeFailure, AFailureIsStored, TypeOK
  <2>3. attempt' \in [Login -> Attempt]
    BY <1>3, AttemptTypes DEF storeFailure, TypeOK
  <2> QED BY <1>3, <2>1, <2>2, <2>3 DEF storeFailure, TypeOK
<1>4. CASE storeSuccess(l)
  <2>1. [attempt[l] EXCEPT !.pc = "accepted"] \in Attempt /\ ResetCount(account) \in Account
    <3>1. attempt[l] \in Attempt
      BY AttemptTypes
    <3>2. [attempt[l] EXCEPT !.pc = "accepted"] \in Attempt
      BY <3>1 DEF Attempt
    <3>3. ResetCount(account) \in Account
      BY AccountRow DEF Account, ResetCount
    <3> QED BY <3>2, <3>3
  <2>2. attempt' = [attempt EXCEPT ![l] = [attempt[l] EXCEPT !.pc = "accepted"]]
    BY <1>4 DEF storeSuccess
  <2> QED BY <1>4, <2>1, <2>2 DEF storeSuccess, CountIsReset, TypeOK
<1>5. CASE loginThrows(l)
  BY <1>5, AttemptTypes DEF loginThrows, TypeOK
<1>6. CASE onFailure(l) \/ onSuccess(l) \/ throttleFails(l)
  <2>1. counter' \in [Key -> Counter]
    BY <1>6, ThrottleType DEF onFailure, onSuccess, throttleFails, TypeOK
  <2> QED BY <1>6, <2>1, AttemptTypes DEF onFailure, onSuccess, throttleFails, EndLogin, TypeOK
<1> QED BY <1>1, <1>2, <1>3, <1>4, <1>5, <1>6

\* A password is set, or the count reset, or a link used, by a form.
LEMMA FormType ==
  ASSUME TypeOK, FormNext
  PROVE  TypeOK'
<1> PICK f \in Form :
      \/ \E op \in {"link", "change", "own"}, k \in Link \cup {None}, new \in Password :
           Fill(f, op, k, new)
      \/ completePasswordReset(f) /\ form[f].op = "link"
      \/ changePassword(f)
      \/ changeOwnPassword(f)
      \/ formFails(f)
  BY DEF FormNext, findLink, checkPassword, checkOwnPassword, completePasswordReset
<1>0. form[f] \in FormState /\ NoForm \in FormState
  BY DEF TypeOK, FormState, NoForm
<1>1. CASE \E op \in {"link", "change", "own"}, k \in Link \cup {None}, new \in Password :
             Fill(f, op, k, new)
  BY <1>1 DEF Fill, TypeOK, FormState
<1>2. CASE completePasswordReset(f)
  <2>1. account' \in Account
    BY <1>0, <1>2 DEF completePasswordReset, TypeOK, Account, ResetCount, WithPassword, FormState
  <2>2. link' \in [Link -> LinkRow] /\ uses' \in [Link -> Nat]
    <3>1. \A k \in Link : /\ link[k] \in LinkRow
                          /\ [link[k] EXCEPT !.used = TRUE] \in LinkRow
                          /\ uses[k] + 1 \in Nat
      <4>1. \A k \in Link : link[k] \in LinkRow /\ uses[k] \in Nat
        BY DEF TypeOK
      <4>2. \A r \in LinkRow : [r EXCEPT !.used = TRUE] \in LinkRow
        BY DEF LinkRow
      <4> QED BY <4>1, <4>2
    <3>2. form[f].link \in Link \cup {None}
      BY <1>0 DEF FormState
    <3>3. /\ link' = [link EXCEPT ![form[f].link] = [link[form[f].link] EXCEPT !.used = TRUE]]
          /\ uses' = [uses EXCEPT ![form[f].link] = uses[form[f].link] + 1]
      BY <1>2 DEF completePasswordReset
    <3> QED BY <3>1, <3>2, <3>3 DEF TypeOK
  <2> QED BY <1>0, <1>2, <2>1, <2>2, OvertakeType DEF completePasswordReset, CountIsReset, TypeOK
<1>3. CASE changePassword(f)
  <2>1. account' \in Account
    BY <1>0, <1>3 DEF changePassword, TypeOK, Account, ResetCount, WithPassword, FormState
  <2> QED BY <1>0, <1>3, <2>1, OvertakeType DEF changePassword, CountIsReset, TypeOK
<1>4. CASE changeOwnPassword(f)
  <2>1. account' \in Account
    BY <1>0, <1>4 DEF changeOwnPassword, TypeOK, Account, WithPassword, FormState
  <2> QED BY <1>0, <1>4, <2>1, OvertakeType DEF changeOwnPassword, TypeOK
<1>5. CASE formFails(f)
  BY <1>0, <1>5 DEF formFails, TypeOK
<1> QED BY <1>1, <1>2, <1>3, <1>4, <1>5

LEMMA AdminType ==
  ASSUME TypeOK, AdminNext
  PROVE  TypeOK'
<1>1. CASE \E p \in Password, must, active \in BOOLEAN : createUser(p, must, active)
  <2> PICK p \in Password, must, active \in BOOLEAN : createUser(p, must, active)
    BY <1>1
  <2>1. account' \in Account
    <3>1. WithPassword(account, p, must) \in Account
      BY AccountTypes
    <3>2. account' = [WithPassword(account, p, must) EXCEPT
                        !.state = IF active THEN "active" ELSE "inactive"]
      BY DEF createUser
    <3> QED BY <3>1, <3>2 DEF Account
  <2> QED BY <2>1 DEF createUser, TypeOK
<1>2. CASE \E k \in Link : initiatePasswordReset(k)
  BY <1>2, AccountsAssumption DEF initiatePasswordReset, TypeOK, LinkRow
<1>3. CASE \E p \in Password : resetPassword(p) \/ adminResetToTemporary(p)
  <2> PICK p \in Password, must \in BOOLEAN : AdminSets(p, must)
    BY <1>3 DEF resetPassword, adminResetToTemporary
  <2> QED BY AccountTypes, OvertakeType DEF AdminSets, TypeOK
<1>4. CASE adminUnlockUserLogin
  BY <1>4 DEF adminUnlockUserLogin, ResetCount, CountIsReset, TypeOK, Account
<1>5. CASE unlockLogin
  BY <1>5, ThrottleType DEF unlockLogin, clearForUsername, TypeOK
<1>6. CASE \E p \in Password : resetAdmin(p)
  <2>1. account' \in Account
    BY <1>6 DEF resetAdmin, TypeOK, Account
  <2> QED BY <1>6, <2>1, OvertakeType DEF resetAdmin, TypeOK
<1> QED BY <1>1, <1>2, <1>3, <1>4, <1>5, <1>6 DEF AdminNext

LEMMA TypeStep == TypeOK /\ [Next]_vars => TypeOK'
<1> SUFFICES ASSUME TypeOK, [Next]_vars PROVE TypeOK'
  OBVIOUS
<1>1. CASE crash
  BY <1>1 DEF crash, TypeOK, Attempt, NoAttempt, FormState, NoForm
<1>2. CASE tick
  BY <1>2, ThrottleType, AccountsAssumption DEF tick, TypeOK
<1>3. CASE UNCHANGED vars
  BY <1>3 DEF vars, TypeOK
<1> QED BY <1>1, <1>2, <1>3, LoginType, FormType, AdminType DEF Next

\* Every variable has its type.
THEOREM AccountsTypeCorrect == Spec => []TypeOK
BY TypeInit, TypeStep, PTL DEF Spec

----------------------------------------------------------------------------
(* The count of failures and the lock *)

\* What a step does to the count: nothing, a reset, or one failure more.
CountStays ==
  UNCHANGED <<wrong, exact>> /\ account'.failed = account.failed /\ account'.lock = account.lock

CountEnds ==
  /\ account'.failed = 0
  /\ account'.lock = 0
  /\ wrong' = [n |-> 0, at |-> 0]
  /\ exact' = (\A l \in Login : attempt'[l].pc \notin {"wrong", "right"})

CountSteps == CountStays \/ CountEnds \/ \E l \in Login : storeFailure(l)

\* A login that has found its password wrong has just read the row, or read it
\* before and has nothing else in hand by now.
JustRead(l) ==
  /\ attempt[l].pc = "started"
  /\ attempt'[l].at = attempt[l].at
  /\ attempt'[l].failed = account.failed
  /\ attempt'[l].lock = account.lock
  /\ account.lock <= attempt[l].at
  /\ UNCHANGED <<account, wrong, exact>>

StillHeld(l) ==
  /\ attempt[l].pc = "wrong"
  /\ attempt'[l].at = attempt[l].at
  /\ attempt'[l].failed = attempt[l].failed
  /\ attempt'[l].lock = attempt[l].lock

ReadersKept ==
  \A l \in Login :
    /\ attempt'[l].pc = "wrong" => JustRead(l) \/ StillHeld(l)
    /\ attempt'[l].pc = "started" =>
         \/ attempt[l].pc = "started" /\ attempt'[l].at = attempt[l].at
         \/ attempt'[l].at = now

LEMMA OneAttemptMoves ==
  ASSUME TypeOK, NEW l \in Login, NEW a \in Attempt, attempt' = [attempt EXCEPT ![l] = a],
         a.pc = "wrong" => JustRead(l),
         a.pc = "started" => a.at = now
  PROVE  ReadersKept
BY DEF TypeOK, ReadersKept, StillHeld

LEMMA AttemptsStand ==
  ASSUME TypeOK, UNCHANGED attempt \/ Overtake
  PROVE  ReadersKept
<1>1. CASE UNCHANGED attempt
  BY <1>1 DEF ReadersKept, StillHeld
<1>2. CASE Overtake
  BY <1>2, OvertakeType DEF ReadersKept, StillHeld
<1> QED BY <1>1, <1>2

LEMMA FindUserReads ==
  ASSUME TypeOK, NEW l \in Login, findUser(l)
  PROVE  CountSteps /\ ReadersKept
<1> DEFINE a == attempt'[l]
<1>1. attempt' = [attempt EXCEPT ![l] = a] /\ a \in Attempt
  BY AttemptTypes DEF findUser, TypeOK
<1>2. a.pc = "wrong" => JustRead(l)
  <2>1. CASE account.state # "active"
    BY <2>1 DEF findUser, Refused, TypeOK
  <2>2. CASE account.state = "active" /\ account.lock > attempt[l].at
    BY <2>2 DEF findUser, NoAttempt, TypeOK
  <2>3. CASE account.state = "active" /\ ~ (account.lock > attempt[l].at)
    <3>1. account.lock \in Nat /\ attempt[l].at \in Nat
      BY AccountRow, AttemptTypes DEF Account, Attempt
    <3>2. account.lock <= attempt[l].at
      BY <2>3, <3>1
    <3>3. a = Compared(l)
      BY <2>3 DEF findUser, TypeOK
    <3>4. CASE attempt[l].password = account.password
      BY <3>3, <3>4, AttemptTypes DEF Compared, Attempt
    <3>5. CASE attempt[l].password # account.password
      <4>1. /\ a.at = attempt[l].at
            /\ a.failed = account.failed
            /\ a.lock = account.lock
        BY <3>3, <3>5 DEF Compared, NoAttempt
      <4>2. attempt[l].pc = "started" /\ UNCHANGED <<account, wrong, exact>>
        BY DEF findUser
      <4> QED BY <3>2, <4>1, <4>2 DEF JustRead
    <3> QED BY <3>4, <3>5
  <2> QED BY <2>1, <2>2, <2>3
<1>3. a.pc # "started"
  <2>1. a \in {Refused(l), NoAttempt, Compared(l)}
    BY DEF findUser, TypeOK
  <2>2. Refused(l).pc = "refused" /\ NoAttempt.pc = "idle"
    BY DEF Refused, NoAttempt
  <2>3. Compared(l).pc \in {"right", "wrong"}
    BY AttemptTypes DEF Compared, NoAttempt, Attempt
  <2> QED BY <2>1, <2>2, <2>3
<1>4. ReadersKept
  <2> HIDE DEF a
  <2> QED BY <1>1, <1>2, <1>3, OneAttemptMoves
<1> QED BY <1>4 DEF CountSteps, CountStays, findUser

LEMMA LoginCounts ==
  ASSUME TypeOK, LoginNext
  PROVE  CountSteps /\ ReadersKept
<1> PICK l \in Login :
      \/ \E ip \in Ip, p \in Password : startLogin(l, ip, p)
      \/ findUser(l)
      \/ storeFailure(l)
      \/ storeSuccess(l)
      \/ loginThrows(l)
      \/ onFailure(l)
      \/ onSuccess(l)
      \/ throttleFails(l)
  BY DEF LoginNext
<1>1. CASE \E ip \in Ip, p \in Password : startLogin(l, ip, p)
  <2> PICK ip \in Ip, p \in Password : startLogin(l, ip, p)
    BY <1>1
  <2> DEFINE a == [NoAttempt EXCEPT !.pc = "started", !.ip = ip, !.password = p, !.at = now]
  <2>1. a \in Attempt /\ a.pc = "started" /\ a.at = now
    BY TimeType DEF NoAttempt, Attempt
  <2>2. attempt' = [attempt EXCEPT ![l] = a]
    BY DEF startLogin, Begin
  <2>3. ReadersKept
    <3> HIDE DEF a
    <3> QED BY <2>1, <2>2, OneAttemptMoves
  <2> QED BY <2>3 DEF CountSteps, CountStays, startLogin
<1>2. CASE findUser(l)
  BY <1>2, FindUserReads
<1>3. CASE storeFailure(l)
  <2>1. PICK a \in {Refused(l), NoAttempt} : attempt' = [attempt EXCEPT ![l] = a]
    BY <1>3 DEF storeFailure
  <2>2. a \in Attempt /\ a.pc \notin {"wrong", "started"}
    <3>1. Refused(l).pc = "refused" /\ NoAttempt.pc = "idle"
      BY DEF Refused, NoAttempt
    <3> QED BY <3>1, AttemptTypes
  <2> QED BY <1>3, <2>1, <2>2, OneAttemptMoves DEF CountSteps
<1>4. CASE storeSuccess(l)
  <2> DEFINE a == [attempt[l] EXCEPT !.pc = "accepted"]
  <2>1. a \in Attempt /\ a.pc = "accepted"
    BY AttemptTypes DEF Attempt
  <2>2. attempt' = [attempt EXCEPT ![l] = a]
    BY <1>4 DEF storeSuccess
  <2>3. ReadersKept
    <3> HIDE DEF a
    <3> QED BY <2>1, <2>2, OneAttemptMoves
  <2>4. \A k \in Login : attempt'[k] = IF k = l THEN a ELSE attempt[k]
    BY <2>2 DEF TypeOK
  <2>5. exact' = (\A k \in Login : attempt'[k].pc \notin {"wrong", "right"})
    <3> HIDE DEF a
    <3> QED BY <1>4, <2>1, <2>4 DEF storeSuccess, CountIsReset, Counting
  <2>6. account'.failed = 0 /\ account'.lock = 0
    BY <1>4, AccountRow DEF storeSuccess, ResetCount, Account
  <2> QED BY <1>4, <2>3, <2>5, <2>6 DEF CountSteps, CountEnds, storeSuccess, CountIsReset
<1>5. CASE loginThrows(l)
  <2>1. Refused(l) \in Attempt /\ Refused(l).pc = "refused"
    BY AttemptTypes DEF Refused, NoAttempt
  <2> QED BY <1>5, <2>1, OneAttemptMoves DEF CountSteps, CountStays, loginThrows
<1>6. CASE onFailure(l) \/ onSuccess(l) \/ throttleFails(l)
  <2>1. NoAttempt \in Attempt /\ NoAttempt.pc = "idle"
    BY AttemptTypes DEF NoAttempt
  <2>2. EndLogin(l)
    BY <1>6 DEF onFailure, onSuccess, throttleFails
  <2> QED BY <2>1, <2>2, OneAttemptMoves DEF CountSteps, CountStays, EndLogin
<1> QED BY <1>1, <1>2, <1>3, <1>4, <1>5, <1>6

\* A reset of the count by somebody who is not a login.
LEMMA ResetCounts ==
  ASSUME TypeOK, CountIsReset(Login), UNCHANGED attempt \/ Overtake,
         NEW row \in Account, account' = ResetCount(row)
  PROVE  CountSteps /\ ReadersKept
<1>1. \A l \in Login : attempt'[l].pc = attempt[l].pc
  BY OvertakeType
<1>2. exact' = (\A l \in Login : attempt'[l].pc \notin {"wrong", "right"})
  BY <1>1 DEF CountIsReset, Counting
<1>3. account'.failed = 0 /\ account'.lock = 0
  BY DEF ResetCount, Account
<1> QED BY <1>2, <1>3, AttemptsStand DEF CountSteps, CountEnds, CountIsReset

\* A new password in the row, with the count left as it is.
LEMMA PasswordCounts ==
  ASSUME TypeOK, NEW p, NEW must, account' = WithPassword(account, p, must),
         UNCHANGED <<wrong, exact>>
  PROVE  CountSteps
BY AccountRow DEF CountSteps, CountStays, WithPassword, Account

LEMMA FormCounts ==
  ASSUME TypeOK, FormNext
  PROVE  CountSteps /\ ReadersKept
<1> PICK f \in Form :
      \/ UNCHANGED <<account, attempt, wrong, exact>>
      \/ completePasswordReset(f)
      \/ changePassword(f)
      \/ changeOwnPassword(f)
  BY DEF FormNext, findLink, checkPassword, checkOwnPassword, formFails, Fill
<1>1. CASE UNCHANGED <<account, attempt, wrong, exact>>
  BY <1>1, AttemptsStand DEF CountSteps, CountStays
<1>2. CASE completePasswordReset(f) \/ changePassword(f)
  <2>1. /\ account' = ResetCount(WithPassword(account, form[f].new, FALSE))
        /\ CountIsReset(Login)
        /\ Overtake
    BY <1>2 DEF completePasswordReset, changePassword
  <2>2. WithPassword(account, form[f].new, FALSE) \in Account
    BY AccountRow DEF WithPassword, Account, TypeOK, FormState
  <2> QED BY <2>1, <2>2, ResetCounts
<1>3. CASE changeOwnPassword(f)
  BY <1>3, PasswordCounts, AttemptsStand DEF changeOwnPassword
<1> QED BY <1>1, <1>2, <1>3

LEMMA AdminCounts ==
  ASSUME TypeOK, AdminNext
  PROVE  CountSteps /\ ReadersKept
<1>1. CASE \E p \in Password, must, active \in BOOLEAN : createUser(p, must, active)
  <2> PICK p \in Password, must, active \in BOOLEAN : createUser(p, must, active)
    BY <1>1
  <2>1. account'.failed = account.failed /\ account'.lock = account.lock
    BY AccountRow DEF createUser, WithPassword, Account
  <2> QED BY <2>1, AttemptsStand DEF createUser, CountSteps, CountStays
<1>2. CASE unlockLogin \/ \E k \in Link : initiatePasswordReset(k)
  BY <1>2, AttemptsStand DEF initiatePasswordReset, unlockLogin, CountSteps, CountStays
<1>3. CASE \E p \in Password : resetPassword(p) \/ adminResetToTemporary(p)
  BY <1>3, PasswordCounts, AttemptsStand DEF resetPassword, adminResetToTemporary, AdminSets
<1>4. CASE adminUnlockUserLogin
  BY <1>4, AccountRow, ResetCounts DEF adminUnlockUserLogin
<1>5. CASE \E p \in Password : resetAdmin(p)
  <2>1. account'.failed = account.failed /\ account'.lock = account.lock
    BY <1>5, AccountRow DEF resetAdmin, Account
  <2> QED BY <1>5, <2>1, AttemptsStand DEF resetAdmin, CountSteps, CountStays
<1> QED BY <1>1, <1>2, <1>3, <1>4, <1>5 DEF AdminNext

LEMMA CountStep == TypeOK /\ [Next]_vars => CountSteps /\ ReadersKept
<1> SUFFICES ASSUME TypeOK, [Next]_vars PROVE CountSteps /\ ReadersKept
  OBVIOUS
<1>1. CASE crash
  <2>1. \A l \in Login : attempt'[l].pc = "idle"
    BY <1>1 DEF crash, NoAttempt
  <2> QED BY <1>1, <2>1 DEF crash, CountSteps, CountStays, ReadersKept
<1>2. CASE tick \/ UNCHANGED vars
  BY <1>2, AttemptsStand DEF tick, vars, CountSteps, CountStays
<1> QED BY <1>1, <1>2, LoginCounts, FormCounts, AdminCounts DEF Next

\* What a login that will store a failure has read: a lock that was over when
\* it began and, while the history is exact, the row as it is.
ReadsAreGood ==
  \A l \in Login :
    /\ attempt[l].pc \in {"started", "wrong"} => attempt[l].at <= now
    /\ attempt[l].pc = "wrong" =>
         /\ attempt[l].lock <= attempt[l].at
         /\ exact => attempt[l].failed = account.failed /\ attempt[l].lock = account.lock

CountInv == TypeOK /\ CountIsExact /\ FailureLeavesCount /\ ReadsAreGood

LEMMA CountInit == Init => CountInv
<1> SUFFICES ASSUME Init PROVE CountInv
  OBVIOUS
<1>1. CountIsExact /\ FailureLeavesCount /\ ReadsAreGood
  BY AccountsAssumption DEF Init, CountIsExact, FailureLeavesCount, ReadsAreGood, NoAttempt
<1> QED BY <1>1, TypeInit DEF CountInv

LEMMA CountInvStep == CountInv /\ [Next]_vars => CountInv'
<1> SUFFICES ASSUME CountInv, [Next]_vars PROVE CountInv'
  OBVIOUS
<1>1. TypeOK /\ TypeOK' /\ CountSteps /\ ReadersKept
  BY TypeStep, CountStep DEF CountInv
<1>2. now <= now'
  <2>1. now \in Nat
    BY <1>1, TimeType
  <2>2. UNCHANGED now \/ now' = now + 1
    BY DEF Next, vars, LoginNext, FormNext, AdminNext, startLogin, findUser, storeFailure,
           storeSuccess, loginThrows, onFailure, onSuccess, throttleFails, EndLogin, findLink,
           checkPassword, checkOwnPassword, Fill, completePasswordReset, changePassword,
           changeOwnPassword, formFails, createUser, initiatePasswordReset, resetPassword,
           adminResetToTemporary, AdminSets, resetAdmin, adminUnlockUserLogin, unlockLogin,
           crash, tick
  <2> QED BY <2>1, <2>2
<1>3. /\ now \in Nat /\ now' \in Nat
      /\ account.failed \in Nat /\ account.lock \in Nat /\ wrong.n \in Nat
      /\ \A l \in Login : attempt[l].at \in Nat /\ attempt[l].failed \in Nat /\ attempt[l].lock \in Nat
  BY <1>1, TimeType DEF TypeOK, Account, Attempt
<1>4. \A l \in Login : attempt'[l].pc \in {"started", "wrong"} => attempt'[l].at <= now'
  <2> TAKE l \in Login
  <2>1. attempt[l].pc \in {"started", "wrong"} => attempt[l].at <= now'
    BY <1>2, <1>3 DEF CountInv, ReadsAreGood
  <2> QED BY <1>1, <1>2, <1>3, <2>1 DEF ReadersKept, JustRead, StillHeld
<1>5. \A l \in Login : attempt'[l].pc = "wrong" => attempt'[l].lock <= attempt'[l].at
  BY <1>1 DEF ReadersKept, JustRead, StillHeld, CountInv, ReadsAreGood
<1>6. CASE CountStays
  <2>1. CountIsExact' /\ FailureLeavesCount'
    BY <1>6 DEF CountStays, CountInv, CountIsExact, FailureLeavesCount
  <2>2. \A l \in Login : attempt'[l].pc = "wrong" /\ exact' =>
          attempt'[l].failed = account'.failed /\ attempt'[l].lock = account'.lock
    BY <1>1, <1>6 DEF CountStays, ReadersKept, JustRead, StillHeld, CountInv, ReadsAreGood
  <2> QED BY <1>1, <1>4, <1>5, <2>1, <2>2 DEF CountInv, ReadsAreGood
<1>7. CASE CountEnds
  <2>1. CountIsExact' /\ FailureLeavesCount'
    BY <1>7, AccountsAssumption DEF CountEnds, CountIsExact, FailureLeavesCount
  <2>2. \A l \in Login : attempt'[l].pc = "wrong" => ~ exact'
    BY <1>7 DEF CountEnds
  <2> QED BY <1>1, <1>4, <1>5, <2>1, <2>2 DEF CountInv, ReadsAreGood
<1>8. ASSUME NEW l \in Login, storeFailure(l)
      PROVE  CountInv'
  <2>1. /\ account'.failed = attempt[l].failed + 1
        /\ account'.lock = LockAfter(l)
    BY <1>1, <1>8, AccountRow DEF storeFailure, Account
  <2>2. FailureLeavesCount'
    BY <1>3, <2>1 DEF FailureLeavesCount
  <2>3. CountIsExact'
    <3> SUFFICES ASSUME exact' PROVE CountIsExact'
      BY DEF CountIsExact
    <3>1. exact /\ wrong'.n = wrong.n + 1 /\ wrong'.at = attempt[l].at
      BY <1>8 DEF storeFailure, AFailureIsStored
    <3>2. /\ attempt[l].failed = wrong.n
          /\ attempt[l].lock = IF wrong.n >= MaxFailed THEN wrong.at + LockTime ELSE 0
      BY <1>8, <3>1 DEF CountInv, CountIsExact, ReadsAreGood, storeFailure
    <3> QED BY <1>3, <2>1, <3>1, <3>2, AccountsAssumption DEF CountIsExact, LockAfter, Locks
  <2>4. \A k \in Login : attempt'[k].pc = "wrong" => ~ exact'
    <3> SUFFICES ASSUME NEW k \in Login, attempt'[k].pc = "wrong" PROVE ~ exact'
      OBVIOUS
    <3>1. attempt[k].pc = "wrong" /\ k # l
      <4>1. \E a \in {Refused(l), NoAttempt} : attempt' = [attempt EXCEPT ![l] = a]
        BY <1>8 DEF storeFailure
      <4>2. Refused(l).pc = "refused" /\ NoAttempt.pc = "idle"
        BY DEF Refused, NoAttempt
      <4> QED BY <1>1, <4>1, <4>2 DEF TypeOK
    <3> QED BY <1>8, <3>1 DEF storeFailure, AFailureIsStored, Counting
  <2> QED BY <1>1, <1>4, <1>5, <2>2, <2>3, <2>4 DEF CountInv, ReadsAreGood
<1> QED BY <1>1, <1>6, <1>7, <1>8 DEF CountSteps

LEMMA CountInvariant == Spec => []CountInv
BY CountInit, CountInvStep, PTL DEF Spec

\* Unless failures overlap other changes of the count, each one is counted and
\* the lock runs from the last that reached the limit.
THEOREM EveryFailureCounts == Spec => []CountIsExact
<1>1. CountInv => CountIsExact
  BY DEF CountInv
<1> QED BY <1>1, CountInvariant, PTL

\* A failure is never lost altogether.
THEOREM FailuresAreSeen == Spec => []FailureLeavesCount
<1>1. CountInv => FailureLeavesCount
  BY DEF CountInv
<1> QED BY <1>1, CountInvariant, PTL

\* A lock in force is changed only by a reset or by a login older than it.
THEOREM LocksHold == Spec => LockIsKept
<1> DEFINE Change == (account.lock > now /\ account'.lock # account.lock) =>
                       \/ account'.failed = 0
                       \/ \E l \in Login : attempt[l].pc = "wrong" /\ attempt[l].lock # account.lock
<1>1. CountInv /\ [Next]_vars => [Change]_vars
  <2> SUFFICES ASSUME CountInv, [Next]_vars PROVE Change
    OBVIOUS
  <2>1. TypeOK /\ CountSteps
    BY CountStep DEF CountInv
  <2>2. CASE CountStays \/ CountEnds
    BY <2>2 DEF CountStays, CountEnds
  <2>3. ASSUME NEW l \in Login, storeFailure(l)
        PROVE  Change
    <3>1. attempt[l].pc = "wrong" /\ attempt[l].lock <= attempt[l].at /\ attempt[l].at <= now
      BY <2>3 DEF storeFailure, CountInv, ReadsAreGood
    <3>2. now \in Nat /\ attempt[l].at \in Nat /\ attempt[l].lock \in Nat /\ account.lock \in Nat
      BY <2>1, TimeType DEF TypeOK, Attempt, Account
    <3>3. account.lock > now => attempt[l].lock # account.lock
      BY <3>1, <3>2
    <3> QED BY <3>1, <3>3
  <2> QED BY <2>1, <2>2, <2>3 DEF CountSteps
<1> QED BY <1>1, CountInvariant, PTL DEF Spec, LockIsKept

----------------------------------------------------------------------------
(* The throttle.  A login the throttle lets in is not counted yet: the     *)
(* count and the logins under way together never exceed the limit by more  *)
(* than there can be logins, and than were let in because Redis did not    *)
(* tell the count.                                                         *)

\* The logins under way that would be counted under a key.
Busy(k) == {l \in Login : attempt[l].pc # "idle" /\ (k = UserKey \/ attempt[l].ip = k)}

Bound(k) == Limit(k) + Cardinality(Login) + counter[k].unread

Bounded(k) == counter[k].n + Cardinality(Busy(k)) <= Bound(k)

ThrottleInv == TypeOK /\ \A k \in Key : Bounded(k)

LEMMA BusyFinite ==
  ASSUME NEW k
  PROVE  /\ IsFiniteSet(Login) /\ IsFiniteSet(Busy(k))
         /\ Cardinality(Login) \in Nat /\ Cardinality(Busy(k)) \in Nat
         /\ Cardinality(Busy(k)) <= Cardinality(Login)
<1>1. IsFiniteSet(Login) /\ Busy(k) \subseteq Login
  BY AccountsAssumption DEF Busy
<1> QED BY <1>1, FS_Subset, FS_CardinalityType

LEMMA LimitType == \A k \in Key : Limit(k) \in Nat
BY LoginThrottleAssumption DEF Limit

LEMMA CountType ==
  ASSUME TypeOK, NEW k \in Key
  PROVE  counter[k].n \in Nat /\ counter[k].unread \in Nat
BY DEF TypeOK, Counter

\* The same counter, or none, and no more logins under way do no harm.
LEMMA LessIsFine ==
  ASSUME ThrottleInv, TypeOK', NEW k \in Key, counter'[k] = counter[k] \/ counter'[k].n = 0,
         Busy(k)' \subseteq Busy(k)
  PROVE  Bounded(k)'
<1>1. Cardinality(Busy(k)') <= Cardinality(Busy(k)) /\ Cardinality(Busy(k)') \in Nat
      /\ Cardinality(Busy(k)') <= Cardinality(Login)
  BY BusyFinite, FS_Subset, FS_CardinalityType
<1>2. /\ counter'[k].n \in Nat /\ counter'[k].unread \in Nat
      /\ counter[k].n \in Nat /\ counter[k].unread \in Nat
  BY DEF ThrottleInv, TypeOK, Counter
<1>3. CASE counter'[k] = counter[k]
  BY <1>1, <1>2, <1>3, BusyFinite, LimitType DEF ThrottleInv, Bounded, Bound
<1>4. CASE counter'[k].n = 0
  BY <1>1, <1>2, <1>4, BusyFinite, LimitType DEF Bounded, Bound
<1> QED BY <1>3, <1>4

\* What every step but the start and the counting of a login does.
OnlyLess ==
  /\ \A k \in Key : counter'[k] = counter[k] \/ counter'[k].n = 0
  /\ \A l \in Login : attempt'[l].pc # "idle" =>
                        attempt[l].pc # "idle" /\ attempt'[l].ip = attempt[l].ip

\* A refused login ends and is counted, under both its keys or only one.
Counts(l) ==
  /\ attempt[l].pc # "idle"
  /\ \E keys \in SUBSET {attempt[l].ip, UserKey} : CountFailure(keys)
  /\ attempt' = [attempt EXCEPT ![l] = NoAttempt]

LEMMA CountersForgotten ==
  ASSUME TypeOK, NEW keys, NEW t, Forget(keys) \/ Expire(t)
  PROVE  \A k \in Key : counter'[k] = counter[k] \/ counter'[k].n = 0
BY DEF TypeOK, Counter, Forget, Expire, NoCount

LEMMA LoginThrottled ==
  ASSUME TypeOK, LoginNext
  PROVE  \/ OnlyLess
         \/ \E l \in Login, ip \in Ip, p \in Password : startLogin(l, ip, p)
         \/ \E l \in Login : Counts(l)
<1> PICK l \in Login :
      \/ \E ip \in Ip, p \in Password : startLogin(l, ip, p)
      \/ findUser(l)
      \/ storeFailure(l)
      \/ storeSuccess(l)
      \/ loginThrows(l)
      \/ onFailure(l)
      \/ onSuccess(l)
      \/ throttleFails(l)
  BY DEF LoginNext
<1>0. /\ Refused(l).ip = attempt[l].ip
      /\ Compared(l).ip = attempt[l].ip
      /\ NoAttempt.pc = "idle"
  BY AttemptTypes DEF Refused, Compared, NoAttempt, Attempt
<1>1. CASE findUser(l) \/ storeFailure(l) \/ loginThrows(l)
  <2>1. attempt[l].pc # "idle" /\ UNCHANGED counter
    BY <1>1 DEF findUser, storeFailure, loginThrows
  <2>2. \E a \in {Refused(l), Compared(l), NoAttempt} : attempt' = [attempt EXCEPT ![l] = a]
    BY <1>1 DEF findUser, storeFailure, loginThrows
  <2> QED BY <1>0, <2>1, <2>2 DEF OnlyLess, TypeOK
<1>2. CASE storeSuccess(l)
  BY <1>2, AttemptTypes DEF storeSuccess, OnlyLess, TypeOK, Attempt
<1>3. CASE onSuccess(l) \/ onFailure(l) \/ throttleFails(l)
  <2>1. attempt[l].pc # "idle" /\ attempt' = [attempt EXCEPT ![l] = NoAttempt]
    BY <1>3 DEF onSuccess, onFailure, throttleFails, EndLogin
  <2>2. CASE \E keys \in SUBSET {attempt[l].ip, UserKey} : CountFailure(keys)
    BY <2>1, <2>2 DEF Counts
  <2>3. CASE UNCHANGED counter \/ Forget({attempt[l].ip, UserKey})
    <3>1. \A k \in Key : counter'[k] = counter[k] \/ counter'[k].n = 0
      BY <2>3, CountersForgotten
    <3> QED BY <1>0, <2>1, <3>1 DEF OnlyLess, TypeOK
  <2> QED BY <1>3, <2>2, <2>3 DEF onSuccess, onFailure, throttleFails
<1> QED BY <1>1, <1>2, <1>3

LEMMA ThrottleSteps ==
  ASSUME TypeOK, [Next]_vars
  PROVE  \/ OnlyLess
         \/ \E l \in Login, ip \in Ip, p \in Password : startLogin(l, ip, p)
         \/ \E l \in Login : Counts(l)
<1>1. CASE LoginNext
  BY <1>1, LoginThrottled
<1>2. CASE FormNext \/ AdminNext \/ UNCHANGED vars
  <2>1. UNCHANGED attempt \/ Overtake
    BY <1>2 DEF FormNext, AdminNext, vars, findLink, checkPassword, checkOwnPassword, Fill,
                completePasswordReset, changePassword, changeOwnPassword, formFails, createUser,
                initiatePasswordReset, resetPassword, adminResetToTemporary, AdminSets, resetAdmin,
                adminUnlockUserLogin, unlockLogin
  <2>2. UNCHANGED counter \/ Forget({UserKey})
    BY <1>2 DEF FormNext, AdminNext, vars, findLink, checkPassword, checkOwnPassword, Fill,
                completePasswordReset, changePassword, changeOwnPassword, formFails, createUser,
                initiatePasswordReset, resetPassword, adminResetToTemporary, AdminSets, resetAdmin,
                adminUnlockUserLogin, unlockLogin, clearForUsername
  <2>3. \A k \in Key : counter'[k] = counter[k] \/ counter'[k].n = 0
    BY <2>2, CountersForgotten
  <2> QED BY <2>1, <2>3, OvertakeType DEF OnlyLess
<1>3. CASE crash
  <2>1. \A l \in Login : attempt'[l].pc = "idle"
    BY <1>3 DEF crash, NoAttempt
  <2> QED BY <1>3, <2>1 DEF crash, OnlyLess
<1>4. CASE tick
  BY <1>4, CountersForgotten DEF tick, OnlyLess
<1> QED BY <1>1, <1>2, <1>3, <1>4 DEF Next

LEMMA ThrottleInit == Init => ThrottleInv
<1> SUFFICES ASSUME Init, NEW k \in Key
             PROVE  Bounded(k)
  BY TypeInit DEF ThrottleInv
<1>1. counter[k].n = 0 /\ counter[k].unread = 0
  BY DEF Init, NoCount
<1> QED BY <1>1, BusyFinite, LimitType DEF Bounded, Bound

\* A login that begins is under way: where its count was read it is within the
\* limit, and where it was not, the bound has grown by it.
LEMMA StartIsBounded ==
  ASSUME ThrottleInv, TypeOK', NEW k \in Key, NEW l \in Login, NEW ip \in Ip,
         NEW p \in Password, startLogin(l, ip, p)
  PROVE  Bounded(k)'
<1>1. TypeOK /\ Bounded(k)
  BY DEF ThrottleInv
<1>2. attempt'[l].ip = ip /\ \A m \in Login \ {l} : attempt'[m] = attempt[m]
  BY <1>1 DEF startLogin, Begin, NoAttempt, TypeOK
<1>3. PICK unread \in SUBSET {ip, UserKey} : ~ IsLocked(ip, unread) /\ LetIn(unread)
  BY DEF startLogin
<1>4. Limit(k) \in Nat /\ counter[k].n \in Nat /\ counter[k].unread \in Nat
  BY <1>1, CountType, LimitType
<1>5. Cardinality(Busy(k)') <= Cardinality(Login) /\ Cardinality(Busy(k)') \in Nat
  <2>1. Busy(k)' \subseteq Login
    BY DEF Busy
  <2> QED BY <2>1, BusyFinite, FS_Subset, FS_CardinalityType
<1>6. CASE k \notin {ip, UserKey}
  <2>1. Busy(k)' \subseteq Busy(k)
    BY <1>2, <1>6 DEF Busy
  <2>2. counter'[k] = counter[k]
    BY <1>3, <1>6 DEF LetIn
  <2> QED BY <2>1, <2>2, LessIsFine
<1>7. CASE k \in {ip, UserKey} /\ ~ Exceeded(k)
  <2>1. counter'[k] = counter[k] /\ counter[k].n <= Limit(k)
    BY <1>3, <1>4, <1>7 DEF LetIn, Exceeded
  <2> QED BY <1>4, <1>5, <2>1, BusyFinite DEF Bounded, Bound
<1>8. CASE k \in {ip, UserKey} /\ Exceeded(k)
  <2>1. k \in unread
    BY <1>3, <1>8 DEF IsLocked
  <2>2. counter'[k] = [counter[k] EXCEPT !.unread = @ + 1] /\ counter[k] \in Counter
    BY <1>1, <1>3, <1>8, <2>1 DEF LetIn, TypeOK
  <2>3. counter'[k].n = counter[k].n /\ counter'[k].unread = counter[k].unread + 1
    BY <2>2 DEF Counter
  <2>4. Busy(k)' \subseteq Busy(k) \cup {l}
    BY <1>2 DEF Busy
  <2>5. Cardinality(Busy(k)') <= Cardinality(Busy(k)) + 1
    <3>1. /\ IsFiniteSet(Busy(k) \cup {l})
          /\ \/ Cardinality(Busy(k) \cup {l}) = Cardinality(Busy(k))
             \/ Cardinality(Busy(k) \cup {l}) = Cardinality(Busy(k)) + 1
      BY BusyFinite, FS_AddElement
    <3>2. Cardinality(Busy(k)') <= Cardinality(Busy(k) \cup {l})
      BY <2>4, <3>1, FS_Subset
    <3> QED BY <3>1, <3>2, <1>5, BusyFinite
  <2> QED BY <1>1, <1>4, <1>5, <2>3, <2>5, BusyFinite DEF Bounded, Bound
<1> QED BY <1>6, <1>7, <1>8

\* A login that is counted is no longer under way.
LEMMA CountIsBounded ==
  ASSUME ThrottleInv, TypeOK', NEW k \in Key, NEW l \in Login, Counts(l)
  PROVE  Bounded(k)'
<1>1. TypeOK /\ Bounded(k)
  BY DEF ThrottleInv
<1>2. \A m \in Login : attempt'[m] = IF m = l THEN NoAttempt ELSE attempt[m]
  BY <1>1 DEF Counts, TypeOK
<1>3. Busy(k)' = Busy(k) \ {l}
  BY <1>2 DEF Busy, NoAttempt
<1>4. PICK keys \in SUBSET {attempt[l].ip, UserKey} : CountFailure(keys)
  BY DEF Counts
<1>5. CASE k \in keys
  <2>1. counter[k] \in Counter /\ counter'[k] = Bump(counter[k])
    BY <1>1, <1>4, <1>5 DEF CountFailure, TypeOK
  <2>2. counter'[k].n = counter[k].n + 1
    BY <2>1 DEF Bump, NoCount, Counter
  <2>3. counter[k].n = 0 \/ counter'[k].unread = counter[k].unread
    BY <2>1 DEF Bump, NoCount, Counter
  <2>4. /\ counter[k].n \in Nat /\ counter[k].unread \in Nat
        /\ counter'[k].unread \in Nat
    BY <1>1 DEF TypeOK, Counter
  <2>5. l \in Busy(k)
    BY <1>4, <1>5 DEF Busy, Counts
  <2>6. Cardinality(Busy(k)') = Cardinality(Busy(k)) - 1
    BY <1>3, <2>5, BusyFinite, FS_RemoveElement
  <2>7. Limit(k) \in Nat
    BY LimitType
  <2> QED BY <1>1, <2>2, <2>3, <2>4, <2>6, <2>7, BusyFinite DEF Bounded, Bound
<1>6. CASE k \notin keys
  <2>1. counter'[k] = counter[k]
    BY <1>4, <1>6 DEF CountFailure
  <2> QED BY <1>3, <2>1, LessIsFine
<1> QED BY <1>5, <1>6

LEMMA ThrottleStep == ThrottleInv /\ [Next]_vars => ThrottleInv'
<1> SUFFICES ASSUME ThrottleInv, [Next]_vars, NEW k \in Key
             PROVE  Bounded(k)'
  BY TypeStep DEF ThrottleInv, Key
<1>1. TypeOK /\ TypeOK'
  BY TypeStep DEF ThrottleInv
<1>2. CASE OnlyLess
  <2>1. Busy(k)' \subseteq Busy(k) /\ (counter'[k] = counter[k] \/ counter'[k].n = 0)
    BY <1>2 DEF OnlyLess, Busy
  <2> QED BY <1>1, <2>1, LessIsFine
<1> QED BY <1>1, <1>2, ThrottleSteps, StartIsBounded, CountIsBounded

\* Whatever Redis fails to tell or to count, the throttle is overrun by no more
\* failures than logins can be under way and were let in uncounted.
THEOREM ThrottleHolds == Spec => []ThrottleOverrunBounded
<1>1. ThrottleInv => ThrottleOverrunBounded
  <2> SUFFICES ASSUME ThrottleInv, NEW k \in Key
               PROVE  counter[k].n <= Bound(k)
    BY DEF ThrottleOverrunBounded, Bound
  <2>1. counter[k].n \in Nat /\ counter[k].unread \in Nat /\ Bounded(k)
    BY CountType DEF ThrottleInv
  <2> QED BY <2>1, BusyFinite, LimitType DEF Bounded, Bound
<1> QED BY <1>1, ThrottleInit, ThrottleStep, PTL DEF Spec

----------------------------------------------------------------------------
(* Reset links.  A link once used is found no more, so the handlers that   *)
(* hold it only get fewer.                                                 *)

Holders(k) == {f \in Form : form[f].link = k}

LinkInv ==
  /\ TypeOK
  /\ \A k \in Link : uses[k] > 0 => /\ link[k].used
                                    /\ uses[k] + Cardinality(Holders(k)) <= Cardinality(Form)

LEMMA HoldersFinite ==
  ASSUME NEW k
  PROVE  /\ IsFiniteSet(Form) /\ IsFiniteSet(Holders(k))
         /\ Cardinality(Form) \in Nat /\ Cardinality(Holders(k)) \in Nat
         /\ Cardinality(Holders(k)) <= Cardinality(Form)
<1>1. IsFiniteSet(Form) /\ Holders(k) \subseteq Form
  BY AccountsAssumption DEF Holders
<1> QED BY <1>1, FS_Subset, FS_CardinalityType

\* What every step does to the links but the one that uses one.
NoLinkUsed ==
  /\ UNCHANGED uses
  /\ \A k \in Link : link[k].used => link'[k].used /\ Holders(k)' \subseteq Holders(k)

LEMMA FormsEmptied ==
  ASSUME TypeOK, UNCHANGED <<uses, link>>, NEW fs \in SUBSET Form,
         form' = [f \in Form |-> IF f \in fs THEN NoForm ELSE form[f]]
  PROVE  NoLinkUsed
BY AccountsAssumption DEF NoLinkUsed, Holders, NoForm, TypeOK

LEMMA FormFilled ==
  ASSUME TypeOK, NEW f \in Form, NEW op, NEW k \in Link \cup {None}, NEW new, Fill(f, op, k, new),
         k \in Link => ~ link[k].used
  PROVE  NoLinkUsed
<1>1. \A g \in Form : form'[g].link = IF g = f THEN k ELSE form[g].link
  BY DEF Fill, TypeOK
<1> QED BY <1>1, AccountsAssumption DEF Fill, NoLinkUsed, Holders

LEMMA FormsUseLinks ==
  ASSUME TypeOK, FormNext
  PROVE  NoLinkUsed \/ \E f \in Form : completePasswordReset(f)
<1> PICK f \in Form :
      \/ \E k \in Link, new \in Password : findLink(f, k, new)
      \/ \E current, new \in Password :
           checkPassword(f, current, new) \/ checkOwnPassword(f, current, new)
      \/ completePasswordReset(f)
      \/ changePassword(f)
      \/ changeOwnPassword(f)
      \/ formFails(f)
  BY DEF FormNext
<1>1. CASE \E k \in Link, new \in Password : findLink(f, k, new)
  BY <1>1, FormFilled DEF findLink
<1>2. CASE \E current, new \in Password :
             checkPassword(f, current, new) \/ checkOwnPassword(f, current, new)
  <2>1. None \notin Link
    BY AccountsAssumption
  <2> QED BY <1>2, <2>1, FormFilled DEF checkPassword, checkOwnPassword
<1>3. CASE changePassword(f) \/ changeOwnPassword(f) \/ formFails(f)
  <2>1. form' = [form EXCEPT ![f] = NoForm] /\ UNCHANGED <<uses, link>>
    BY <1>3 DEF changePassword, changeOwnPassword, formFails
  <2>2. form' = [g \in Form |-> IF g \in {f} THEN NoForm ELSE form[g]]
    BY <2>1 DEF TypeOK
  <2> QED BY <2>1, <2>2, FormsEmptied
<1> QED BY <1>1, <1>2, <1>3

LEMMA LinkSteps ==
  ASSUME TypeOK, [Next]_vars
  PROVE  NoLinkUsed \/ \E f \in Form : completePasswordReset(f)
<1>1. CASE LoginNext \/ tick \/ UNCHANGED vars
  <2>1. UNCHANGED <<form, link, uses>>
    BY <1>1 DEF LoginNext, vars, tick, startLogin, findUser, storeFailure, storeSuccess,
                loginThrows, onFailure, onSuccess, throttleFails, EndLogin
  <2> QED BY <2>1 DEF NoLinkUsed, Holders
<1>2. CASE AdminNext
  <2>1. UNCHANGED <<form, uses>>
    BY <1>2 DEF AdminNext, createUser, initiatePasswordReset, resetPassword,
                adminResetToTemporary, AdminSets, resetAdmin, adminUnlockUserLogin,
                unlockLogin
  <2>2. UNCHANGED link \/ \E k \in Link : link' = [link EXCEPT ![k].expires = now + LinkTime]
    BY <1>2 DEF AdminNext, createUser, initiatePasswordReset, resetPassword,
                adminResetToTemporary, AdminSets, resetAdmin, adminUnlockUserLogin,
                unlockLogin
  <2>3. \A k \in Link : link[k].used => link'[k].used
    BY <2>2 DEF TypeOK, LinkRow
  <2> QED BY <2>1, <2>3 DEF NoLinkUsed, Holders
<1>3. CASE crash
  BY <1>3, FormsEmptied DEF crash
<1> QED BY <1>1, <1>2, <1>3, FormsUseLinks DEF Next

LEMMA LinkInit == Init => LinkInv
<1> SUFFICES ASSUME Init PROVE LinkInv
  OBVIOUS
<1>1. \A k \in Link : ~ (uses[k] > 0)
  BY DEF Init
<1> QED BY <1>1, TypeInit DEF LinkInv

LEMMA LinkStep == LinkInv /\ [Next]_vars => LinkInv'
<1> SUFFICES ASSUME LinkInv, [Next]_vars, NEW k \in Link, uses'[k] > 0
             PROVE  link'[k].used /\ uses'[k] + Cardinality(Holders(k)') <= Cardinality(Form)
  BY TypeStep DEF LinkInv
<1>1. TypeOK /\ TypeOK' /\ uses[k] \in Nat
  BY TypeStep DEF LinkInv, TypeOK
<1>2. CASE NoLinkUsed
  <2>1. uses[k] > 0 /\ uses'[k] = uses[k]
    BY <1>2 DEF NoLinkUsed
  <2>2. link[k].used /\ uses[k] + Cardinality(Holders(k)) <= Cardinality(Form)
    BY <2>1 DEF LinkInv
  <2>3. link'[k].used /\ Holders(k)' \subseteq Holders(k)
    BY <1>2, <2>2 DEF NoLinkUsed
  <2>4. Cardinality(Holders(k)') <= Cardinality(Holders(k)) /\ Cardinality(Holders(k)') \in Nat
    BY <2>3, HoldersFinite, FS_Subset, FS_CardinalityType
  <2> QED BY <1>1, <2>1, <2>2, <2>3, <2>4, HoldersFinite
<1>3. ASSUME NEW f \in Form, completePasswordReset(f)
      PROVE  link'[k].used /\ uses'[k] + Cardinality(Holders(k)') <= Cardinality(Form)
  <2>1. \A g \in Form : form'[g].link = IF g = f THEN None ELSE form[g].link
    BY <1>1, <1>3 DEF completePasswordReset, NoForm, TypeOK
  <2>2. Holders(k)' = Holders(k) \ {f}
    BY <2>1, AccountsAssumption DEF Holders
  <2>3. CASE form[f].link = k
    <3>1. uses'[k] = uses[k] + 1 /\ link'[k].used
      BY <1>1, <1>3, <2>3 DEF completePasswordReset, TypeOK, LinkRow
    <3>2. Cardinality(Holders(k)') = Cardinality(Holders(k)) - 1
      <4>1. f \in Holders(k)
        BY <2>3 DEF Holders
      <4> QED BY <2>2, <4>1, HoldersFinite, FS_RemoveElement
    <3>3. CASE uses[k] = 0
      BY <3>1, <3>2, <3>3, HoldersFinite
    <3>4. CASE uses[k] > 0
      <4>1. uses[k] + Cardinality(Holders(k)) <= Cardinality(Form)
        BY <3>4 DEF LinkInv
      <4> QED BY <1>1, <3>1, <3>2, <4>1, HoldersFinite
    <3> QED BY <1>1, <3>3, <3>4
  <2>4. CASE form[f].link # k
    <3>1. uses'[k] = uses[k] /\ link'[k] = link[k]
      BY <1>1, <1>3, <2>4 DEF completePasswordReset, TypeOK
    <3>2. Holders(k)' = Holders(k)
      BY <2>2, <2>4 DEF Holders
    <3>3. link[k].used /\ uses[k] + Cardinality(Holders(k)) <= Cardinality(Form)
      BY <3>1 DEF LinkInv
    <3> QED BY <3>1, <3>2, <3>3
  <2> QED BY <2>3, <2>4
<1> QED BY <1>1, <1>2, <1>3, LinkSteps

\* A link sets the password once, and again only for handlers that already
\* held it.
THEOREM LinksRunOut == Spec => []LinkUsesBounded
<1>1. LinkInv => LinkUsesBounded
  <2>1. \A k \in Link : Holders(k) = {f \in Form : form[f].link = k}
    BY DEF Holders
  <2> QED BY <2>1 DEF LinkInv, LinkUsesBounded
<1> QED BY <1>1, LinkInit, LinkStep, PTL DEF Spec

----------------------------------------------------------------------------
(* Passwords *)

\* A login that found the password right, and is not overtaken, holds the
\* password of the account, and there is such an account.
PasswordInv ==
  /\ TypeOK
  /\ \A l \in Login :
       attempt[l].pc \in {"right", "accepted"} =>
         /\ account.state # "absent"
         /\ attempt[l].password # None
         /\ ~ attempt[l].overtaken => attempt[l].password = account.password
  /\ \A l \in Login : attempt[l].pc = "started" => attempt[l].password # None

\* What a step does to the account as logins see it.
PasswordKept ==
  /\ account.state # "absent" => account'.state # "absent"
  /\ account.state # "absent" => account'.password = account.password

\* What a step does to a login: it stays, ends, starts, compares or goes on.
LoginGoesOn(l) ==
  \/ attempt'[l] = attempt[l]
  \/ attempt'[l].pc \in {"idle", "wrong", "refused"}
  \/ attempt'[l].pc = "started" /\ attempt'[l].password # None
  \/ /\ attempt[l].pc = "started"
     /\ account.state = "active"
     /\ attempt'[l].password = attempt[l].password
     /\ attempt'[l].password = account.password
  \/ /\ attempt[l].pc = "right"
     /\ attempt'[l].password = attempt[l].password
     /\ attempt'[l].overtaken = attempt[l].overtaken

PasswordSteps ==
  \/ PasswordKept /\ \A l \in Login : LoginGoesOn(l)
  \/ Overtake /\ (account.state # "absent" => account'.state # "absent")

LEMMA LoginPasswords ==
  ASSUME TypeOK, LoginNext
  PROVE  PasswordSteps
<1> PICK l \in Login :
      \/ \E ip \in Ip, p \in Password : startLogin(l, ip, p)
      \/ findUser(l)
      \/ storeFailure(l)
      \/ storeSuccess(l)
      \/ loginThrows(l)
      \/ onFailure(l)
      \/ onSuccess(l)
      \/ throttleFails(l)
  BY DEF LoginNext
<1>0. PasswordKept
  BY AccountRow
  DEF PasswordKept, startLogin, findUser, storeFailure, storeSuccess, loginThrows, onFailure,
      onSuccess, throttleFails, EndLogin, ResetCount, Account
<1>1. Refused(l).pc = "refused" /\ NoAttempt.pc = "idle"
  BY DEF Refused, NoAttempt
<1>2. CASE \E ip \in Ip, p \in Password : startLogin(l, ip, p)
  <2> PICK ip \in Ip, p \in Password : startLogin(l, ip, p)
    BY <1>2
  <2>0. attempt' = [attempt EXCEPT ![l] = [NoAttempt EXCEPT !.pc = "started", !.ip = ip,
                                             !.password = p, !.at = now]]
    BY DEF startLogin, Begin
  <2>1. attempt'[l].pc = "started" /\ attempt'[l].password = p
    BY <2>0 DEF NoAttempt, TypeOK
  <2>2. \A m \in Login \ {l} : attempt'[m] = attempt[m]
    BY <2>0 DEF TypeOK
  <2> QED BY <1>0, <2>1, <2>2, AccountsAssumption DEF PasswordSteps, LoginGoesOn
<1>3. CASE findUser(l)
  <2>1. \A m \in Login \ {l} : attempt'[m] = attempt[m]
    BY <1>3 DEF findUser, TypeOK
  <2>2. \/ attempt'[l] \in {Refused(l), NoAttempt}
        \/ attempt'[l] = Compared(l) /\ account.state = "active"
    BY <1>3 DEF findUser, TypeOK
  <2>3. \/ Compared(l).pc = "wrong"
        \/ /\ Compared(l).password = attempt[l].password
           /\ attempt[l].password = account.password
    BY AttemptTypes DEF Compared, NoAttempt, Attempt
  <2>4. attempt[l].pc = "started"
    BY <1>3 DEF findUser
  <2>5. LoginGoesOn(l)
    BY <1>1, <2>2, <2>3, <2>4 DEF LoginGoesOn
  <2> QED BY <1>0, <2>1, <2>5 DEF PasswordSteps, LoginGoesOn
<1>4. CASE storeSuccess(l)
  <2>1. \A m \in Login \ {l} : attempt'[m] = attempt[m]
    BY <1>4 DEF storeSuccess, TypeOK
  <2>2. LoginGoesOn(l)
    BY <1>4, AttemptTypes DEF storeSuccess, LoginGoesOn, TypeOK, Attempt
  <2> QED BY <1>0, <2>1, <2>2 DEF PasswordSteps, LoginGoesOn
<1>5. CASE storeFailure(l) \/ loginThrows(l) \/ onFailure(l) \/ onSuccess(l) \/ throttleFails(l)
  <2>1. \E a \in {Refused(l), NoAttempt} : attempt' = [attempt EXCEPT ![l] = a]
    BY <1>5 DEF storeFailure, loginThrows, onFailure, onSuccess, throttleFails, EndLogin
  <2>2. \A m \in Login : attempt'[m] = attempt[m] \/ attempt'[m].pc \in {"idle", "refused"}
    BY <1>1, <2>1 DEF TypeOK
  <2> QED BY <1>0, <2>2 DEF PasswordSteps, LoginGoesOn
<1> QED BY <1>2, <1>3, <1>4, <1>5

LEMMA PasswordsStand ==
  ASSUME PasswordKept, UNCHANGED attempt
  PROVE  PasswordSteps
BY DEF PasswordSteps, LoginGoesOn

LEMMA FormPasswords ==
  ASSUME TypeOK, FormNext
  PROVE  PasswordSteps
<1> PICK f \in Form :
      \/ \E op, k, new : Fill(f, op, k, new)
      \/ completePasswordReset(f)
      \/ changePassword(f)
      \/ changeOwnPassword(f)
      \/ formFails(f)
  BY DEF FormNext, findLink, checkPassword, checkOwnPassword
<1>1. CASE (\E op, k, new : Fill(f, op, k, new)) \/ formFails(f)
  <2>1. UNCHANGED <<attempt, account>>
    BY <1>1 DEF Fill, formFails
  <2> QED BY <2>1, PasswordsStand DEF PasswordKept
<1>2. CASE completePasswordReset(f) \/ changePassword(f) \/ changeOwnPassword(f)
  <2>1. Overtake
    BY <1>2 DEF completePasswordReset, changePassword, changeOwnPassword
  <2>2. account'.state = account.state
    BY <1>2, AccountRow DEF completePasswordReset, changePassword, changeOwnPassword, ResetCount,
                            WithPassword, Account
  <2> QED BY <2>1, <2>2 DEF PasswordSteps
<1> QED BY <1>1, <1>2

LEMMA AdminPasswords ==
  ASSUME TypeOK, AdminNext
  PROVE  PasswordSteps
<1>1. CASE \E p \in Password, must \in BOOLEAN : AdminSets(p, must)
  <2>1. Overtake /\ account'.state = account.state
    BY <1>1, AccountRow DEF AdminSets, WithPassword, Account
  <2> QED BY <2>1 DEF PasswordSteps
<1>2. CASE \E p \in Password, must, active \in BOOLEAN : createUser(p, must, active)
  <2>1. account.state = "absent" /\ UNCHANGED attempt
    BY <1>2 DEF createUser
  <2> QED BY <2>1, PasswordsStand DEF PasswordKept
<1>3. CASE (\E k \in Link : initiatePasswordReset(k)) \/ adminUnlockUserLogin \/ unlockLogin
  <2>1. UNCHANGED attempt /\ account'.state = account.state /\ account'.password = account.password
    BY <1>3, AccountRow DEF initiatePasswordReset, adminUnlockUserLogin, unlockLogin, ResetCount,
                            Account
  <2> QED BY <2>1, PasswordsStand DEF PasswordKept
<1>4. CASE \E p \in Password : resetAdmin(p)
  BY <1>4, AccountRow DEF resetAdmin, Account, PasswordSteps
<1> QED BY <1>1, <1>2, <1>3, <1>4 DEF AdminNext, resetPassword, adminResetToTemporary

LEMMA PasswordStep == PasswordInv /\ [Next]_vars => PasswordInv'
<1> SUFFICES ASSUME PasswordInv, [Next]_vars PROVE PasswordInv'
  OBVIOUS
<1>1. TypeOK /\ TypeOK'
  BY TypeStep DEF PasswordInv
<1>2. PasswordSteps
  <2>1. CASE crash
    <3>1. \A l \in Login : attempt'[l].pc = "idle"
      BY <2>1 DEF crash, NoAttempt
    <3>2. UNCHANGED account
      BY <2>1 DEF crash
    <3> QED BY <3>1, <3>2 DEF PasswordSteps, PasswordKept, LoginGoesOn
  <2>2. CASE tick \/ UNCHANGED vars
    <3>1. UNCHANGED <<attempt, account>>
      BY <2>2 DEF tick, vars
    <3> QED BY <3>1, PasswordsStand DEF PasswordKept
  <2> QED BY <1>1, <2>1, <2>2, LoginPasswords, FormPasswords, AdminPasswords DEF Next
<1>3. CASE PasswordKept /\ \A l \in Login : LoginGoesOn(l)
  <2> SUFFICES ASSUME NEW l \in Login
               PROVE  /\ attempt'[l].pc \in {"right", "accepted"} =>
                           /\ account'.state # "absent"
                           /\ attempt'[l].password # None
                           /\ ~ attempt'[l].overtaken => attempt'[l].password = account'.password
                      /\ attempt'[l].pc = "started" => attempt'[l].password # None
    BY <1>1 DEF PasswordInv
  <2> QED BY <1>3 DEF PasswordKept, LoginGoesOn, PasswordInv
<1>4. CASE Overtake /\ (account.state # "absent" => account'.state # "absent")
  BY <1>1, <1>4, OvertakeType DEF PasswordInv
<1> QED BY <1>2, <1>3, <1>4 DEF PasswordSteps

\* A login that began after the password was set needs that password.
THEOREM OldPasswordsFail == Spec => []OldPasswordIsRefused
<1>1. Init => PasswordInv
  <2> SUFFICES ASSUME Init PROVE PasswordInv
    OBVIOUS
  <2>1. \A l \in Login : attempt[l].pc = "idle"
    BY DEF Init, NoAttempt
  <2> QED BY <2>1, TypeInit DEF PasswordInv
<1>2. PasswordInv => OldPasswordIsRefused
  BY DEF PasswordInv, OldPasswordIsRefused
<1> QED BY <1>1, <1>2, PasswordStep, PTL DEF Spec

=============================================================================
