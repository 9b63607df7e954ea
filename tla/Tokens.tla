------------------------------- MODULE Tokens -------------------------------
(***************************************************************************)
(* Who may do what: the permissions a login puts into a token (login in    *)
(* src/src/auth/auth.service.ts), the guards that ask for them on every    *)
(* request (src/src/auth/jwt.strategy.ts and permissions.guard.ts), and    *)
(* below them the cache of module AuthzCache, which the guard asks when    *)
(* the token carries no permission.                                        *)
(*                                                                         *)
(* A token is not stored anywhere and cannot be called back: it stands for *)
(* what its login read until it expires, whatever replacements do.         *)
(***************************************************************************)
EXTENDS AuthzCache

CONSTANTS
  Client,    \* those who log in, one at a time each
  TokenLife  \* JWT_EXPIRES_SECONDS

ASSUME TokensAssumption == TokenLife \in Nat \ {0}

VARIABLE session  \* the login in progress, or the token, of a client

tokenVars == <<vars, session>>

\* "since" is when the query of the login began; "signed", when it ended: it
\* is the token's time of issue, and the token expires TokenLife later.
Session == [pc : {"out", "asked", "rolesRead", "answered", "in"}, user : User \cup {None},
            roles : SUBSET Role, perms : SUBSET Perm, since : Nat, signed : Nat]

NoSession == [pc |-> "out", user |-> None, roles |-> {}, perms |-> {}, since |-> 0,
              signed |-> 0]

TokensInit == Init /\ session = [c \in Client |-> NoSession]

----------------------------------------------------------------------------
(* Login, as far as permissions go: one query for the user with its roles  *)
(* and theirs, one SELECT per table.  Module Accounts has the rest.        *)

\* A client that has a token may log in again.
login(c, u) ==
  /\ session[c].pc \in {"out", "in"}
  /\ session' = [session EXCEPT ![c] = [NoSession EXCEPT !.pc = "asked", !.user = u,
                                                         !.since = now]]
  /\ UNCHANGED vars

loginReadsRoles(c) ==
  /\ session[c].pc = "asked"
  /\ session' = [session EXCEPT ![c].pc = "rolesRead", ![c].roles = roles[session[c].user]]
  /\ UNCHANGED vars

extractPermissions(c) ==
  /\ session[c].pc = "rolesRead"
  /\ session' = [session EXCEPT ![c].pc = "answered", ![c].roles = {},
                                ![c].perms = UNION {perms[r] : r \in session[c].roles}]
  /\ UNCHANGED vars

signToken(c) ==
  /\ session[c].pc = "answered"
  /\ session' = [session EXCEPT ![c].pc = "in", ![c].signed = now]
  /\ UNCHANGED vars

\* The login fails, or the client forgets its token.
logout(c) ==
  /\ session[c].pc # "out"
  /\ session' = [session EXCEPT ![c] = NoSession]
  /\ UNCHANGED vars

\* The logins in progress die with the process; tokens do not.
restartTokens ==
  /\ restart
  /\ session' = [c \in Client |-> IF session[c].pc = "in" THEN session[c] ELSE NoSession]

----------------------------------------------------------------------------
(* The guards *)

\* Fault: expiry is not looked at (ignoreExpiration: true).
validateForever(c) == session[c].pc = "in"

\* What passport checks before JwtStrategy.validate; the user is not read.
validate(c) == session[c].pc = "in" /\ now < session[c].signed + TokenLife

\* A token without permissions makes the guard call list.
AsksCache(c) == session[c].perms = {}

\* What a client may do, where the guard need not wait for it.
have(c) == IF AsksCache(c) THEN cache[session[c].user].perms ELSE session[c].perms

\* canActivate, from the token or from an entry of the cache.
decidesAtOnce(c) == validate(c) /\ (AsksCache(c) => Hit(session[c].user))

\* canActivate, on a miss: the request waits for the query.  The token is not
\* looked at again, and nothing asks how old the answer is.
guardAsks(c, f) ==
  /\ validate(c)
  /\ AsksCache(c)
  /\ ask(f, session[c].user)
  /\ UNCHANGED session

\* Its decision, in the step that stores the answer.
decidesOnAnswer(f) == fill[f].pc = "answered"

----------------------------------------------------------------------------

\* Other callers of list are the endpoints that show a user's permissions.
TokensNext ==
  \/ \E c \in Client, f \in Fill : guardAsks(c, f)
  \/ (FillNext \/ AdminNext \/ ScriptNext \/ tick) /\ UNCHANGED session
  \/ restartTokens
  \/ \E c \in Client :
       \/ \E u \in User : login(c, u)
       \/ loginReadsRoles(c)
       \/ extractPermissions(c)
       \/ signToken(c)
       \/ logout(c)

TokensSpec == TokensInit /\ [][TokensNext]_tokenVars

----------------------------------------------------------------------------
(* Safety *)

\* Every variable has its type, and no token is of the future.
TokensTypeOK ==
  /\ TypeOK
  /\ session \in [Client -> Session]
  /\ \A c \in Client : session[c].since <= now /\ session[c].signed <= now

\* Permissions that are late by less than "late", both ways: each was within
\* that time given by a role that within that time was the user's, and what
\* the user has had for longer is among them.
Timely(u, ps, late) ==
  LET MayMiss(t) == now - t < late
  IN /\ \A p \in ps : \E r \in Role :
          /\ r \in roles[u] \/ MayMiss(rolesAt[u][r])
          /\ p \in perms[r] \/ MayMiss(permsAt[r][p])
     /\ \A r \in roles[u] : \A p \in perms[r] :
          p \in ps \/ MayMiss(rolesAt[u][r]) \/ MayMiss(permsAt[r][p])

\* The cache is TTL behind, a token TokenLife and the time its login took.
LateAtOnce(c) ==
  IF AsksCache(c) THEN TTL ELSE TokenLife + (session[c].signed - session[c].since)

\* An answer waited for misses what has changed since its query was asked.
LateAnswer(f) == now - fill[f].at + 1

\* Every way of the guard is late, and none for ever: a request is decided by
\* what the user's permissions were within TTL, within the life of the token,
\* or, if it waits for a query, since it asked, however long that takes.  So a
\* permission withdrawn from a user who has others works until the token
\* expires, and one given to a user who had none works within TTL.
GuardIsTimely ==
  /\ \A c \in Client : decidesAtOnce(c) =>
       Timely(session[c].user, have(c), LateAtOnce(c))
  /\ \A f \in Fill : decidesOnAnswer(f) =>
       Timely(fill[f].user, fill[f].perms, LateAnswer(f))

=============================================================================
