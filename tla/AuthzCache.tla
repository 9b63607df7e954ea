----------------------------- MODULE AuthzCache -----------------------------
(***************************************************************************)
(* The permissions of users and the cache AuthorizationService keeps of    *)
(* them: list and invalidate (src/src/auth/authorization.service.ts), the  *)
(* replacement of a user's roles and of a role's permissions by            *)
(* RbacService (src/src/rbac/rbac.service.ts), and the other replacement   *)
(* of a user's roles in src/src/users/users.controller.ts, which leaves    *)
(* the cache alone, as do the scripts under src/scripts that grant.        *)
(*                                                                         *)
(* The cache is in the memory of the API process.  A miss is filled by a   *)
(* query that Prisma sends as one SELECT per table, outside a transaction; *)
(* everything else may happen between two of them and before the answer    *)
(* is stored.                                                              *)
(***************************************************************************)
EXTENDS Naturals

CONSTANTS
  None,      \* undefined
  User,      \* users
  Role,      \* roles
  Perm,      \* permission codes
  Fill,      \* calls of list that can be in progress at once
  Admin,     \* replacements that can be in progress at once
  TTL,       \* TTL_MS
  MaxTime    \* bound on the clock

ASSUME AuthzCacheAssumption ==
  /\ None \notin User \cup Role
  /\ TTL \in Nat \ {0}
  /\ MaxTime \in Nat

VARIABLES
  now,       \* the clock of the process
  roles,     \* UserRole: the roles of a user
  perms,     \* RolePermission: the permissions of a role
  cache,     \* the cached answer for a user
  fill,      \* what the calls of list in progress have read
  admin,     \* how far the replacements in progress are
  rolesAt,   \* history: when a user last got or lost a role
  permsAt    \* history: when a role last got or lost a permission

vars == <<now, roles, perms, cache, fill, admin, rolesAt, permsAt>>

\* "overtaken" is history too: the user's permissions have changed since the
\* query began, and the invalidation has gone by or will never come.
Entry == [perms : SUBSET Perm, at : Nat, overtaken : BOOLEAN]

FillState == [pc : {"idle", "asked", "rolesRead", "answered"}, user : User \cup {None},
              at : Nat, roles : SUBSET Role, perms : SUBSET Perm, overtaken : BOOLEAN]

IdleFill == [pc |-> "idle", user |-> None, at |-> 0, roles |-> {}, perms |-> {},
             overtaken |-> FALSE]

\* "old" are the rows a replacement deletes: those its DELETE has seen.
AdminState == [pc : {"idle", "deleted", "committed", "holdersRead", "emptied"},
               user : User \cup {None}, role : Role \cup {None},
               old : SUBSET (Role \cup Perm), new : SUBSET (Role \cup Perm),
               holders : SUBSET User]

IdleAdmin == [pc |-> "idle", user |-> None, role |-> None, old |-> {}, new |-> {},
              holders |-> {}]

PermsOf(u) == UNION {perms[r] : r \in roles[u]}

Holders(r) == {u \in User : r \in roles[u]}

\* The times of change, where membership in a set has changed.
Stamp(at, before, after) ==
  [x \in DOMAIN at |-> IF (x \in before) = (x \in after) THEN at[x] ELSE now]

SetRoles(u, rs) ==
  /\ roles' = [roles EXCEPT ![u] = rs]
  /\ rolesAt' = [rolesAt EXCEPT ![u] = Stamp(@, roles[u], rs)]

SetPerms(r, ps) ==
  /\ perms' = [perms EXCEPT ![r] = ps]
  /\ permsAt' = [permsAt EXCEPT ![r] = Stamp(@, perms[r], ps)]

\* The fills of these users are overtaken.
OvertakenFills(us) ==
  [f \in Fill |-> IF fill[f].user \in us THEN [fill[f] EXCEPT !.overtaken = TRUE] ELSE fill[f]]

\* authz.invalidate of each of them.
Invalidate(us) ==
  /\ cache' = [u \in User |-> IF u \in us THEN None ELSE cache[u]]
  /\ fill' = OvertakenFills(us)

\* A change that is never announced to the cache.
Unannounced(us) ==
  /\ cache' = [u \in User |-> IF u \in us /\ cache[u] # None
                              THEN [cache[u] EXCEPT !.overtaken = TRUE] ELSE cache[u]]
  /\ fill' = OvertakenFills(us)

----------------------------------------------------------------------------

Init ==
  /\ now = 0
  /\ roles \in [User -> SUBSET Role]
  /\ perms \in [Role -> SUBSET Perm]
  /\ cache = [u \in User |-> None]
  /\ fill = [f \in Fill |-> IdleFill]
  /\ admin = [h \in Admin |-> IdleAdmin]
  /\ rolesAt = [u \in User |-> [r \in Role |-> 0]]
  /\ permsAt = [r \in Role |-> [p \in Perm |-> 0]]

\* What list returns without a query.
Hit(u) == cache[u] # None /\ now - cache[u].at < TTL

\* A miss: "now" is taken before the query.
ask(f, u) ==
  /\ fill[f].pc = "idle"
  /\ ~ Hit(u)
  /\ fill' = [fill EXCEPT ![f] = [IdleFill EXCEPT !.pc = "asked", !.user = u, !.at = now]]
  /\ UNCHANGED <<now, roles, perms, cache, admin, rolesAt, permsAt>>

readRoles(f) ==
  /\ fill[f].pc = "asked"
  /\ fill' = [fill EXCEPT ![f].pc = "rolesRead", ![f].roles = roles[fill[f].user]]
  /\ UNCHANGED <<now, roles, perms, cache, admin, rolesAt, permsAt>>

readPermissions(f) ==
  /\ fill[f].pc = "rolesRead"
  /\ fill' = [fill EXCEPT ![f].pc = "answered",
                          ![f].perms = UNION {perms[r] : r \in fill[f].roles}]
  /\ UNCHANGED <<now, roles, perms, cache, admin, rolesAt, permsAt>>

\* Fault: the entry carries the time it expires.
storeExpiry(f) ==
  /\ fill[f].pc = "answered"
  /\ cache' = [cache EXCEPT ![fill[f].user] =
                 [perms |-> fill[f].perms, at |-> fill[f].at + TTL,
                  overtaken |-> fill[f].overtaken]]
  /\ fill' = [fill EXCEPT ![f] = IdleFill]
  /\ UNCHANGED <<now, roles, perms, admin, rolesAt, permsAt>>

\* The last fill to answer wins, whichever asked last.
store(f) ==
  /\ fill[f].pc = "answered"
  /\ cache' = [cache EXCEPT ![fill[f].user] =
                 [perms |-> fill[f].perms, at |-> fill[f].at,
                  overtaken |-> fill[f].overtaken]]
  /\ fill' = [fill EXCEPT ![f] = IdleFill]
  /\ UNCHANGED <<now, roles, perms, admin, rolesAt, permsAt>>

fillFails(f) ==
  /\ fill[f].pc # "idle"
  /\ fill' = [fill EXCEPT ![f] = IdleFill]
  /\ UNCHANGED <<now, roles, perms, cache, admin, rolesAt, permsAt>>

----------------------------------------------------------------------------
(* Replacements.  A transaction's DELETE sees the committed rows of the    *)
(* moment; the rows others insert until it commits stay, and if one of     *)
(* them is to be inserted again the unique constraint refuses it.  Rows    *)
(* another transaction has deleted meanwhile are no longer its to delete,  *)
(* even if equal ones have been inserted.                                  *)

IsUserReplacement(h) == admin[h].user # None

\* h goes on to "pc"; the others lose the rows it deletes.
AfterDelete(h, rows, pc) ==
  [g \in Admin |->
     IF g = h THEN [admin[g] EXCEPT !.pc = pc]
     ELSE IF admin[g].user = admin[h].user /\ admin[g].role = admin[h].role
     THEN [admin[g] EXCEPT !.old = @ \ rows]
     ELSE admin[g]]

setUserRoles(h, u, new) ==
  /\ admin[h].pc = "idle"
  /\ admin' = [admin EXCEPT ![h] = [IdleAdmin EXCEPT !.pc = "deleted", !.user = u,
                                                     !.old = roles[u], !.new = new]]
  /\ UNCHANGED <<now, roles, perms, cache, fill, rolesAt, permsAt>>

setUserRolesCommit(h) ==
  LET u == admin[h].user
      kept == roles[u] \ admin[h].old
  IN /\ admin[h].pc = "deleted"
     /\ IsUserReplacement(h)
     /\ kept \cap admin[h].new = {}
     /\ SetRoles(u, kept \cup admin[h].new)
     /\ admin' = AfterDelete(h, admin[h].old, "committed")
     /\ UNCHANGED <<now, perms, cache, fill, permsAt>>

\* Fault: the cached permissions of the user stay.
invalidateNobody(h) ==
  /\ admin[h].pc = "committed"
  /\ IsUserReplacement(h)
  /\ admin' = [admin EXCEPT ![h] = IdleAdmin]
  /\ UNCHANGED <<now, roles, perms, cache, fill, rolesAt, permsAt>>

invalidateUser(h) ==
  /\ admin[h].pc = "committed"
  /\ IsUserReplacement(h)
  /\ Invalidate({admin[h].user})
  /\ admin' = [admin EXCEPT ![h] = IdleAdmin]
  /\ UNCHANGED <<now, roles, perms, rolesAt, permsAt>>

setRolePermissions(h, r, new) ==
  /\ admin[h].pc = "idle"
  /\ admin' = [admin EXCEPT ![h] = [IdleAdmin EXCEPT !.pc = "deleted", !.role = r,
                                                     !.old = perms[r], !.new = new]]
  /\ UNCHANGED <<now, roles, perms, cache, fill, rolesAt, permsAt>>

setRolePermissionsCommit(h) ==
  LET r == admin[h].role
      kept == perms[r] \ admin[h].old
  IN /\ admin[h].pc = "deleted"
     /\ ~ IsUserReplacement(h)
     /\ kept \cap admin[h].new = {}
     /\ SetPerms(r, kept \cup admin[h].new)
     /\ admin' = AfterDelete(h, admin[h].old, "committed")
     /\ UNCHANGED <<now, roles, cache, fill, rolesAt>>

readHolders(h) ==
  /\ admin[h].pc = "committed"
  /\ ~ IsUserReplacement(h)
  /\ admin' = [admin EXCEPT ![h].pc = "holdersRead", ![h].holders = Holders(admin[h].role)]
  /\ UNCHANGED <<now, roles, perms, cache, fill, rolesAt, permsAt>>

invalidateHolders(h) ==
  /\ admin[h].pc = "holdersRead"
  /\ Invalidate(admin[h].holders)
  /\ admin' = [admin EXCEPT ![h] = IdleAdmin]
  /\ UNCHANGED <<now, roles, perms, rolesAt, permsAt>>

\* setUserRoles of the users controller: the DELETE commits on its own.
emptyUserRoles(h, u, new) ==
  /\ admin[h].pc = "idle"
  /\ SetRoles(u, {})
  /\ Unannounced({u})
  /\ admin' = [g \in Admin |->
                 IF g = h
                 THEN IF new = {} THEN IdleAdmin
                      ELSE [IdleAdmin EXCEPT !.pc = "emptied", !.user = u, !.new = new]
                 ELSE IF admin[g].user = u THEN [admin[g] EXCEPT !.old = {}]
                 ELSE admin[g]]
  /\ UNCHANGED <<now, perms, permsAt>>

createUserRoles(h) ==
  LET u == admin[h].user
  IN /\ admin[h].pc = "emptied"
     /\ roles[u] \cap admin[h].new = {}
     /\ SetRoles(u, roles[u] \cup admin[h].new)
     /\ Unannounced({u})
     /\ admin' = [admin EXCEPT ![h] = IdleAdmin]
     /\ UNCHANGED <<now, perms, permsAt>>

\* Whose permissions a committed replacement has changed.
Affected(h) == IF IsUserReplacement(h) THEN {admin[h].user} ELSE Holders(admin[h].role)

\* A statement fails; a commit may have been done all the same.
replacementFails(h) ==
  /\ admin[h].pc \in {"deleted", "committed", "emptied"}
  /\ IF admin[h].pc = "committed" THEN Unannounced(Affected(h)) ELSE UNCHANGED <<cache, fill>>
  /\ admin' = [admin EXCEPT ![h] = IdleAdmin]
  /\ UNCHANGED <<now, roles, perms, rolesAt, permsAt>>

----------------------------------------------------------------------------
(* The scripts under src/scripts add what is missing and delete nothing.   *)
(* They run beside the API: its cache hears nothing.  An upsert finds the  *)
(* rows that a replacement has deleted and not committed yet.              *)

\* grant-admin-perms grants what it has found in one transaction.
grantPermissions(r, granted) ==
  /\ ~ (granted \subseteq perms[r])
  /\ SetPerms(r, perms[r] \cup granted)
  /\ Unannounced(Holders(r))
  /\ UNCHANGED <<now, roles, admin, rolesAt>>

\* The others commit after each permission.
grantPermission(r, p) == grantPermissions(r, {p})

grantRole(u, r) ==
  /\ r \notin roles[u]
  /\ SetRoles(u, roles[u] \cup {r})
  /\ Unannounced({u})
  /\ UNCHANGED <<now, perms, admin, permsAt>>

----------------------------------------------------------------------------

\* The process dies and is started again with an empty cache.
restart ==
  /\ cache' = [u \in User |-> None]
  /\ fill' = [f \in Fill |-> IdleFill]
  /\ admin' = [h \in Admin |-> IdleAdmin]
  /\ UNCHANGED <<now, roles, perms, rolesAt, permsAt>>

tick ==
  /\ now < MaxTime
  /\ now' = now + 1
  /\ UNCHANGED <<roles, perms, cache, fill, admin, rolesAt, permsAt>>

FillNext ==
  \E f \in Fill :
    \/ \E u \in User : ask(f, u)
    \/ readRoles(f)
    \/ readPermissions(f)
    \/ store(f)
    \/ fillFails(f)

AdminNext ==
  \E h \in Admin :
    \/ \E u \in User, new \in SUBSET Role : setUserRoles(h, u, new)
    \/ setUserRolesCommit(h)
    \/ invalidateUser(h)
    \/ \E r \in Role, new \in SUBSET Perm : setRolePermissions(h, r, new)
    \/ setRolePermissionsCommit(h)
    \/ readHolders(h)
    \/ invalidateHolders(h)
    \/ \E u \in User, new \in SUBSET Role : emptyUserRoles(h, u, new)
    \/ createUserRoles(h)
    \/ replacementFails(h)

ScriptNext ==
  \E r \in Role :
    \/ \E granted \in SUBSET Perm : grantPermissions(r, granted)
    \/ \E p \in Perm : grantPermission(r, p)
    \/ \E u \in User : grantRole(u, r)

Next == FillNext \/ AdminNext \/ ScriptNext \/ restart \/ tick

Spec == Init /\ [][Next]_vars

----------------------------------------------------------------------------
(* Safety *)

\* Every variable has its type, and no answer is dated in the future.
TypeOK ==
  /\ now \in 0 .. MaxTime
  /\ roles \in [User -> SUBSET Role]
  /\ perms \in [Role -> SUBSET Perm]
  /\ cache \in [User -> Entry \cup {None}]
  /\ fill \in [Fill -> FillState]
  /\ admin \in [Admin -> AdminState]
  /\ rolesAt \in [User -> [Role -> Nat]]
  /\ permsAt \in [Role -> [Perm -> Nat]]
  /\ \A u \in User : cache[u] # None => cache[u].at <= now

Recent(t) == now - t < TTL

\* A permission that is withdrawn is served for less than TTL more: what is
\* served was, within the last TTL, given by a role that was the user's within
\* the last TTL.  (Not "at the same moment": the query is not atomic.)
WithdrawnStopsBeingServed ==
  \A u \in User : Hit(u) =>
    \A p \in cache[u].perms : \E r \in Role :
      /\ r \in roles[u] \/ Recent(rolesAt[u][r])
      /\ p \in perms[r] \/ Recent(permsAt[r][p])

\* A permission the user has had for TTL is served, also when nothing has
\* told the cache.
GrantedIsServed ==
  \A u \in User : Hit(u) =>
    \A r \in roles[u] : \A p \in perms[r] :
      p \in cache[u].perms \/ Recent(rolesAt[u][r]) \/ Recent(permsAt[r][p])

\* What list answers without a query is late by less than TTL, both ways.
ServedIsRecent == WithdrawnStopsBeingServed /\ GrantedIsServed

\* A replacement that has committed and has not invalidated this user yet.
Pending(u) ==
  \E h \in Admin :
    \/ admin[h].pc = "committed" /\ u \in Affected(h)
    \/ admin[h].pc = "holdersRead" /\ u \in admin[h].holders

\* Invalidation does its work: apart from changes that are not announced and
\* answers that a change has overtaken, a cached answer is the present one.
CacheIsCoherent ==
  \A u \in User :
    cache[u] # None /\ ~ cache[u].overtaken /\ ~ Pending(u) => cache[u].perms = PermsOf(u)

============================================================================
