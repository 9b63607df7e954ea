---------------------------- MODULE AuthzProofs ----------------------------
(***************************************************************************)
(* Proofs about module AuthzCache, for any users, roles, permissions,      *)
(* calls in progress and time to live; and about module Tokens: tokens     *)
(* change nothing for the cache below them, and the guard decides by       *)
(* permissions that are late but not more than the time to live of what it *)
(* decides by.                                                             *)
(***************************************************************************)
EXTENDS Tokens, TLAPS

----------------------------------------------------------------------------
(* Types *)

\* A call of list in progress is for a user and is not dated in the future.
FillDated ==
  \A f \in Fill : fill[f].pc # "idle" => fill[f].user \in User /\ fill[f].at <= now

\* A replacement in progress replaces the roles of a user or the permissions
\* of a role.
AdminOk(a) ==
  \/ /\ a.user \in User
     /\ a.old \subseteq Role
     /\ a.new \subseteq Role
     /\ a.pc # "holdersRead"
  \/ /\ a.user = None
     /\ a.role \in Role
     /\ a.old \subseteq Perm
     /\ a.new \subseteq Perm
     /\ a.pc # "emptied"

AdminShape == \A h \in Admin : admin[h].pc # "idle" => AdminOk(admin[h])

TypeInv == TypeOK /\ FillDated /\ AdminShape

\* Neither placeholder is the name of something.
LEMMA NoneIsNobody == None \notin User /\ None \notin Role
BY AuthzCacheAssumption

\* The times of change stay times, for roles and for permissions alike.
LEMMA StampType ==
  ASSUME TypeOK, NEW S, NEW at \in [S -> Nat], NEW before, NEW after
  PROVE  Stamp(at, before, after) \in [S -> Nat]
BY DEF Stamp, TypeOK

\* Marking fills as overtaken changes nothing else in them.
LEMMA OvertakenFillsKeep ==
  ASSUME TypeInv, NEW us, NEW f \in Fill
  PROVE  /\ OvertakenFills(us) \in [Fill -> FillState]
         /\ OvertakenFills(us)[f].pc = fill[f].pc
         /\ OvertakenFills(us)[f].user = fill[f].user
         /\ OvertakenFills(us)[f].at = fill[f].at
         /\ OvertakenFills(us)[f].roles = fill[f].roles
         /\ OvertakenFills(us)[f].perms = fill[f].perms
         /\ fill[f].user \in us => OvertakenFills(us)[f].overtaken
         /\ fill[f].user \notin us => OvertakenFills(us)[f] = fill[f]
<1>1. \A g \in Fill : fill[g] \in FillState
  BY DEF TypeInv, TypeOK
<1>2. \A g \in Fill : [fill[g] EXCEPT !.overtaken = TRUE] \in FillState
  BY <1>1 DEF FillState
<1>3. OvertakenFills(us) \in [Fill -> FillState]
  BY <1>1, <1>2 DEF OvertakenFills
<1>4. CASE fill[f].user \in us
  <2>1. OvertakenFills(us)[f] = [fill[f] EXCEPT !.overtaken = TRUE]
    BY <1>4 DEF OvertakenFills
  <2> QED BY <1>1, <1>3, <1>4, <2>1 DEF FillState
<1>5. CASE fill[f].user \notin us
  <2>1. OvertakenFills(us)[f] = fill[f]
    BY <1>5 DEF OvertakenFills
  <2> QED BY <1>3, <1>5, <2>1
<1> QED BY <1>4, <1>5

\* Invalidating and leaving unannounced keep the types of cache and fills.
LEMMA CacheTypeKept ==
  ASSUME TypeInv, NEW us, now' = now, Invalidate(us) \/ Unannounced(us)
  PROVE  /\ cache' \in [User -> Entry \cup {None}]
         /\ fill' \in [Fill -> FillState]
         /\ FillDated'
         /\ \A u \in User : cache'[u] # None => cache'[u].at <= now
<1>1. fill' = OvertakenFills(us)
  BY DEF Invalidate, Unannounced
<1>2. FillDated'
  BY <1>1, OvertakenFillsKeep DEF FillDated, TypeInv
<1>3. fill' \in [Fill -> FillState]
  <2>1. \A f \in Fill : [fill[f] EXCEPT !.overtaken = TRUE] \in FillState
    BY DEF TypeInv, TypeOK, FillState
  <2>2. \A f \in Fill : fill[f] \in FillState
    BY DEF TypeInv, TypeOK
  <2> QED BY <1>1, <2>1, <2>2 DEF OvertakenFills
<1>4. /\ cache' \in [User -> Entry \cup {None}]
      /\ \A u \in User : cache'[u] # None => cache'[u].at <= now
  <2>1. CASE Invalidate(us)
    BY <2>1 DEF Invalidate, TypeInv, TypeOK
  <2>2. CASE Unannounced(us)
    BY <2>2 DEF Unannounced, TypeInv, TypeOK, Entry
  <2> QED BY <2>1, <2>2
<1> QED BY <1>2, <1>3, <1>4

LEMMA TypeInit == Init => TypeInv
<1> SUFFICES ASSUME Init PROVE TypeInv
  OBVIOUS
<1>1. TypeOK
  BY AuthzCacheAssumption
  DEF Init, TypeOK, IdleFill, FillState, IdleAdmin, AdminState
<1>2. FillDated /\ AdminShape
  BY DEF Init, FillDated, AdminShape, IdleFill, IdleAdmin
<1> QED BY <1>1, <1>2 DEF TypeInv

\* Only the call f moves, to a state of the right type.
LEMMA FillMoves ==
  ASSUME TypeInv, NEW f \in Fill, NEW s \in FillState,
         fill' = [fill EXCEPT ![f] = s],
         s.pc # "idle" => s.user \in User /\ s.at <= now,
         UNCHANGED <<now, roles, perms, cache, admin, rolesAt, permsAt>>
  PROVE  TypeInv'
<1>1. fill' \in [Fill -> FillState]
  BY DEF TypeInv, TypeOK
<1>2. FillDated'
  BY DEF FillDated, TypeInv, TypeOK
<1> QED BY <1>1, <1>2 DEF TypeInv, TypeOK, AdminShape

\* The steps of a call of list.
LEMMA FillType ==
  ASSUME TypeInv, FillNext
  PROVE  TypeInv'
<1> PICK f \in Fill : \/ \E u \in User : ask(f, u)
                      \/ readRoles(f)
                      \/ readPermissions(f)
                      \/ store(f)
                      \/ fillFails(f)
  BY DEF FillNext
<1>0. fill[f] \in FillState /\ now \in Nat /\ fill \in [Fill -> FillState]
  BY AuthzCacheAssumption DEF TypeInv, TypeOK
<1>a. fill[f].pc # "idle" => fill[f].user \in User /\ fill[f].at <= now
  BY DEF TypeInv, FillDated
<1>b. IdleFill \in FillState /\ IdleFill.pc = "idle"
  BY DEF IdleFill, FillState
<1>1. CASE \E u \in User : ask(f, u)
  <2> PICK u \in User : ask(f, u)
    BY <1>1
  <2> DEFINE s == [IdleFill EXCEPT !.pc = "asked", !.user = u, !.at = now]
  <2>1. s \in FillState /\ s.user = u /\ s.at = now
    BY <1>0 DEF IdleFill, FillState
  <2>2. fill' = [fill EXCEPT ![f] = s]
    BY DEF ask
  <2>3. now <= now
    BY <1>0
  <2> HIDE DEF s
  <2> QED BY <2>1, <2>2, <2>3, FillMoves DEF ask
<1>2. CASE readRoles(f)
  <2> DEFINE s == [fill[f] EXCEPT !.pc = "rolesRead", !.roles = roles[fill[f].user]]
  <2>1. roles[fill[f].user] \subseteq Role
    BY <1>2, <1>a DEF readRoles, TypeInv, TypeOK
  <2>2. s \in FillState /\ s.user = fill[f].user /\ s.at = fill[f].at
    BY <1>0, <2>1 DEF FillState
  <2>3. fill' = [fill EXCEPT ![f] = s]
    BY <1>2 DEF readRoles
  <2>4. s.user \in User /\ s.at <= now
    BY <1>2, <1>a, <2>2 DEF readRoles
  <2> HIDE DEF s
  <2> QED BY <1>2, <2>2, <2>3, <2>4, FillMoves DEF readRoles
<1>3. CASE readPermissions(f)
  <2> DEFINE ps == UNION {perms[r] : r \in fill[f].roles}
             s == [fill[f] EXCEPT !.pc = "answered", !.perms = ps]
  <2>1. fill[f].roles \subseteq Role
    BY <1>0 DEF FillState
  <2>a. ps \subseteq Perm
    BY <2>1 DEF TypeInv, TypeOK
  <2>3. fill' = [fill EXCEPT ![f] = s]
    BY <1>3 DEF readPermissions
  <2> HIDE DEF ps
  <2>2. s \in FillState /\ s.user = fill[f].user /\ s.at = fill[f].at
    BY <1>0, <2>a DEF FillState
  <2>4. s.user \in User /\ s.at <= now
    BY <1>3, <1>a, <2>2 DEF readPermissions
  <2> HIDE DEF s
  <2> QED BY <1>3, <2>2, <2>3, <2>4, FillMoves DEF readPermissions
<1>4. CASE store(f)
  <2> DEFINE e == [perms |-> fill[f].perms, at |-> fill[f].at,
                   overtaken |-> fill[f].overtaken]
  <2>1. e \in Entry /\ e.at <= now
    BY <1>4, <1>0, <1>a DEF store, Entry, FillState
  <2>2. cache' = [cache EXCEPT ![fill[f].user] = e] /\ fill' = [fill EXCEPT ![f] = IdleFill]
    BY <1>4 DEF store
  <2>3. /\ cache' \in [User -> Entry \cup {None}]
        /\ \A u \in User : cache'[u] # None => cache'[u].at <= now
    <3> HIDE DEF e
    <3> QED BY <2>1, <2>2 DEF TypeInv, TypeOK
  <2>4. fill' \in [Fill -> FillState] /\ FillDated'
    BY <1>4, <1>0, <1>b, <2>2 DEF store, TypeInv, FillDated
  <2> QED BY <1>4, <2>3, <2>4 DEF store, TypeInv, TypeOK, AdminShape
<1>5. CASE fillFails(f)
  BY <1>5, <1>b, FillMoves DEF fillFails
<1> QED BY <1>1, <1>2, <1>3, <1>4, <1>5

\* Only the replacement h moves, to a state of the right type.
LEMMA AdminMoves ==
  ASSUME TypeInv, NEW h \in Admin, NEW s \in AdminState,
         admin' = [admin EXCEPT ![h] = s],
         s.pc # "idle" => AdminOk(s),
         UNCHANGED <<now, roles, perms, cache, fill, rolesAt, permsAt>>
  PROVE  TypeInv'
<1>1. admin' \in [Admin -> AdminState]
  BY DEF TypeInv, TypeOK
<1>2. \A g \in Admin : admin'[g] = IF g = h THEN s ELSE admin[g]
  BY DEF TypeInv, TypeOK
<1>3. AdminShape'
  BY <1>2 DEF AdminShape, AdminOk, TypeInv
<1> QED BY <1>1, <1>3 DEF TypeInv, TypeOK, FillDated

\* A replacement that deletes rows goes on, the others forget those rows.
LEMMA AfterDeleteShape ==
  ASSUME TypeInv, NEW h \in Admin, admin[h].pc = "deleted", NEW rows,
         admin' = AfterDelete(h, rows, "committed")
  PROVE  admin' \in [Admin -> AdminState] /\ AdminShape'
<1>1. ASSUME NEW g \in Admin
      PROVE  /\ admin'[g] \in AdminState
             /\ admin'[g].pc # "idle" => AdminOk(admin'[g])
  <2>1. admin[g] \in AdminState /\ (admin[g].pc # "idle" => AdminOk(admin[g]))
    BY DEF TypeInv, TypeOK, AdminShape
  <2>2. CASE g = h
    <3>1. admin'[g] = [admin[g] EXCEPT !.pc = "committed"]
      BY <2>2 DEF AfterDelete
    <3> QED BY <2>1, <2>2, <3>1 DEF AdminState, AdminOk
  <2>3. CASE g # h /\ admin[g].user = admin[h].user /\ admin[g].role = admin[h].role
    <3>1. admin'[g] = [admin[g] EXCEPT !.old = @ \ rows]
      BY <2>3 DEF AfterDelete
    <3> QED BY <2>1, <3>1 DEF AdminState, AdminOk
  <2>4. CASE g # h /\ ~ (admin[g].user = admin[h].user /\ admin[g].role = admin[h].role)
    BY <2>1, <2>4 DEF AfterDelete
  <2> QED BY <2>2, <2>3, <2>4
<1>2. admin' = [g \in Admin |-> admin'[g]]
  BY DEF AfterDelete
<1> QED BY <1>1, <1>2 DEF AdminShape

\* The idle state has the right type, and a replacement may return to it.
LEMMA AdminIdles ==
  ASSUME TypeInv, NEW h \in Admin, admin' = [admin EXCEPT ![h] = IdleAdmin]
  PROVE  admin' \in [Admin -> AdminState] /\ AdminShape'
<1>1. IdleAdmin \in AdminState /\ IdleAdmin.pc = "idle"
  BY DEF IdleAdmin, AdminState
<1>2. \A g \in Admin : admin'[g] = IF g = h THEN IdleAdmin ELSE admin[g]
  BY DEF TypeInv, TypeOK
<1>3. AdminShape'
  BY <1>1, <1>2 DEF AdminShape, AdminOk, TypeInv
<1> QED BY <1>1, <1>3 DEF TypeInv, TypeOK

\* The steps of a replacement.
LEMMA AdminType ==
  ASSUME TypeInv, AdminNext
  PROVE  TypeInv'
<1> PICK h \in Admin :
      \/ \E u \in User, new \in SUBSET Role : setUserRoles(h, u, new)
      \/ setUserRolesCommit(h)
      \/ invalidateUser(h)
      \/ \E r \in Role, new \in SUBSET Perm : setRolePermissions(h, r, new)
      \/ setRolePermissionsCommit(h)
      \/ readHolders(h)
      \/ invalidateHolders(h)
      \/ \E u \in User, new \in SUBSET Role : emptyUserRoles(h, u, new)
      \/ createUserRoles(h)
      \/ replacementFails(h)
  BY DEF AdminNext
<1> USE NoneIsNobody
<1>1. CASE \E u \in User, new \in SUBSET Role : setUserRoles(h, u, new)
  <2> PICK u \in User, new \in SUBSET Role : setUserRoles(h, u, new)
    BY <1>1
  <2> DEFINE s == [IdleAdmin EXCEPT !.pc = "deleted", !.user = u, !.old = roles[u], !.new = new]
  <2>1. roles[u] \subseteq Role
    BY DEF TypeInv, TypeOK
  <2>2. /\ s \in AdminState
        /\ s.user = u /\ s.old = roles[u] /\ s.new = new /\ s.pc = "deleted"
    BY <2>1 DEF IdleAdmin, AdminState
  <2>3. admin' = [admin EXCEPT ![h] = s]
    BY DEF setUserRoles
  <2> HIDE DEF s
  <2> QED BY <2>1, <2>2, <2>3, AdminMoves DEF setUserRoles, AdminOk
<1>2. CASE setUserRolesCommit(h)
  <2>1. admin[h].user \in User /\ admin[h].new \subseteq Role
    BY <1>2 DEF setUserRolesCommit, IsUserReplacement, TypeInv, AdminShape, AdminOk
  <2>2. roles' \in [User -> SUBSET Role] /\ rolesAt' \in [User -> [Role -> Nat]]
    BY <1>2, <2>1, StampType DEF setUserRolesCommit, SetRoles, TypeInv, TypeOK
  <2>3. admin' \in [Admin -> AdminState] /\ AdminShape'
    BY <1>2, AfterDeleteShape DEF setUserRolesCommit
  <2> QED BY <1>2, <2>2, <2>3 DEF setUserRolesCommit, TypeInv, TypeOK, FillDated
<1>3. CASE invalidateUser(h)
  <2>1. admin' \in [Admin -> AdminState] /\ AdminShape'
    BY <1>3, AdminIdles DEF invalidateUser
  <2> QED BY <1>3, <2>1, CacheTypeKept DEF invalidateUser, TypeInv, TypeOK
<1>4. CASE \E r \in Role, new \in SUBSET Perm : setRolePermissions(h, r, new)
  <2> PICK r \in Role, new \in SUBSET Perm : setRolePermissions(h, r, new)
    BY <1>4
  <2> DEFINE s == [IdleAdmin EXCEPT !.pc = "deleted", !.role = r, !.old = perms[r], !.new = new]
  <2>1. perms[r] \subseteq Perm
    BY DEF TypeInv, TypeOK
  <2>2. /\ s \in AdminState
        /\ s.user = None /\ s.role = r /\ s.old = perms[r] /\ s.new = new /\ s.pc = "deleted"
    BY <2>1 DEF IdleAdmin, AdminState
  <2>3. admin' = [admin EXCEPT ![h] = s]
    BY DEF setRolePermissions
  <2> HIDE DEF s
  <2> QED BY <2>1, <2>2, <2>3, AdminMoves DEF setRolePermissions, AdminOk
<1>5. CASE setRolePermissionsCommit(h)
  <2>1. admin[h].role \in Role /\ admin[h].new \subseteq Perm /\ admin[h].user = None
    BY <1>5 DEF setRolePermissionsCommit, IsUserReplacement, TypeInv, AdminShape, AdminOk
  <2>2. perms' \in [Role -> SUBSET Perm] /\ permsAt' \in [Role -> [Perm -> Nat]]
    BY <1>5, <2>1, StampType DEF setRolePermissionsCommit, SetPerms, TypeInv, TypeOK
  <2>3. admin' \in [Admin -> AdminState] /\ AdminShape'
    BY <1>5, AfterDeleteShape DEF setRolePermissionsCommit
  <2> QED BY <1>5, <2>2, <2>3 DEF setRolePermissionsCommit, TypeInv, TypeOK, FillDated
<1>6. CASE readHolders(h)
  <2> DEFINE s == [admin[h] EXCEPT !.pc = "holdersRead", !.holders = Holders(admin[h].role)]
  <2>1. admin[h] \in AdminState /\ AdminOk(admin[h]) /\ admin[h].user = None
    BY <1>6 DEF readHolders, IsUserReplacement, TypeInv, TypeOK, AdminShape
  <2>2. Holders(admin[h].role) \subseteq User
    BY DEF Holders
  <2>3. s \in AdminState /\ AdminOk(s)
    BY <2>1, <2>2 DEF AdminState, AdminOk
  <2>4. admin' = [admin EXCEPT ![h] = s]
    BY <1>6 DEF readHolders
  <2> HIDE DEF s
  <2> QED BY <1>6, <2>3, <2>4, AdminMoves DEF readHolders
<1>7. CASE invalidateHolders(h)
  <2>1. admin' \in [Admin -> AdminState] /\ AdminShape'
    BY <1>7, AdminIdles DEF invalidateHolders
  <2> QED BY <1>7, <2>1, CacheTypeKept DEF invalidateHolders, TypeInv, TypeOK
<1>8. CASE \E u \in User, new \in SUBSET Role : emptyUserRoles(h, u, new)
  <2> PICK u \in User, new \in SUBSET Role : emptyUserRoles(h, u, new)
    BY <1>8
  <2>1. roles' \in [User -> SUBSET Role] /\ rolesAt' \in [User -> [Role -> Nat]]
    BY StampType DEF emptyUserRoles, SetRoles, TypeInv, TypeOK
  <2>2. admin' \in [Admin -> AdminState] /\ AdminShape'
    <3>1. ASSUME NEW g \in Admin
          PROVE  /\ admin'[g] \in AdminState
                 /\ admin'[g].pc # "idle" => AdminOk(admin'[g])
      <4>1. admin[g] \in AdminState /\ (admin[g].pc # "idle" => AdminOk(admin[g]))
        BY DEF TypeInv, TypeOK, AdminShape
      <4>2. CASE g = h
        BY <4>2 DEF emptyUserRoles, IdleAdmin, AdminState, AdminOk
      <4>3. CASE g # h /\ admin[g].user = u
        <5>1. admin'[g] = [admin[g] EXCEPT !.old = {}]
          BY <4>3 DEF emptyUserRoles
        <5> QED BY <4>1, <5>1 DEF AdminState, AdminOk
      <4>4. CASE g # h /\ admin[g].user # u
        BY <4>1, <4>4 DEF emptyUserRoles
      <4> QED BY <4>2, <4>3, <4>4
    <3>2. admin' = [g \in Admin |-> admin'[g]]
      BY DEF emptyUserRoles
    <3> QED BY <3>1, <3>2 DEF AdminShape
  <2> QED BY <2>1, <2>2, CacheTypeKept DEF emptyUserRoles, TypeInv, TypeOK
<1>9. CASE createUserRoles(h)
  <2>1. admin[h].user \in User /\ admin[h].new \subseteq Role
    BY <1>9 DEF createUserRoles, TypeInv, AdminShape, AdminOk
  <2>2. roles' \in [User -> SUBSET Role] /\ rolesAt' \in [User -> [Role -> Nat]]
    BY <1>9, <2>1, StampType DEF createUserRoles, SetRoles, TypeInv, TypeOK
  <2>3. admin' \in [Admin -> AdminState] /\ AdminShape'
    BY <1>9, AdminIdles DEF createUserRoles
  <2> QED BY <1>9, <2>2, <2>3, CacheTypeKept DEF createUserRoles, TypeInv, TypeOK
<1>10. CASE replacementFails(h)
  <2>1. admin' \in [Admin -> AdminState] /\ AdminShape'
    BY <1>10, AdminIdles DEF replacementFails
  <2>2. CASE admin[h].pc = "committed"
    BY <1>10, <2>1, <2>2, CacheTypeKept DEF replacementFails, TypeInv, TypeOK
  <2>3. CASE admin[h].pc # "committed"
    BY <1>10, <2>1, <2>3 DEF replacementFails, TypeInv, TypeOK, FillDated
  <2> QED BY <2>2, <2>3
<1> QED BY <1>1, <1>2, <1>3, <1>4, <1>5, <1>6, <1>7, <1>8, <1>9, <1>10

\* The steps of a script that grants.
LEMMA ScriptType ==
  ASSUME TypeInv, ScriptNext
  PROVE  TypeInv'
<1> PICK r \in Role :
      \/ \E granted \in SUBSET Perm : grantPermissions(r, granted)
      \/ \E u \in User : grantRole(u, r)
  BY DEF ScriptNext, grantPermission
<1>1. CASE \E granted \in SUBSET Perm : grantPermissions(r, granted)
  <2> PICK granted \in SUBSET Perm : grantPermissions(r, granted)
    BY <1>1
  <2>1. perms' \in [Role -> SUBSET Perm] /\ permsAt' \in [Role -> [Perm -> Nat]]
    <3>1. perms[r] \cup granted \in SUBSET Perm /\ permsAt[r] \in [Perm -> Nat]
      BY DEF TypeInv, TypeOK
    <3>2. Stamp(permsAt[r], perms[r], perms[r] \cup granted) \in [Perm -> Nat]
      BY <3>1, StampType DEF TypeInv
    <3> QED BY <3>1, <3>2 DEF grantPermissions, SetPerms, TypeInv, TypeOK
  <2>2. UNCHANGED <<now, roles, rolesAt, admin>> /\ Unannounced(Holders(r))
    BY DEF grantPermissions
  <2>3. TypeOK'
    BY <2>1, <2>2, CacheTypeKept DEF TypeInv, TypeOK
  <2>4. FillDated' /\ AdminShape'
    BY <2>2, CacheTypeKept DEF TypeInv, AdminShape
  <2> QED BY <2>3, <2>4 DEF TypeInv
<1>2. CASE \E u \in User : grantRole(u, r)
  <2> PICK u \in User : grantRole(u, r)
    BY <1>2
  <2>1. roles' \in [User -> SUBSET Role] /\ rolesAt' \in [User -> [Role -> Nat]]
    <3>1. roles[u] \cup {r} \in SUBSET Role /\ rolesAt[u] \in [Role -> Nat]
      BY DEF TypeInv, TypeOK
    <3>2. Stamp(rolesAt[u], roles[u], roles[u] \cup {r}) \in [Role -> Nat]
      BY <3>1, StampType DEF TypeInv
    <3> QED BY <3>1, <3>2 DEF grantRole, SetRoles, TypeInv, TypeOK
  <2>2. UNCHANGED <<now, perms, permsAt, admin>> /\ Unannounced({u})
    BY DEF grantRole
  <2>3. TypeOK'
    BY <2>1, <2>2, CacheTypeKept DEF TypeInv, TypeOK
  <2>4. FillDated' /\ AdminShape'
    BY <2>2, CacheTypeKept DEF TypeInv, AdminShape
  <2> QED BY <2>3, <2>4 DEF TypeInv
<1> QED BY <1>1, <1>2

LEMMA TypeStep ==
  ASSUME TypeInv, [Next]_vars
  PROVE  TypeInv'
<1>1. CASE restart
  BY <1>1 DEF restart, TypeInv, TypeOK, FillDated, AdminShape, IdleFill, FillState,
              IdleAdmin, AdminState
<1>2. CASE tick
  BY <1>2, AuthzCacheAssumption
  DEF tick, TypeInv, TypeOK, FillDated, AdminShape, FillState, Entry
<1>3. CASE UNCHANGED vars
  BY <1>3 DEF vars, TypeInv, TypeOK, FillDated, AdminShape
<1> QED BY <1>1, <1>2, <1>3, FillType, AdminType, ScriptType DEF Next

\* Every variable keeps its type and no cached answer is dated in the future.
THEOREM AuthzTypeCorrect == Spec => []TypeOK
<1>1. TypeInv /\ [Next]_vars => TypeInv'
  BY TypeStep
<1>2. TypeInv => TypeOK
  BY DEF TypeInv
<1> QED BY <1>1, <1>2, TypeInit, PTL DEF Spec

----------------------------------------------------------------------------
(* How old an answer can be *)

\* Everything in ps was given to u, by one of u's roles, at t or later, and
\* everything given to u without a break since t is in ps.
Within(ps, u, t) ==
  /\ \A p \in ps : \E r \in Role :
       /\ r \in roles[u] \/ rolesAt[u][r] >= t
       /\ p \in perms[r] \/ permsAt[r][p] >= t
  /\ \A r \in roles[u] : \A p \in perms[r] :
       p \in ps \/ rolesAt[u][r] >= t \/ permsAt[r][p] >= t

\* The same of the roles of u alone.
RolesWithin(rs, u, t) == \A r \in Role : (r \in rs) = (r \in roles[u]) \/ rolesAt[u][r] >= t

\* What a call has read is as old as the time it has noted.
FillWithin ==
  \A f \in Fill :
    /\ fill[f].pc \in {"rolesRead", "answered"} =>
         RolesWithin(fill[f].roles, fill[f].user, fill[f].at)
    /\ fill[f].pc = "answered" => Within(fill[f].perms, fill[f].user, fill[f].at)

CacheWithin == \A u \in User : cache[u] # None => Within(cache[u].perms, u, cache[u].at)

AgeInv == TypeInv /\ FillWithin /\ CacheWithin

\* A step stamps what it changes in the roles and permissions with the time.
Stamped ==
  /\ \A u \in User, r \in Role :
       \/ (r \in roles'[u]) = (r \in roles[u]) /\ rolesAt'[u][r] = rolesAt[u][r]
       \/ rolesAt'[u][r] = now
  /\ \A r \in Role, p \in Perm :
       \/ (p \in perms'[r]) = (p \in perms[r]) /\ permsAt'[r][p] = permsAt[r][p]
       \/ permsAt'[r][p] = now

LEMMA SetRolesStamps ==
  ASSUME TypeInv, NEW u \in User, NEW rs, SetRoles(u, rs), UNCHANGED <<perms, permsAt>>
  PROVE  Stamped
BY DEF SetRoles, Stamp, Stamped, TypeInv, TypeOK

LEMMA SetPermsStamps ==
  ASSUME TypeInv, NEW r \in Role, NEW ps, SetPerms(r, ps), UNCHANGED <<roles, rolesAt>>
  PROVE  Stamped
BY DEF SetPerms, Stamp, Stamped, TypeInv, TypeOK

\* What is within t of a user's permissions stays so.
LEMMA WithinKept ==
  ASSUME TypeInv, TypeInv', Stamped, NEW u \in User, NEW t \in Nat, t <= now
  PROVE  /\ \A ps \in SUBSET Perm : Within(ps, u, t) => Within(ps, u, t)'
         /\ \A rs \in SUBSET Role : RolesWithin(rs, u, t) => RolesWithin(rs, u, t)'
<1>1. \A r \in Role : (r \in roles[u] \/ rolesAt[u][r] >= t) =>
                        (r \in roles'[u] \/ rolesAt'[u][r] >= t)
  BY DEF Stamped
<1>2. \A r \in Role, p \in Perm : (p \in perms[r] \/ permsAt[r][p] >= t) =>
                                    (p \in perms'[r] \/ permsAt'[r][p] >= t)
  BY DEF Stamped
<1>3. \A r \in Role : r \in roles'[u] /\ ~ (rolesAt'[u][r] >= t) =>
                        r \in roles[u] /\ ~ (rolesAt[u][r] >= t)
  BY DEF Stamped
<1>4. \A r \in Role, p \in Perm : p \in perms'[r] /\ ~ (permsAt'[r][p] >= t) =>
                                    p \in perms[r] /\ ~ (permsAt[r][p] >= t)
  BY DEF Stamped
<1>5. roles'[u] \subseteq Role /\ \A r \in Role : perms'[r] \subseteq Perm
  BY DEF TypeInv, TypeOK
<1>6. ASSUME NEW ps \in SUBSET Perm, Within(ps, u, t)
      PROVE  Within(ps, u, t)'
  <2>1. \A p \in ps : \E r \in Role :
          /\ r \in roles'[u] \/ rolesAt'[u][r] >= t
          /\ p \in perms'[r] \/ permsAt'[r][p] >= t
    BY <1>1, <1>2, <1>6 DEF Within
  <2>2. \A r \in roles'[u] : \A p \in perms'[r] :
          p \in ps \/ rolesAt'[u][r] >= t \/ permsAt'[r][p] >= t
    BY <1>3, <1>4, <1>5, <1>6 DEF Within
  <2> QED BY <2>1, <2>2 DEF Within
<1>7. ASSUME NEW rs \in SUBSET Role, RolesWithin(rs, u, t)
      PROVE  RolesWithin(rs, u, t)'
  BY <1>7 DEF RolesWithin, Stamped
<1> QED BY <1>6, <1>7

\* A query's answer, computed from roles that are within t, is within t.
LEMMA AnswerWithin ==
  ASSUME TypeInv, NEW u \in User, NEW t, NEW rs \in SUBSET Role, RolesWithin(rs, u, t)
  PROVE  Within(UNION {perms[r] : r \in rs}, u, t)
<1> DEFINE ps == UNION {perms[r] : r \in rs}
<1>1. \A p \in ps : \E r \in Role :
        /\ r \in roles[u] \/ rolesAt[u][r] >= t
        /\ p \in perms[r] \/ permsAt[r][p] >= t
  BY DEF RolesWithin
<1>2. \A r \in roles[u] : \A p \in perms[r] :
        p \in ps \/ rolesAt[u][r] >= t \/ permsAt[r][p] >= t
  BY DEF RolesWithin, TypeInv, TypeOK
<1> QED BY <1>1, <1>2 DEF Within

\* A step that forgets, marks or leaves alone what has been read and cached.
Forgets ==
  /\ \A u \in User : cache'[u] # None =>
       /\ cache[u] # None /\ cache'[u].perms = cache[u].perms /\ cache'[u].at = cache[u].at
       /\ cache[u].overtaken => cache'[u].overtaken
  /\ \A f \in Fill : fill'[f].pc # "idle" =>
       /\ fill[f].overtaken => fill'[f].overtaken
       /\ fill'[f].pc = fill[f].pc
       /\ fill'[f].user = fill[f].user
       /\ fill'[f].at = fill[f].at
       /\ fill'[f].roles = fill[f].roles
       /\ fill'[f].perms = fill[f].perms

LEMMA ForgetsKeeps ==
  ASSUME AgeInv, TypeInv', Stamped, Forgets
  PROVE  AgeInv'
<1>1. CacheWithin'
  <2> SUFFICES ASSUME NEW u \in User, cache'[u] # None
               PROVE  Within(cache[u].perms, u, cache[u].at)'
    BY DEF CacheWithin
  <2>1. cache[u] # None /\ cache'[u].perms = cache[u].perms /\ cache'[u].at = cache[u].at
    BY DEF Forgets
  <2>2. Within(cache[u].perms, u, cache[u].at)
    BY <2>1 DEF AgeInv, CacheWithin
  <2>3. cache[u].perms \in SUBSET Perm /\ cache[u].at \in Nat /\ cache[u].at <= now
    BY <2>1 DEF AgeInv, TypeInv, TypeOK, Entry
  <2>4. \A qs \in SUBSET Perm, x \in Nat :
          x <= now /\ Within(qs, u, x) =>
            /\ \A p \in qs : \E r \in Role :
                 /\ r \in roles'[u] \/ rolesAt'[u][r] >= x
                 /\ p \in perms'[r] \/ permsAt'[r][p] >= x
            /\ \A r \in roles'[u] : \A p \in perms'[r] :
                 p \in qs \/ rolesAt'[u][r] >= x \/ permsAt'[r][p] >= x
    <3> TAKE qs \in SUBSET Perm, x \in Nat
    <3> HAVE x <= now /\ Within(qs, u, x)
    <3>1. Within(qs, u, x)'
      BY WithinKept DEF AgeInv
    <3> QED BY <3>1 DEF Within
  <2>5. /\ \A p \in cache[u].perms : \E r \in Role :
             /\ r \in roles'[u] \/ rolesAt'[u][r] >= cache[u].at
             /\ p \in perms'[r] \/ permsAt'[r][p] >= cache[u].at
        /\ \A r \in roles'[u] : \A p \in perms'[r] :
             \/ p \in cache[u].perms
             \/ rolesAt'[u][r] >= cache[u].at
             \/ permsAt'[r][p] >= cache[u].at
    <3> HIDE DEF Within
    <3> QED BY <2>2, <2>3, <2>4
  <2> QED BY <2>1, <2>5 DEF Within
<1>2. FillWithin'
  <2> SUFFICES ASSUME NEW f \in Fill, fill'[f].pc # "idle"
               PROVE  /\ fill'[f].pc \in {"rolesRead", "answered"} =>
                           RolesWithin(fill[f].roles, fill[f].user, fill[f].at)'
                      /\ fill'[f].pc = "answered" =>
                           Within(fill[f].perms, fill[f].user, fill[f].at)'
    BY DEF FillWithin
  <2>1. /\ fill'[f].pc = fill[f].pc /\ fill'[f].user = fill[f].user
        /\ fill'[f].at = fill[f].at /\ fill'[f].roles = fill[f].roles
        /\ fill'[f].perms = fill[f].perms
    BY DEF Forgets
  <2>2. fill[f].user \in User /\ fill[f].at <= now
    BY <2>1 DEF AgeInv, TypeInv, FillDated
  <2>3. fill[f].perms \in SUBSET Perm /\ fill[f].roles \in SUBSET Role /\ fill[f].at \in Nat
    BY DEF AgeInv, TypeInv, TypeOK, FillState
  <2>4. \A qs \in SUBSET Perm, v \in User, x \in Nat :
          x <= now /\ Within(qs, v, x) =>
            /\ \A p \in qs : \E r \in Role :
                 /\ r \in roles'[v] \/ rolesAt'[v][r] >= x
                 /\ p \in perms'[r] \/ permsAt'[r][p] >= x
            /\ \A r \in roles'[v] : \A p \in perms'[r] :
                 p \in qs \/ rolesAt'[v][r] >= x \/ permsAt'[r][p] >= x
    <3> TAKE qs \in SUBSET Perm, v \in User, x \in Nat
    <3> HAVE x <= now /\ Within(qs, v, x)
    <3>1. Within(qs, v, x)'
      BY WithinKept DEF AgeInv
    <3> QED BY <3>1 DEF Within
  <2>5. \A rs \in SUBSET Role, v \in User, x \in Nat :
          x <= now /\ RolesWithin(rs, v, x) =>
            \A r \in Role : (r \in rs) = (r \in roles'[v]) \/ rolesAt'[v][r] >= x
    <3> TAKE rs \in SUBSET Role, v \in User, x \in Nat
    <3> HAVE x <= now /\ RolesWithin(rs, v, x)
    <3>1. RolesWithin(rs, v, x)'
      BY WithinKept DEF AgeInv
    <3> QED BY <3>1 DEF RolesWithin
  <2>6. /\ fill[f].pc \in {"rolesRead", "answered"} =>
             RolesWithin(fill[f].roles, fill[f].user, fill[f].at)
        /\ fill[f].pc = "answered" => Within(fill[f].perms, fill[f].user, fill[f].at)
    BY DEF AgeInv, FillWithin
  <2>7. fill'[f].pc \in {"rolesRead", "answered"} =>
          RolesWithin(fill[f].roles, fill[f].user, fill[f].at)'
    BY <2>1, <2>2, <2>3, <2>5, <2>6 DEF RolesWithin
  <2>8. fill'[f].pc = "answered" => Within(fill[f].perms, fill[f].user, fill[f].at)'
    <3> HAVE fill'[f].pc = "answered"
    <3> DEFINE qs == fill[f].perms
               v == fill[f].user
               x == fill[f].at
    <3>1. qs \in SUBSET Perm /\ v \in User /\ x \in Nat /\ x <= now /\ Within(qs, v, x)
      BY <2>1, <2>2, <2>3, <2>6
    <3> HIDE DEF qs, v, x
    <3>2. /\ \A p \in qs : \E r \in Role :
               /\ r \in roles'[v] \/ rolesAt'[v][r] >= x
               /\ p \in perms'[r] \/ permsAt'[r][p] >= x
          /\ \A r \in roles'[v] : \A p \in perms'[r] :
               p \in qs \/ rolesAt'[v][r] >= x \/ permsAt'[r][p] >= x
      BY <2>4, <3>1
    <3>3. fill'[f].perms = qs /\ fill'[f].user = v /\ fill'[f].at = x
      BY <2>1 DEF qs, v, x
    <3> QED BY <3>2, <3>3 DEF Within
  <2> QED BY <2>7, <2>8
<1> QED BY <1>1, <1>2 DEF AgeInv

LEMMA AgeInit == Init => AgeInv
<1> SUFFICES ASSUME Init PROVE AgeInv
  OBVIOUS
<1>1. FillWithin /\ CacheWithin
  BY DEF Init, FillWithin, CacheWithin, IdleFill
<1> QED BY <1>1, TypeInit DEF AgeInv

LEMMA AgeFillStep ==
  ASSUME AgeInv, TypeInv', FillNext
  PROVE  AgeInv'
<1>1. PICK f \in Fill : \/ \E u \in User : ask(f, u)
                        \/ readRoles(f)
                        \/ readPermissions(f)
                        \/ store(f)
                        \/ fillFails(f)
  BY DEF FillNext
<1>2. fill \in [Fill -> FillState] /\ cache \in [User -> Entry \cup {None}]
  BY DEF AgeInv, TypeInv, TypeOK
<1>3. Stamped
  BY <1>1 DEF Stamped, ask, readRoles, readPermissions, store, fillFails
<1>4. UNCHANGED <<roles, perms, rolesAt, permsAt>>
  BY <1>1 DEF ask, readRoles, readPermissions, store, fillFails
<1>5. \A g \in Fill \ {f} : fill'[g] = fill[g]
  BY <1>1, <1>2 DEF ask, readRoles, readPermissions, store, fillFails
<1>6. FillWithin'
  <2>1. ASSUME NEW g \in Fill \ {f}
        PROVE  /\ fill'[g].pc \in {"rolesRead", "answered"} =>
                    RolesWithin(fill[g].roles, fill[g].user, fill[g].at)'
               /\ fill'[g].pc = "answered" =>
                    Within(fill[g].perms, fill[g].user, fill[g].at)'
    BY <1>4, <1>5 DEF AgeInv, FillWithin, RolesWithin, Within
  <2>2. /\ fill'[f].pc \in {"rolesRead", "answered"} =>
             RolesWithin(fill[f].roles, fill[f].user, fill[f].at)'
        /\ fill'[f].pc = "answered" =>
             Within(fill[f].perms, fill[f].user, fill[f].at)'
    <3>1. CASE (\E u \in User : ask(f, u)) \/ store(f) \/ fillFails(f)
      <4>1. fill'[f].pc \notin {"rolesRead", "answered"}
        <5>1. CASE \E u \in User : ask(f, u)
          <6> PICK u \in User : ask(f, u)
            BY <5>1
          <6>1. fill'[f] = [IdleFill EXCEPT !.pc = "asked", !.user = u, !.at = now]
            BY <1>2 DEF ask
          <6>2. fill'[f].pc = "asked"
            BY <6>1 DEF IdleFill
          <6> QED BY <6>2
        <5>2. CASE store(f) \/ fillFails(f)
          <6>1. fill'[f] = IdleFill
            BY <1>2, <5>2 DEF store, fillFails
          <6> QED BY <6>1 DEF IdleFill
        <5> QED BY <3>1, <5>1, <5>2
      <4> QED BY <4>1
    <3>2. CASE readRoles(f)
      <4>1. fill'[f] = [fill[f] EXCEPT !.pc = "rolesRead", !.roles = roles[fill[f].user]]
        BY <1>2, <3>2 DEF readRoles
      <4>2. /\ fill'[f].pc = "rolesRead" /\ fill'[f].user = fill[f].user
            /\ fill'[f].roles = roles[fill[f].user]
        BY <1>2, <4>1 DEF FillState
      <4> QED BY <1>4, <4>2 DEF RolesWithin
    <3>3. CASE readPermissions(f)
      <4> DEFINE ps == UNION {perms[r] : r \in fill[f].roles}
      <4>1. fill'[f] = [fill[f] EXCEPT !.pc = "answered", !.perms = ps]
        BY <1>2, <3>3 DEF readPermissions
      <4>2. RolesWithin(fill[f].roles, fill[f].user, fill[f].at)
        BY <3>3 DEF readPermissions, AgeInv, FillWithin
      <4>3. fill[f].user \in User /\ fill[f].roles \in SUBSET Role
        BY <1>2, <3>3 DEF readPermissions, AgeInv, TypeInv, FillDated, FillState
      <4>4. Within(ps, fill[f].user, fill[f].at)
        BY <4>2, <4>3, AnswerWithin DEF AgeInv
      <4> HIDE DEF ps
      <4>5. /\ fill'[f].perms = ps /\ fill'[f].user = fill[f].user
            /\ fill'[f].at = fill[f].at /\ fill'[f].roles = fill[f].roles
        BY <1>2, <4>1 DEF FillState
      <4> QED BY <1>4, <4>2, <4>4, <4>5 DEF RolesWithin, Within
    <3> QED BY <1>1, <3>1, <3>2, <3>3
  <2> QED BY <2>1, <2>2 DEF FillWithin
<1>7. CacheWithin'
  <2>1. CASE store(f)
    <3> SUFFICES ASSUME NEW u \in User, cache'[u] # None
                 PROVE  Within(cache[u].perms, u, cache[u].at)'
      BY DEF CacheWithin
    <3>1. CASE u = fill[f].user
      <4>1. cache'[u].perms = fill[f].perms /\ cache'[u].at = fill[f].at
        BY <1>2, <2>1, <3>1 DEF store
      <4>2. Within(fill[f].perms, u, fill[f].at)
        BY <2>1, <3>1 DEF store, AgeInv, FillWithin
      <4> QED BY <1>4, <4>1, <4>2 DEF Within
    <3>2. CASE u # fill[f].user
      <4>1. cache'[u] = cache[u]
        BY <1>2, <2>1, <3>2 DEF store
      <4> QED BY <1>4, <4>1 DEF AgeInv, CacheWithin, Within
    <3> QED BY <3>1, <3>2
  <2>2. CASE ~ store(f)
    <3>1. cache' = cache
      BY <1>1, <2>2 DEF ask, readRoles, readPermissions, fillFails
    <3> QED BY <1>4, <3>1 DEF AgeInv, CacheWithin, Within
  <2> QED BY <2>1, <2>2
<1> QED BY <1>6, <1>7 DEF AgeInv

\* Invalidating and leaving unannounced only forget and mark.
LEMMA ChangesForget ==
  ASSUME TypeInv,
         \/ \E us : Invalidate(us) \/ Unannounced(us)
         \/ UNCHANGED <<cache, fill>>
  PROVE  Forgets
<1>1. CASE \E us : Invalidate(us) \/ Unannounced(us)
  <2> PICK us : Invalidate(us) \/ Unannounced(us)
    BY <1>1
  <2>1. fill' = OvertakenFills(us)
    BY DEF Invalidate, Unannounced
  <2>2. \A u \in User : cache'[u] # None =>
          /\ cache[u] # None /\ cache'[u].perms = cache[u].perms /\ cache'[u].at = cache[u].at
          /\ cache[u].overtaken => cache'[u].overtaken
    BY DEF Invalidate, Unannounced, TypeInv, TypeOK, Entry
  <2>3. \A f \in Fill : fill[f].overtaken => fill'[f].overtaken
    BY <2>1 DEF OvertakenFills, TypeInv, TypeOK, FillState
  <2> QED BY <2>1, <2>2, <2>3, OvertakenFillsKeep DEF Forgets
<1>2. CASE UNCHANGED <<cache, fill>>
  BY <1>2 DEF Forgets
<1> QED BY <1>1, <1>2

\* A replacement stamps what it changes.
LEMMA AdminStamps ==
  ASSUME TypeInv, AdminNext
  PROVE  Stamped
<1>1. PICK h \in Admin :
        \/ \E u \in User, new \in SUBSET Role : setUserRoles(h, u, new)
        \/ setUserRolesCommit(h)
        \/ invalidateUser(h)
        \/ \E r \in Role, new \in SUBSET Perm : setRolePermissions(h, r, new)
        \/ setRolePermissionsCommit(h)
        \/ readHolders(h)
        \/ invalidateHolders(h)
        \/ \E u \in User, new \in SUBSET Role : emptyUserRoles(h, u, new)
        \/ createUserRoles(h)
        \/ replacementFails(h)
  BY DEF AdminNext
<1>2. TypeInv /\ (admin[h].pc # "idle" => AdminOk(admin[h]))
  BY DEF TypeInv, AdminShape
<1>3. CASE setUserRolesCommit(h)
  <2>1. admin[h].user \in User
    BY <1>2, <1>3, NoneIsNobody DEF setUserRolesCommit, IsUserReplacement, AdminOk
  <2> QED BY <1>2, <1>3, <2>1, SetRolesStamps DEF setUserRolesCommit
<1>4. CASE setRolePermissionsCommit(h)
  <2>1. admin[h].role \in Role
    BY <1>2, <1>4, NoneIsNobody DEF setRolePermissionsCommit, IsUserReplacement, AdminOk
  <2> QED BY <1>2, <1>4, <2>1, SetPermsStamps DEF setRolePermissionsCommit
<1>5. CASE \E u \in User, new \in SUBSET Role : emptyUserRoles(h, u, new)
  BY <1>2, <1>5, SetRolesStamps DEF emptyUserRoles
<1>6. CASE createUserRoles(h)
  <2>1. admin[h].user \in User
    BY <1>2, <1>6, NoneIsNobody DEF createUserRoles, AdminOk
  <2> QED BY <1>2, <1>6, <2>1, SetRolesStamps DEF createUserRoles
<1>7. CASE UNCHANGED <<roles, perms, rolesAt, permsAt>>
  BY <1>7 DEF Stamped
<1> QED BY <1>1, <1>3, <1>4, <1>5, <1>6, <1>7
  DEF setUserRoles, invalidateUser, setRolePermissions, readHolders, invalidateHolders,
      replacementFails

LEMMA AgeAdminStep ==
  ASSUME AgeInv, TypeInv', AdminNext
  PROVE  AgeInv'
<1>1. PICK h \in Admin :
        \/ \E u \in User, new \in SUBSET Role : setUserRoles(h, u, new)
        \/ setUserRolesCommit(h)
        \/ invalidateUser(h)
        \/ \E r \in Role, new \in SUBSET Perm : setRolePermissions(h, r, new)
        \/ setRolePermissionsCommit(h)
        \/ readHolders(h)
        \/ invalidateHolders(h)
        \/ \E u \in User, new \in SUBSET Role : emptyUserRoles(h, u, new)
        \/ createUserRoles(h)
        \/ replacementFails(h)
  BY DEF AdminNext
<1>2. TypeInv /\ (admin[h].pc # "idle" => AdminOk(admin[h]))
  BY DEF AgeInv, TypeInv, AdminShape
<1>3. Forgets
  BY <1>1, <1>2, ChangesForget
  DEF setUserRoles, setUserRolesCommit, invalidateUser, setRolePermissions,
      setRolePermissionsCommit, readHolders, invalidateHolders, emptyUserRoles,
      createUserRoles, replacementFails
<1>4. Stamped
  BY AdminStamps DEF AgeInv
<1> QED BY <1>3, <1>4, ForgetsKeeps

\* A script stamps what it grants, and only marks what has been read.
LEMMA ScriptStamps ==
  ASSUME TypeInv, ScriptNext
  PROVE  Stamped /\ Forgets
<1> PICK r \in Role :
      \/ \E granted \in SUBSET Perm : grantPermissions(r, granted)
      \/ \E u \in User : grantRole(u, r)
  BY DEF ScriptNext, grantPermission
<1>1. Stamped
  BY SetPermsStamps, SetRolesStamps DEF grantPermissions, grantRole
<1>2. Forgets
  BY ChangesForget DEF grantPermissions, grantRole
<1> QED BY <1>1, <1>2

LEMMA AgeStep ==
  ASSUME AgeInv, [Next]_vars
  PROVE  AgeInv'
<1>1. TypeInv'
  BY TypeStep DEF AgeInv
<1>2. CASE restart
  <2>1. Stamped /\ Forgets
    BY <1>2 DEF restart, Stamped, Forgets, IdleFill
  <2> QED BY <1>1, <2>1, ForgetsKeeps
<1>3. CASE tick \/ UNCHANGED vars
  <2>1. Stamped /\ Forgets
    BY <1>3 DEF tick, vars, Stamped, Forgets
  <2> QED BY <1>1, <2>1, ForgetsKeeps
<1>4. CASE ScriptNext
  BY <1>1, <1>4, ScriptStamps, ForgetsKeeps DEF AgeInv
<1> QED BY <1>1, <1>2, <1>3, <1>4, AgeFillStep, AgeAdminStep DEF Next

\* An answer that list gives without a query is younger than TTL.
LEMMA AgeBoundsHits == AgeInv => WithdrawnStopsBeingServed /\ GrantedIsServed
<1> SUFFICES ASSUME AgeInv, NEW u \in User, Hit(u)
             PROVE  /\ \A p \in cache[u].perms : \E r \in Role :
                         /\ r \in roles[u] \/ Recent(rolesAt[u][r])
                         /\ p \in perms[r] \/ Recent(permsAt[r][p])
                    /\ \A r \in roles[u] : \A p \in perms[r] :
                         p \in cache[u].perms \/ Recent(rolesAt[u][r]) \/ Recent(permsAt[r][p])
  BY DEF WithdrawnStopsBeingServed, GrantedIsServed
<1> DEFINE ps == cache[u].perms
           t == cache[u].at
<1>1. cache[u] # None /\ t \in Nat /\ ps \in SUBSET Perm /\ now \in Nat /\ now - t < TTL
  BY AuthzCacheAssumption DEF AgeInv, TypeInv, TypeOK, Hit, Entry
<1>2. Within(ps, u, t)
  BY <1>1 DEF AgeInv, CacheWithin
<1> HIDE DEF ps, t
<1>3. \A x \in Nat : x >= t => Recent(x)
  BY <1>1, AuthzCacheAssumption DEF Recent
<1>4. /\ \A r \in Role : rolesAt[u][r] \in Nat
      /\ \A r \in Role, p \in Perm : permsAt[r][p] \in Nat
      /\ roles[u] \subseteq Role
      /\ \A r \in Role : perms[r] \subseteq Perm
  BY DEF AgeInv, TypeInv, TypeOK
<1>5. \A p \in ps : \E r \in Role :
        /\ r \in roles[u] \/ Recent(rolesAt[u][r])
        /\ p \in perms[r] \/ Recent(permsAt[r][p])
  BY <1>1, <1>2, <1>3, <1>4 DEF Within
<1>6. \A r \in roles[u] : \A p \in perms[r] :
        p \in ps \/ Recent(rolesAt[u][r]) \/ Recent(permsAt[r][p])
  BY <1>2, <1>3, <1>4 DEF Within
<1> QED BY <1>5, <1>6 DEF ps

\* A withdrawn permission is served for less than TTL more, whatever calls and
\* replacements overlap, fail or go unannounced.
THEOREM WithdrawnExpires == Spec => []WithdrawnStopsBeingServed
<1>1. AgeInv /\ [Next]_vars => AgeInv'
  BY AgeStep
<1>2. AgeInv => WithdrawnStopsBeingServed
  BY AgeBoundsHits
<1> QED BY <1>1, <1>2, AgeInit, PTL DEF Spec

\* A permission the user has had for TTL is served.
THEOREM GrantedArrives == Spec => []GrantedIsServed
<1>1. AgeInv /\ [Next]_vars => AgeInv'
  BY AgeStep
<1>2. AgeInv => GrantedIsServed
  BY AgeBoundsHits
<1> QED BY <1>1, <1>2, AgeInit, PTL DEF Spec

\* What is served without a query is late by less than TTL, both ways.
THEOREM ServedRecently == Spec => []ServedIsRecent
<1>1. WithdrawnStopsBeingServed /\ GrantedIsServed => ServedIsRecent
  BY DEF ServedIsRecent
<1> QED BY <1>1, WithdrawnExpires, GrantedArrives, PTL

----------------------------------------------------------------------------
(* What invalidation achieves *)

\* What a call has read is what there is, unless a change has overtaken it or
\* is about to be announced.
FillIsCoherent ==
  \A f \in Fill :
    fill[f].pc \in {"rolesRead", "answered"} /\ ~ fill[f].overtaken /\ ~ Pending(fill[f].user) =>
      /\ fill[f].roles = roles[fill[f].user]
      /\ fill[f].pc = "answered" => fill[f].perms = PermsOf(fill[f].user)

CoherenceInv == TypeInv /\ FillIsCoherent /\ CacheIsCoherent

\* What a step may do to a user: leave the permissions and the announcements
\* that are due, have one due afterwards, or mark everything read so far.
LeavesAlone(u) ==
  /\ roles'[u] = roles[u]
  /\ \A r \in roles[u] : perms'[r] = perms[r]
  /\ Pending(u) => Pending(u)'

Marks(u) ==
  /\ cache'[u] = None \/ cache'[u].overtaken
  /\ \A f \in Fill : fill'[f].pc # "idle" /\ fill'[f].user = u => fill'[f].overtaken

Announces == \A u \in User : LeavesAlone(u) \/ Pending(u)' \/ Marks(u)

LEMMA PermsOfKept ==
  ASSUME NEW u, LeavesAlone(u)
  PROVE  PermsOf(u)' = PermsOf(u)
BY DEF LeavesAlone, PermsOf

LEMMA AnnouncesKeeps ==
  ASSUME CoherenceInv, TypeInv', Forgets, Announces
  PROVE  CoherenceInv'
<1>1. CacheIsCoherent'
  <2> SUFFICES ASSUME NEW u \in User, cache'[u] # None, ~ cache'[u].overtaken, ~ Pending(u)'
               PROVE  cache'[u].perms = PermsOf(u)'
    BY DEF CacheIsCoherent
  <2>1. LeavesAlone(u)
    BY DEF Announces, Marks
  <2>2. cache[u] # None /\ ~ cache[u].overtaken /\ ~ Pending(u)
    BY <2>1 DEF Forgets, LeavesAlone
  <2>3. cache[u].perms = PermsOf(u) /\ cache'[u].perms = cache[u].perms
    BY <2>2 DEF CoherenceInv, CacheIsCoherent, Forgets
  <2> QED BY <2>1, <2>3, PermsOfKept
<1>2. FillIsCoherent'
  <2> SUFFICES ASSUME NEW f \in Fill, fill'[f].pc \in {"rolesRead", "answered"},
                      ~ fill'[f].overtaken, ~ Pending(fill[f].user)'
               PROVE  /\ fill'[f].roles = roles'[fill'[f].user]
                      /\ fill'[f].pc = "answered" => fill'[f].perms = PermsOf(fill[f].user)'
    BY DEF FillIsCoherent
  <2>1. /\ fill'[f].pc = fill[f].pc /\ fill'[f].user = fill[f].user
        /\ fill'[f].roles = fill[f].roles /\ fill'[f].perms = fill[f].perms
        /\ ~ fill[f].overtaken
    BY DEF Forgets
  <2>2. PICK u \in User : u = fill[f].user
    BY <2>1 DEF CoherenceInv, TypeInv, FillDated
  <2>3. u = fill'[f].user
    BY <2>1, <2>2
  <2>4. ~ Pending(u)'
    BY <2>3 DEF Pending
  <2>5. LeavesAlone(u)
    BY <2>3, <2>4 DEF Announces, Marks
  <2>6. ~ Pending(u)
    BY <2>4, <2>5 DEF LeavesAlone
  <2>7. fill[f].roles = roles[u] /\ (fill[f].pc = "answered" => fill[f].perms = PermsOf(u))
    <3>1. ~ Pending(fill[f].user)
      BY <2>2, <2>6 DEF Pending
    <3> QED BY <2>1, <2>2, <3>1 DEF CoherenceInv, FillIsCoherent, PermsOf
  <2>8. PermsOf(u)' = PermsOf(u) /\ roles'[u] = roles[u]
    BY <2>5, PermsOfKept DEF LeavesAlone
  <2>9. PermsOf(fill[f].user)' = PermsOf(u)'
    BY <2>3 DEF PermsOf
  <2>10. fill'[f].roles = roles'[fill'[f].user]
    BY <2>1, <2>3, <2>7, <2>8
  <2>11. fill'[f].pc = "answered" => fill'[f].perms = PermsOf(u)'
    BY <2>1, <2>7, <2>8
  <2> QED BY <2>9, <2>10, <2>11
<1> QED BY <1>1, <1>2 DEF CoherenceInv

\* An announcement stays due while its replacement does not move on.
LEMMA PendingKept ==
  ASSUME TypeInv, NEW u \in User, roles'[u] = roles[u],
         \A g \in Admin :
           \/ /\ admin[g].pc = "committed" /\ u \in Affected(g)
           \/ /\ admin[g].pc = "holdersRead" /\ u \in admin[g].holders
           => /\ admin'[g].pc = admin[g].pc
              /\ admin'[g].user = admin[g].user
              /\ admin'[g].role = admin[g].role
              /\ admin'[g].holders = admin[g].holders
  PROVE  Pending(u) => Pending(u)'
<1> SUFFICES ASSUME Pending(u) PROVE Pending(u)'
  OBVIOUS
<1>1. PICK g \in Admin : \/ admin[g].pc = "committed" /\ u \in Affected(g)
                         \/ admin[g].pc = "holdersRead" /\ u \in admin[g].holders
  BY DEF Pending
<1>2. /\ admin'[g].pc = admin[g].pc
      /\ admin'[g].user = admin[g].user
      /\ admin'[g].role = admin[g].role
      /\ admin'[g].holders = admin[g].holders
  BY <1>1
<1>3. u \in Affected(g) => u \in Affected(g)'
  BY <1>2 DEF Affected, IsUserReplacement, Holders
<1> QED BY <1>1, <1>2, <1>3 DEF Pending

\* Invalidating and leaving unannounced mark what has been read for a user.
LEMMA UnannouncedMarks ==
  ASSUME TypeInv, NEW us, Invalidate(us) \/ Unannounced(us), NEW u \in us \cap User
  PROVE  Marks(u)
<1>1. cache'[u] = None \/ cache'[u].overtaken
  BY DEF Invalidate, Unannounced, Entry, TypeInv, TypeOK
<1>2. fill' = OvertakenFills(us)
  BY DEF Invalidate, Unannounced
<1> QED BY <1>1, <1>2, OvertakenFillsKeep DEF Marks

LEMMA CoherenceAdminStep ==
  ASSUME CoherenceInv, TypeInv', AdminNext
  PROVE  CoherenceInv'
<1>1. PICK h \in Admin :
        \/ \E u \in User, new \in SUBSET Role : setUserRoles(h, u, new)
        \/ setUserRolesCommit(h)
        \/ invalidateUser(h)
        \/ \E r \in Role, new \in SUBSET Perm : setRolePermissions(h, r, new)
        \/ setRolePermissionsCommit(h)
        \/ readHolders(h)
        \/ invalidateHolders(h)
        \/ \E u \in User, new \in SUBSET Role : emptyUserRoles(h, u, new)
        \/ createUserRoles(h)
        \/ replacementFails(h)
  BY DEF AdminNext
<1>2. TypeInv /\ (admin[h].pc # "idle" => AdminOk(admin[h]))
  BY DEF CoherenceInv, TypeInv, AdminShape
<1>3. Forgets
  BY <1>1, <1>2, ChangesForget
  DEF setUserRoles, setUserRolesCommit, invalidateUser, setRolePermissions,
      setRolePermissionsCommit, readHolders, invalidateHolders, emptyUserRoles,
      createUserRoles, replacementFails
<1>4. /\ admin \in [Admin -> AdminState]
      /\ roles \in [User -> SUBSET Role]
      /\ perms \in [Role -> SUBSET Perm]
      /\ cache \in [User -> Entry \cup {None}]
      /\ fill \in [Fill -> FillState]
  BY <1>2 DEF TypeInv, TypeOK
<1>5. \A us : (Invalidate(us) \/ Unannounced(us)) => \A u \in us \cap User : Marks(u)
  BY <1>2, UnannouncedMarks
<1>6. Announces
  <2> SUFFICES ASSUME NEW u \in User
               PROVE  LeavesAlone(u) \/ Pending(u)' \/ Marks(u)
    BY DEF Announces
  <2>1. CASE \E v \in User, new \in SUBSET Role : setUserRoles(h, v, new)
    <3>1. \A g \in Admin : g # h => admin'[g] = admin[g]
      BY <1>4, <2>1 DEF setUserRoles
    <3>2. admin[h].pc = "idle" /\ UNCHANGED <<roles, perms>>
      BY <2>1 DEF setUserRoles
    <3> QED BY <1>2, <3>1, <3>2, PendingKept DEF LeavesAlone
  <2>2. CASE setUserRolesCommit(h)
    <3>1. admin[h].user \in User
      BY <1>2, <2>2, NoneIsNobody DEF setUserRolesCommit, IsUserReplacement, AdminOk
    <3>2. admin' = AfterDelete(h, admin[h].old, "committed") /\ admin[h].pc = "deleted"
      BY <2>2 DEF setUserRolesCommit
    <3>3. CASE u = admin[h].user
      <4>1. admin'[h] = [admin[h] EXCEPT !.pc = "committed"]
        BY <3>2 DEF AfterDelete
      <4>2. admin'[h].pc = "committed" /\ admin'[h].user = u
        BY <1>4, <3>3, <4>1 DEF AdminState
      <4>3. u \in Affected(h)'
        BY <4>2, NoneIsNobody DEF Affected, IsUserReplacement
      <4> QED BY <4>2, <4>3 DEF Pending
    <3>4. CASE u # admin[h].user
      <4>1. roles'[u] = roles[u] /\ perms' = perms
        BY <1>4, <2>2, <3>1, <3>4 DEF setUserRolesCommit, SetRoles
      <4>2. \A g \in Admin : g # h =>
              /\ admin'[g].pc = admin[g].pc /\ admin'[g].user = admin[g].user
              /\ admin'[g].role = admin[g].role /\ admin'[g].holders = admin[g].holders
        BY <1>4, <3>2 DEF AfterDelete, AdminState
      <4> QED BY <1>2, <3>2, <4>1, <4>2, PendingKept DEF LeavesAlone
    <3> QED BY <3>3, <3>4
  <2>3. CASE invalidateUser(h)
    <3>1. CASE u = admin[h].user
      BY <1>5, <2>3, <3>1 DEF invalidateUser
    <3>2. CASE u # admin[h].user
      <4>1. \A g \in Admin : g # h => admin'[g] = admin[g]
        BY <1>4, <2>3 DEF invalidateUser
      <4>2. admin[h].pc = "committed" /\ u \notin Affected(h) /\ UNCHANGED <<roles, perms>>
        BY <2>3, <3>2 DEF invalidateUser, Affected
      <4> QED BY <1>2, <4>1, <4>2, PendingKept DEF LeavesAlone
    <3> QED BY <3>1, <3>2
  <2>4. CASE \E r \in Role, new \in SUBSET Perm : setRolePermissions(h, r, new)
    <3>1. \A g \in Admin : g # h => admin'[g] = admin[g]
      BY <1>4, <2>4 DEF setRolePermissions
    <3>2. admin[h].pc = "idle" /\ UNCHANGED <<roles, perms>>
      BY <2>4 DEF setRolePermissions
    <3> QED BY <1>2, <3>1, <3>2, PendingKept DEF LeavesAlone
  <2>5. CASE setRolePermissionsCommit(h)
    <3>1. admin[h].role \in Role /\ admin[h].user = None
      BY <1>2, <2>5, NoneIsNobody DEF setRolePermissionsCommit, IsUserReplacement, AdminOk
    <3>2. admin' = AfterDelete(h, admin[h].old, "committed") /\ admin[h].pc = "deleted"
      BY <2>5 DEF setRolePermissionsCommit
    <3>3. roles' = roles
      BY <2>5 DEF setRolePermissionsCommit
    <3>4. CASE admin[h].role \in roles[u]
      <4>1. admin'[h] = [admin[h] EXCEPT !.pc = "committed"]
        BY <3>2 DEF AfterDelete
      <4>2. /\ admin'[h].pc = "committed" /\ admin'[h].user = None
            /\ admin'[h].role \in roles'[u]
        BY <1>4, <3>1, <3>3, <3>4, <4>1 DEF AdminState
      <4>3. u \in Affected(h)'
        BY <4>2 DEF Affected, IsUserReplacement, Holders
      <4> QED BY <4>2, <4>3 DEF Pending
    <3>5. CASE admin[h].role \notin roles[u]
      <4>1. \A r \in roles[u] : perms'[r] = perms[r]
        BY <1>4, <2>5, <3>1, <3>5 DEF setRolePermissionsCommit, SetPerms
      <4>2. \A g \in Admin : g # h =>
              /\ admin'[g].pc = admin[g].pc /\ admin'[g].user = admin[g].user
              /\ admin'[g].role = admin[g].role /\ admin'[g].holders = admin[g].holders
        BY <1>4, <3>2 DEF AfterDelete, AdminState
      <4> QED BY <1>2, <3>2, <3>3, <4>1, <4>2, PendingKept DEF LeavesAlone
    <3> QED BY <3>4, <3>5
  <2>6. CASE readHolders(h)
    <3>1. UNCHANGED <<roles, perms>> /\ admin[h].pc = "committed" /\ ~ IsUserReplacement(h)
      BY <2>6 DEF readHolders
    <3>2. admin'[h].pc = "holdersRead" /\ admin'[h].holders = Holders(admin[h].role)
      BY <1>4, <2>6 DEF readHolders, AdminState
    <3>3. CASE u \in Holders(admin[h].role)
      BY <3>2, <3>3 DEF Pending
    <3>4. CASE u \notin Holders(admin[h].role)
      <4>1. u \notin Affected(h)
        BY <3>1, <3>4 DEF Affected
      <4>2. \A g \in Admin : g # h => admin'[g] = admin[g]
        BY <1>4, <2>6 DEF readHolders
      <4> QED BY <1>2, <3>1, <4>1, <4>2, PendingKept DEF LeavesAlone
    <3> QED BY <3>3, <3>4
  <2>7. CASE invalidateHolders(h)
    <3>1. CASE u \in admin[h].holders
      BY <1>5, <2>7, <3>1 DEF invalidateHolders
    <3>2. CASE u \notin admin[h].holders
      <4>1. \A g \in Admin : g # h => admin'[g] = admin[g]
        BY <1>4, <2>7 DEF invalidateHolders
      <4>2. admin[h].pc = "holdersRead" /\ UNCHANGED <<roles, perms>>
        BY <2>7 DEF invalidateHolders
      <4> QED BY <1>2, <3>2, <4>1, <4>2, PendingKept DEF LeavesAlone
    <3> QED BY <3>1, <3>2
  <2>8. CASE \E v \in User, new \in SUBSET Role : emptyUserRoles(h, v, new)
    <3> PICK v \in User, new \in SUBSET Role : emptyUserRoles(h, v, new)
      BY <2>8
    <3>1. CASE u = v
      BY <1>5, <3>1 DEF emptyUserRoles
    <3>2. CASE u # v
      <4>1. roles'[u] = roles[u] /\ perms' = perms /\ admin[h].pc = "idle"
        BY <1>4, <3>2 DEF emptyUserRoles, SetRoles
      <4>2. \A g \in Admin : g # h =>
              /\ admin'[g].pc = admin[g].pc /\ admin'[g].user = admin[g].user
              /\ admin'[g].role = admin[g].role /\ admin'[g].holders = admin[g].holders
        BY <1>4 DEF emptyUserRoles, AdminState
      <4> QED BY <1>2, <4>1, <4>2, PendingKept DEF LeavesAlone
    <3> QED BY <3>1, <3>2
  <2>9. CASE createUserRoles(h)
    <3>1. admin[h].user \in User
      BY <1>2, <2>9, NoneIsNobody DEF createUserRoles, AdminOk
    <3>2. CASE u = admin[h].user
      BY <1>5, <2>9, <3>2 DEF createUserRoles
    <3>3. CASE u # admin[h].user
      <4>1. roles'[u] = roles[u] /\ perms' = perms /\ admin[h].pc = "emptied"
        BY <1>4, <2>9, <3>1, <3>3 DEF createUserRoles, SetRoles
      <4>2. \A g \in Admin : g # h => admin'[g] = admin[g]
        BY <1>4, <2>9 DEF createUserRoles
      <4> QED BY <1>2, <4>1, <4>2, PendingKept DEF LeavesAlone
    <3> QED BY <3>2, <3>3
  <2>10. CASE replacementFails(h)
    <3>1. UNCHANGED <<roles, perms>> /\ \A g \in Admin : g # h => admin'[g] = admin[g]
      BY <1>4, <2>10 DEF replacementFails
    <3>2. CASE admin[h].pc = "committed" /\ u \in Affected(h)
      BY <1>5, <2>10, <3>2 DEF replacementFails
    <3>3. CASE admin[h].pc # "committed" \/ u \notin Affected(h)
      <4>1. admin[h].pc # "holdersRead"
        BY <2>10 DEF replacementFails
      <4> QED BY <1>2, <3>1, <3>3, <4>1, PendingKept DEF LeavesAlone
    <3> QED BY <3>2, <3>3
  <2> QED BY <1>1, <2>1, <2>2, <2>3, <2>4, <2>5, <2>6, <2>7, <2>8, <2>9, <2>10
<1> QED BY <1>3, <1>6, AnnouncesKeeps

\* A grant marks what has been read for whoever it concerns.
LEMMA CoherenceScriptStep ==
  ASSUME CoherenceInv, TypeInv', ScriptNext
  PROVE  CoherenceInv'
<1> PICK r \in Role :
      \/ \E granted \in SUBSET Perm : grantPermissions(r, granted)
      \/ \E u \in User : grantRole(u, r)
  BY DEF ScriptNext, grantPermission
<1>1. TypeInv /\ Forgets /\ admin' = admin
  BY ScriptStamps DEF CoherenceInv, grantPermissions, grantRole
<1>2. /\ roles \in [User -> SUBSET Role]
      /\ perms \in [Role -> SUBSET Perm]
  BY <1>1 DEF TypeInv, TypeOK
<1>3. ASSUME NEW u \in User PROVE LeavesAlone(u) \/ Marks(u)
  <2>1. CASE \E granted \in SUBSET Perm : grantPermissions(r, granted)
    <3>1. r \in roles[u] => Marks(u)
      BY <1>1, <2>1, UnannouncedMarks DEF grantPermissions, Holders
    <3>2. r \notin roles[u] => LeavesAlone(u)
      BY <1>1, <1>2, <2>1, PendingKept DEF grantPermissions, SetPerms, LeavesAlone
    <3> QED BY <3>1, <3>2
  <2>2. CASE \E v \in User : grantRole(v, r)
    <3> PICK v \in User : grantRole(v, r)
      BY <2>2
    <3>1. u = v => Marks(u)
      BY <1>1, UnannouncedMarks DEF grantRole
    <3>2. u # v => LeavesAlone(u)
      BY <1>1, <1>2, PendingKept DEF grantRole, SetRoles, LeavesAlone
    <3> QED BY <3>1, <3>2
  <2> QED BY <2>1, <2>2
<1> QED BY <1>1, <1>3, AnnouncesKeeps DEF Announces

LEMMA CoherenceInit == Init => CoherenceInv
<1> SUFFICES ASSUME Init PROVE CoherenceInv
  OBVIOUS
<1>1. FillIsCoherent /\ CacheIsCoherent
  BY DEF Init, FillIsCoherent, CacheIsCoherent, IdleFill
<1> QED BY <1>1, TypeInit DEF CoherenceInv

LEMMA CoherenceFillStep ==
  ASSUME CoherenceInv, TypeInv', FillNext
  PROVE  CoherenceInv'
<1>1. PICK f \in Fill : \/ \E u \in User : ask(f, u)
                        \/ readRoles(f)
                        \/ readPermissions(f)
                        \/ store(f)
                        \/ fillFails(f)
  BY DEF FillNext
<1>2. fill \in [Fill -> FillState] /\ cache \in [User -> Entry \cup {None}]
  BY DEF CoherenceInv, TypeInv, TypeOK
<1>3. UNCHANGED <<roles, perms, admin>>
  BY <1>1 DEF ask, readRoles, readPermissions, store, fillFails
<1>4. \A g \in Fill \ {f} : fill'[g] = fill[g]
  BY <1>1, <1>2 DEF ask, readRoles, readPermissions, store, fillFails
<1>5. \A u \in User : PermsOf(u)' = PermsOf(u) /\ Pending(u)' = Pending(u)
  BY <1>3 DEF PermsOf, Pending, Affected, IsUserReplacement, Holders
<1>6. FillIsCoherent'
  <2> SUFFICES ASSUME NEW g \in Fill, fill'[g].pc \in {"rolesRead", "answered"},
                      ~ fill'[g].overtaken, ~ Pending(fill[g].user)'
               PROVE  /\ fill'[g].roles = roles'[fill'[g].user]
                      /\ fill'[g].pc = "answered" => fill'[g].perms = PermsOf(fill[g].user)'
    BY DEF FillIsCoherent
  <2>1. PICK u \in User : u = fill'[g].user
    BY DEF TypeInv, FillDated
  <2>2. ~ Pending(u)
    <3>1. ~ Pending(u)'
      BY <2>1 DEF Pending
    <3> QED BY <1>5, <3>1
  <2>3. PermsOf(fill[g].user)' = PermsOf(u)
    <3>1. PermsOf(fill[g].user)' = PermsOf(u)'
      BY <2>1 DEF PermsOf
    <3> QED BY <1>5, <3>1
  <2>4. ASSUME fill[g].pc \in {"rolesRead", "answered"}, fill[g].user = u, ~ fill[g].overtaken
        PROVE  /\ fill[g].roles = roles[u]
               /\ fill[g].pc = "answered" => fill[g].perms = PermsOf(u)
    <3>1. ~ Pending(fill[g].user)
      BY <2>2, <2>4 DEF Pending
    <3> QED BY <2>4, <3>1 DEF CoherenceInv, FillIsCoherent, PermsOf
  <2>5. CASE g # f
    <3>1. fill'[g] = fill[g]
      BY <1>4, <2>5
    <3> QED BY <1>3, <2>1, <2>3, <2>4, <3>1
  <2>6. CASE g = f /\ readRoles(f)
    <3>1. fill'[f] = [fill[f] EXCEPT !.pc = "rolesRead", !.roles = roles[fill[f].user]]
      BY <1>2, <2>6 DEF readRoles
    <3>2. /\ fill'[f].pc = "rolesRead" /\ fill'[f].user = fill[f].user
          /\ fill'[f].roles = roles[fill[f].user]
      BY <1>2, <3>1 DEF FillState
    <3> QED BY <1>3, <2>6, <3>2
  <2>7. CASE g = f /\ readPermissions(f)
    <3> DEFINE ps == UNION {perms[r] : r \in fill[f].roles}
    <3>1. fill'[f] = [fill[f] EXCEPT !.pc = "answered", !.perms = ps] /\ fill[f].pc = "rolesRead"
      BY <1>2, <2>7 DEF readPermissions
    <3> HIDE DEF ps
    <3>2. /\ fill'[f].perms = ps /\ fill'[f].user = fill[f].user
          /\ fill'[f].roles = fill[f].roles /\ fill'[f].overtaken = fill[f].overtaken
      BY <1>2, <3>1 DEF FillState
    <3>3. fill[f].roles = roles[u]
      BY <2>1, <2>4, <2>7, <3>1, <3>2
    <3>4. ps = PermsOf(u)
      BY <3>3 DEF ps, PermsOf
    <3> QED BY <1>3, <2>1, <2>3, <2>7, <3>2, <3>3, <3>4
  <2>8. CASE g = f /\ \E v \in User : ask(f, v)
    <3> PICK v \in User : ask(f, v)
      BY <2>8
    <3>1. fill'[f] = [IdleFill EXCEPT !.pc = "asked", !.user = v, !.at = now]
      BY <1>2 DEF ask
    <3>2. fill'[f].pc = "asked"
      BY <3>1 DEF IdleFill
    <3> QED BY <2>8, <3>2
  <2>9. CASE g = f /\ (store(f) \/ fillFails(f))
    <3>1. fill'[f] = IdleFill
      BY <1>2, <2>9 DEF store, fillFails
    <3> QED BY <2>9, <3>1 DEF IdleFill
  <2> QED BY <1>1, <2>5, <2>6, <2>7, <2>8, <2>9
<1>7. CacheIsCoherent'
  <2> SUFFICES ASSUME NEW u \in User, cache'[u] # None, ~ cache'[u].overtaken, ~ Pending(u)'
               PROVE  cache'[u].perms = PermsOf(u)'
    BY DEF CacheIsCoherent
  <2>1. CASE store(f) /\ u = fill[f].user
    <3>1. /\ cache'[u].perms = fill[f].perms /\ cache'[u].overtaken = fill[f].overtaken
          /\ fill[f].pc = "answered"
      BY <1>2, <2>1 DEF store
    <3>2. ~ Pending(fill[f].user)
      <4>1. ~ Pending(u)
        BY <1>5
      <4> QED BY <2>1, <4>1 DEF Pending
    <3>3. fill[f].perms = PermsOf(u)
      BY <2>1, <3>1, <3>2 DEF CoherenceInv, FillIsCoherent, PermsOf
    <3> QED BY <1>5, <3>1, <3>3
  <2>2. CASE ~ (store(f) /\ u = fill[f].user)
    <3>1. cache'[u] = cache[u]
      BY <1>1, <1>2, <2>2 DEF ask, readRoles, readPermissions, store, fillFails
    <3> QED BY <1>5, <3>1 DEF CoherenceInv, CacheIsCoherent
  <2> QED BY <2>1, <2>2
<1> QED BY <1>6, <1>7 DEF CoherenceInv

LEMMA CoherenceStep ==
  ASSUME CoherenceInv, [Next]_vars
  PROVE  CoherenceInv'
<1>1. TypeInv'
  BY TypeStep DEF CoherenceInv
<1>2. CASE restart
  <2>1. Forgets /\ Announces
    BY <1>2 DEF restart, Forgets, Announces, Marks, IdleFill
  <2> QED BY <1>1, <2>1, AnnouncesKeeps
<1>3. CASE tick \/ UNCHANGED vars
  <2>1. Forgets
    BY <1>3 DEF tick, vars, Forgets
  <2>2. UNCHANGED <<roles, perms, admin>>
    BY <1>3 DEF tick, vars
  <2>3. Announces
    BY <2>2 DEF Announces, LeavesAlone, Pending, Affected, IsUserReplacement, Holders
  <2> QED BY <1>1, <2>1, <2>3, AnnouncesKeeps
<1> QED BY <1>1, <1>2, <1>3, CoherenceFillStep, CoherenceAdminStep, CoherenceScriptStep DEF Next

\* Apart from changes that are not announced and answers that a change has
\* overtaken, a cached answer is what a query would answer.
THEOREM AnswersAreCoherent == Spec => []CacheIsCoherent
<1>1. CoherenceInv /\ [Next]_vars => CoherenceInv'
  BY CoherenceStep
<1>2. CoherenceInv => CacheIsCoherent
  BY DEF CoherenceInv
<1> QED BY <1>1, <1>2, CoherenceInit, PTL DEF Spec

----------------------------------------------------------------------------
(* Types *)

\* A login in progress, and a token, is of a user; a token was signed after
\* its login began.
SessionDated ==
  \A c \in Client :
    /\ session[c].pc # "out" => session[c].user \in User
    /\ session[c].since <= now
    /\ session[c].signed <= now
    /\ session[c].pc = "in" => session[c].since <= session[c].signed

SessionInv == session \in [Client -> Session] /\ SessionDated

\* A guard that asks is one of the calls of list.
LEMMA GuardAsksIsFill ==
  ASSUME NEW c \in Client, NEW f \in Fill, guardAsks(c, f), SessionInv
  PROVE  FillNext /\ UNCHANGED session
<1>1. session[c].user \in User /\ ask(f, session[c].user)
  BY DEF guardAsks, validate, SessionInv, SessionDated
<1> QED BY <1>1 DEF FillNext, guardAsks

LEMMA TokensStepIsStep ==
  ASSUME SessionInv, [TokensNext]_tokenVars
  PROVE  [Next]_vars
<1>1. CASE \E c \in Client, f \in Fill : guardAsks(c, f)
  BY <1>1, GuardAsksIsFill DEF Next
<1>2. CASE ~ \E c \in Client, f \in Fill : guardAsks(c, f)
  BY <1>2 DEF TokensNext, tokenVars, Next, restartTokens, login, loginReadsRoles,
              extractPermissions, signToken, logout
<1> QED BY <1>1, <1>2

LEMMA SessionInit == TokensInit => SessionInv
BY AuthzCacheAssumption DEF TokensInit, Init, SessionInv, SessionDated, Session, NoSession

\* The clock does not run backwards.
LEMMA ClockForward ==
  ASSUME TypeOK, [Next]_vars
  PROVE  now \in Nat /\ now' >= now
<1>1. now \in Nat
  BY AuthzCacheAssumption DEF TypeOK
<1>2. CASE FillNext \/ AdminNext \/ ScriptNext \/ restart \/ UNCHANGED vars
  <2>1. now' = now
    BY <1>2 DEF FillNext, AdminNext, ScriptNext, grantPermissions, grantPermission, grantRole,
                restart, vars, ask, readRoles, readPermissions, store, fillFails, setUserRoles,
                setUserRolesCommit, invalidateUser, setRolePermissions,
                setRolePermissionsCommit, readHolders, invalidateHolders,
                emptyUserRoles, createUserRoles, replacementFails
  <2> QED BY <1>1, <2>1
<1>3. CASE tick
  BY <1>1, <1>3 DEF tick
<1> QED BY <1>1, <1>2, <1>3 DEF Next

\* The steps that touch one session.
SessionStep(c) ==
  \/ \E u \in User : login(c, u)
  \/ loginReadsRoles(c)
  \/ extractPermissions(c)
  \/ signToken(c)
  \/ logout(c)

LEMMA SessionType ==
  ASSUME TypeInv, TypeInv', SessionInv, [TokensNext]_tokenVars
  PROVE  SessionInv'
<1> USE DEF SessionInv
<1>1. now \in Nat /\ now' \in Nat /\ now' >= now
  BY TokensStepIsStep, ClockForward, AuthzCacheAssumption DEF TypeInv, TypeOK
<1>2. CASE UNCHANGED session
  <2>1. \A c \in Client : session[c].since \in Nat /\ session[c].signed \in Nat
    BY DEF Session
  <2> QED BY <1>1, <1>2, <2>1 DEF SessionDated
<1>3. CASE restartTokens
  <2>1. \A c \in Client : session'[c] = session[c] \/ session'[c] = NoSession
    BY <1>3 DEF restartTokens
  <2>2. session' \in [Client -> Session]
    BY <1>3 DEF restartTokens, Session, NoSession
  <2>3. now' = now
    BY <1>3 DEF restartTokens, restart
  <2> QED BY <1>1, <2>1, <2>2, <2>3 DEF SessionDated, NoSession
<1>4. ASSUME NEW c \in Client, SessionStep(c)
      PROVE  SessionInv'
  <2>1. /\ \A x \in Client \ {c} : session'[x] = session[x]
        /\ now' = now
    BY <1>4 DEF SessionStep, login, loginReadsRoles, extractPermissions, signToken, logout, vars
  <2>2. /\ session'[c] \in Session
        /\ session' = [session EXCEPT ![c] = session'[c]]
        /\ session'[c].pc # "out" => session'[c].user \in User
        /\ session'[c].since <= now
        /\ session'[c].signed <= now
        /\ session'[c].pc = "in" => session'[c].since <= session'[c].signed
    <3>1. CASE \E u \in User : login(c, u)
      <4> PICK u \in User : login(c, u)
        BY <3>1
      <4>1. session' = [session EXCEPT ![c] = [NoSession EXCEPT !.pc = "asked", !.user = u,
                                                              !.since = now]]
        BY DEF login
      <4>2. session'[c] = [NoSession EXCEPT !.pc = "asked", !.user = u, !.since = now]
        BY <4>1
      <4>3. session'[c] = [pc |-> "asked", user |-> u, roles |-> {}, perms |-> {},
                           since |-> now, signed |-> 0]
        BY <4>2 DEF NoSession
      <4>4. session'[c] \in Session
        BY <1>1, <4>3 DEF Session
      <4>5. session' = [session EXCEPT ![c] = session'[c]]
        BY <4>1, <4>2
      <4> QED BY <1>1, <4>3, <4>4, <4>5
    <3>2. CASE loginReadsRoles(c)
      <4>1. roles[session[c].user] \in SUBSET Role
        BY <3>2 DEF loginReadsRoles, SessionDated, TypeInv, TypeOK
      <4>2. session' = [session EXCEPT ![c] = [session[c] EXCEPT !.pc = "rolesRead",
                                                 !.roles = roles[session[c].user]]]
        BY <3>2 DEF loginReadsRoles
      <4>3. session'[c] = [session[c] EXCEPT !.pc = "rolesRead",
                                             !.roles = roles[session[c].user]]
        BY <4>2
      <4>4. session[c].pc = "asked"
        BY <3>2 DEF loginReadsRoles
      <4>5. session[c] \in Session /\ session[c].user \in User
        BY <4>4 DEF SessionDated
      <4>6. session'[c] \in Session
        BY <4>1, <4>3, <4>5 DEF Session
      <4>7. /\ session'[c].user = session[c].user
            /\ session'[c].since = session[c].since
            /\ session'[c].signed = session[c].signed
            /\ session'[c].pc = "rolesRead"
        BY <4>3, <4>5 DEF Session
      <4>8. session' = [session EXCEPT ![c] = session'[c]]
        BY <4>2, <4>3
      <4> QED BY <4>5, <4>6, <4>7, <4>8 DEF SessionDated
    <3>3. CASE extractPermissions(c)
      <4>1. UNION {perms[r] : r \in session[c].roles} \in SUBSET Perm
        BY DEF TypeInv, TypeOK, Session
      <4> QED BY <3>3, <4>1 DEF extractPermissions, Session, SessionDated
    <3>4. CASE signToken(c)
      <4>1. session' = [session EXCEPT ![c] = [session[c] EXCEPT !.pc = "in", !.signed = now]]
        BY <3>4 DEF signToken
      <4>2. session'[c] = [session[c] EXCEPT !.pc = "in", !.signed = now]
        BY <4>1
      <4>3. session[c].pc = "answered"
        BY <3>4 DEF signToken
      <4>4. session' = [session EXCEPT ![c] = session'[c]]
        BY <4>1, <4>2
      <4>5. session'[c] \in Session /\ session'[c].signed = now /\ session'[c].pc = "in"
        BY <1>1, <4>2 DEF Session
      <4>6. session'[c].user = session[c].user /\ session'[c].since = session[c].since
        BY <4>2 DEF Session
      <4> QED BY <1>1, <4>3, <4>4, <4>5, <4>6 DEF SessionDated
    <3>5. CASE logout(c)
      BY <1>1, <3>5 DEF logout, Session, NoSession
    <3> QED BY <1>4, <3>1, <3>2, <3>3, <3>4, <3>5 DEF SessionStep
  <2> QED BY <2>1, <2>2 DEF SessionDated
<1> QED BY <1>2, <1>3, <1>4 DEF TokensNext, tokenVars, SessionStep, guardAsks

----------------------------------------------------------------------------
(* How old what a token carries can be *)

\* What a login has read, and a token carries, is as old as the login.
SessionWithin ==
  \A c \in Client :
    /\ session[c].pc = "rolesRead" =>
         RolesWithin(session[c].roles, session[c].user, session[c].since)
    /\ session[c].pc \in {"answered", "in"} =>
         Within(session[c].perms, session[c].user, session[c].since)

TokensInv == AgeInv /\ SessionInv /\ SessionWithin

LEMMA StepStamps ==
  ASSUME TypeInv, [Next]_vars
  PROVE  Stamped
<1>1. CASE FillNext \/ restart \/ tick \/ UNCHANGED vars
  <2>1. UNCHANGED <<roles, perms, rolesAt, permsAt>>
    BY <1>1 DEF FillNext, restart, tick, vars, ask, readRoles, readPermissions, store, fillFails
  <2> QED BY <2>1 DEF Stamped
<1> QED BY <1>1, AdminStamps, ScriptStamps DEF Next

\* A session no step touches stays within its time.
LEMMA SessionKept ==
  ASSUME TokensInv, TypeInv', Stamped, NEW c \in Client, session'[c] = session[c]
  PROVE  /\ session'[c].pc = "rolesRead" =>
              RolesWithin(session[c].roles, session[c].user, session[c].since)'
         /\ session'[c].pc \in {"answered", "in"} =>
              Within(session[c].perms, session[c].user, session[c].since)'
<1> DEFINE qs == session[c].perms
           rs == session[c].roles
           v == session[c].user
           t == session[c].since
<1>1. qs \in SUBSET Perm /\ rs \in SUBSET Role /\ t \in Nat /\ t <= now
  BY DEF TokensInv, SessionInv, SessionDated, Session
<1>2. session[c].pc # "out" => v \in User
  BY DEF TokensInv, SessionInv, SessionDated
<1>3. /\ session[c].pc = "rolesRead" => RolesWithin(rs, v, t)
      /\ session[c].pc \in {"answered", "in"} => Within(qs, v, t)
  BY DEF TokensInv, SessionWithin
<1>4. session'[c].perms = qs /\ session'[c].roles = rs /\ session'[c].user = v
      /\ session'[c].since = t /\ session'[c].pc = session[c].pc
  OBVIOUS
<1> HIDE DEF qs, rs, v, t
<1>5. ASSUME session[c].pc = "rolesRead"
      PROVE  \A r \in Role : (r \in rs) = (r \in roles'[v]) \/ rolesAt'[v][r] >= t
  BY <1>1, <1>2, <1>3, <1>5 DEF RolesWithin, Stamped
<1>6. ASSUME session[c].pc \in {"answered", "in"}
      PROVE  /\ \A p \in qs : \E r \in Role :
                  /\ r \in roles'[v] \/ rolesAt'[v][r] >= t
                  /\ p \in perms'[r] \/ permsAt'[r][p] >= t
             /\ \A r \in roles'[v] : \A p \in perms'[r] :
                  p \in qs \/ rolesAt'[v][r] >= t \/ permsAt'[r][p] >= t
  <2>1. v \in User /\ Within(qs, v, t)
    BY <1>2, <1>3, <1>6
  <2>2. \A ps \in SUBSET Perm, w \in User, x \in Nat :
          x <= now /\ Within(ps, w, x) =>
            /\ \A p \in ps : \E r \in Role :
                 /\ r \in roles'[w] \/ rolesAt'[w][r] >= x
                 /\ p \in perms'[r] \/ permsAt'[r][p] >= x
            /\ \A r \in roles'[w] : \A p \in perms'[r] :
                 p \in ps \/ rolesAt'[w][r] >= x \/ permsAt'[r][p] >= x
    <3> TAKE ps \in SUBSET Perm, w \in User, x \in Nat
    <3> HAVE x <= now /\ Within(ps, w, x)
    <3>1. Within(ps, w, x)'
      BY WithinKept DEF TokensInv, AgeInv
    <3> QED BY <3>1 DEF Within
  <2> QED BY <1>1, <2>1, <2>2
<1> QED BY <1>4, <1>5, <1>6 DEF RolesWithin, Within

LEMMA TokensStep ==
  ASSUME TokensInv, [TokensNext]_tokenVars
  PROVE  TokensInv'
<1>1. AgeInv /\ TypeInv /\ [Next]_vars
  BY TokensStepIsStep DEF TokensInv, AgeInv
<1>2. AgeInv' /\ TypeInv' /\ Stamped
  BY <1>1, AgeStep, StepStamps DEF AgeInv
<1>3. SessionInv'
  BY <1>1, <1>2, SessionType DEF TokensInv
<1>4. SessionWithin'
  <2> SUFFICES ASSUME NEW c \in Client
               PROVE  /\ session'[c].pc = "rolesRead" =>
                           RolesWithin(session[c].roles, session[c].user, session[c].since)'
                      /\ session'[c].pc \in {"answered", "in"} =>
                           Within(session[c].perms, session[c].user, session[c].since)'
    BY DEF SessionWithin
  <2>1. session \in [Client -> Session]
    BY DEF TokensInv, SessionInv
  <2>2. CASE session'[c] = session[c]
    BY <1>2, <2>2, SessionKept
  <2>3. CASE \/ session'[c] = NoSession
             \/ \E u \in User : login(c, u)
    <3>1. ASSUME NEW u \in User, login(c, u)
          PROVE  session'[c].pc = "asked"
      <4>1. session'[c] = [NoSession EXCEPT !.pc = "asked", !.user = u, !.since = now]
        BY <2>1, <3>1 DEF login
      <4> QED BY <4>1 DEF NoSession
    <3> QED BY <2>3, <3>1 DEF NoSession
  <2>4. CASE loginReadsRoles(c)
    <3>1. /\ session'[c].pc = "rolesRead" /\ session'[c].user = session[c].user
          /\ session'[c].roles = roles[session[c].user]
          /\ UNCHANGED <<roles, rolesAt>>
      BY <2>1, <2>4 DEF loginReadsRoles, Session, vars
    <3> QED BY <3>1 DEF RolesWithin
  <2>5. CASE extractPermissions(c)
    <3> DEFINE ps == UNION {perms[r] : r \in session[c].roles}
    <3>1. session[c].user \in User /\ session[c].roles \in SUBSET Role
      BY <2>1, <2>5 DEF extractPermissions, TokensInv, SessionInv, SessionDated, Session
    <3>2. RolesWithin(session[c].roles, session[c].user, session[c].since)
      BY <2>5 DEF extractPermissions, TokensInv, SessionWithin
    <3>3. Within(ps, session[c].user, session[c].since)
      BY <1>1, <3>1, <3>2, AnswerWithin
    <3>4. session'[c] = [session[c] EXCEPT !.pc = "answered", !.roles = {}, !.perms = ps]
      BY <2>1, <2>5 DEF extractPermissions
    <3> HIDE DEF ps
    <3>5. /\ session'[c].pc = "answered" /\ session'[c].user = session[c].user
          /\ session'[c].since = session[c].since /\ session'[c].perms = ps
      BY <2>1, <3>4 DEF Session
    <3>6. UNCHANGED <<roles, perms, rolesAt, permsAt>>
      BY <2>5 DEF extractPermissions, vars
    <3> QED BY <3>3, <3>5, <3>6 DEF Within
  <2>6. CASE signToken(c)
    <3>1. /\ session[c].pc = "answered"
          /\ session'[c].pc = "in" /\ session'[c].user = session[c].user
          /\ session'[c].since = session[c].since /\ session'[c].perms = session[c].perms
          /\ UNCHANGED <<roles, perms, rolesAt, permsAt>>
      BY <2>1, <2>6 DEF signToken, Session, vars
    <3>2. Within(session[c].perms, session[c].user, session[c].since)
      BY <3>1 DEF TokensInv, SessionWithin
    <3> QED BY <3>1, <3>2 DEF Within
  <2>7. \/ session'[c] = session[c] \/ session'[c] = NoSession
        \/ \E u \in User : login(c, u)
        \/ loginReadsRoles(c) \/ extractPermissions(c) \/ signToken(c)
    BY <2>1 DEF TokensNext, tokenVars, guardAsks, restartTokens, login, loginReadsRoles,
           extractPermissions, signToken, logout
  <2> QED BY <2>2, <2>3, <2>4, <2>5, <2>6, <2>7
<1> QED BY <1>2, <1>3, <1>4 DEF TokensInv

LEMMA TokensStart == TokensInit => TokensInv
<1>1. TokensInit => SessionWithin
  BY DEF TokensInit, SessionWithin, NoSession
<1>2. TokensInit => AgeInv
  BY AgeInit DEF TokensInit
<1> QED BY <1>1, <1>2, SessionInit DEF TokensInv

\* Every variable of the composition has its type in every state.
THEOREM TokensTypeCorrect == TokensSpec => []TokensTypeOK
<1>1. TokensInv => TokensTypeOK
  BY DEF TokensInv, AgeInv, TypeInv, SessionInv, SessionDated, TokensTypeOK
<1> QED BY <1>1, TokensStart, TokensStep, PTL DEF TokensSpec

----------------------------------------------------------------------------
(* The cache below *)

\* Whoever watches the cache and the replacements does not see tokens: what is
\* proved of AuthzCache holds with them.
THEOREM TokensKeepCache == TokensSpec => Spec
<1>1. TokensInit => Init
  BY DEF TokensInit
<1>2. TokensInv /\ [TokensNext]_tokenVars => [Next]_vars
  BY TokensStepIsStep DEF TokensInv
<1> QED BY <1>1, <1>2, TokensStart, TokensStep, PTL DEF TokensSpec, Spec

\* What list answers is timely beside logins and tokens too.
THEOREM ServedRecentlyToTokens == TokensSpec => []ServedIsRecent
BY TokensKeepCache, ServedRecently, PTL

\* Invalidation does its work beside logins and tokens too.
THEOREM CoherentBesideTokens == TokensSpec => []CacheIsCoherent
BY TokensKeepCache, AnswersAreCoherent, PTL

----------------------------------------------------------------------------
(* The guard *)

\* Permissions that were right at t are late by the time since then.
LEMMA WithinIsTimely ==
  ASSUME AgeInv, NEW u \in User, NEW t \in Nat, NEW ps \in SUBSET Perm, NEW late,
         Within(ps, u, t), \A x \in Nat : x >= t => now - x < late
  PROVE  Timely(u, ps, late)
<1>1. /\ \A r \in Role : rolesAt[u][r] \in Nat
      /\ \A r \in Role, p \in Perm : permsAt[r][p] \in Nat
      /\ roles[u] \subseteq Role
      /\ \A r \in Role : perms[r] \subseteq Perm
  BY DEF AgeInv, TypeInv, TypeOK
<1>2. \A p \in ps : \E r \in Role :
        /\ r \in roles[u] \/ now - rolesAt[u][r] < late
        /\ p \in perms[r] \/ now - permsAt[r][p] < late
  BY <1>1 DEF Within
<1>3. \A r \in roles[u] : \A p \in perms[r] :
        p \in ps \/ now - rolesAt[u][r] < late \/ now - permsAt[r][p] < late
  BY <1>1 DEF Within
<1> QED BY <1>2, <1>3 DEF Timely

\* A decision taken at once is as timely as what it looks at.
LEMMA AtOnceIsTimely ==
  ASSUME TokensInv, NEW c \in Client, decidesAtOnce(c)
  PROVE  Timely(session[c].user, have(c), LateAtOnce(c))
<1> DEFINE u == session[c].user
           t == IF AsksCache(c) THEN cache[u].at ELSE session[c].since
<1>1. u \in User /\ session[c].pc = "in" /\ AgeInv
  BY DEF decidesAtOnce, validate, TokensInv, SessionInv, SessionDated
<1>2. now \in Nat
  BY AuthzCacheAssumption DEF TokensInv, AgeInv, TypeInv, TypeOK
<1>3. /\ t \in Nat
      /\ have(c) \in SUBSET Perm
      /\ Within(have(c), u, t)
      /\ \A x \in Nat : x >= t => now - x < LateAtOnce(c)
  <2>1. CASE AsksCache(c)
    <3>1. Hit(u)
      BY <2>1 DEF decidesAtOnce
    <3>2. cache[u] # None /\ cache[u] \in Entry /\ now - cache[u].at < TTL
      BY <1>1, <3>1 DEF Hit, TokensInv, AgeInv, TypeInv, TypeOK
    <3>3. Within(cache[u].perms, u, cache[u].at)
      BY <1>1, <3>2 DEF TokensInv, AgeInv, CacheWithin
    <3> QED BY <1>2, <2>1, <3>2, <3>3, AuthzCacheAssumption DEF have, LateAtOnce, Entry
  <2>2. CASE ~ AsksCache(c)
    <3>1. session[c] \in Session /\ now < session[c].signed + TokenLife
      BY DEF decidesAtOnce, validate, TokensInv, SessionInv
    <3>2. Within(session[c].perms, u, session[c].since)
      BY <1>1 DEF TokensInv, SessionWithin
    <3> QED BY <1>2, <2>2, <3>1, <3>2, TokensAssumption DEF have, LateAtOnce, Session
  <2> QED BY <2>1, <2>2
<1> HIDE DEF t
<1> QED BY <1>1, <1>3, WithinIsTimely

\* A decision a request has waited for is as timely as its query, whoever has
\* asked and however long ago.
LEMMA AnswerIsTimely ==
  ASSUME TokensInv, NEW f \in Fill, decidesOnAnswer(f)
  PROVE  Timely(fill[f].user, fill[f].perms, LateAnswer(f))
<1>1. AgeInv /\ fill[f].pc = "answered" /\ now \in Nat
  BY AuthzCacheAssumption DEF decidesOnAnswer, TokensInv, AgeInv, TypeInv, TypeOK
<1>2. /\ fill[f].user \in User
      /\ fill[f].at \in Nat
      /\ fill[f].perms \in SUBSET Perm
  BY <1>1 DEF AgeInv, TypeInv, FillDated, TypeOK, FillState
<1>3. Within(fill[f].perms, fill[f].user, fill[f].at)
  BY <1>1 DEF AgeInv, FillWithin
<1>4. \A x \in Nat : x >= fill[f].at => now - x < LateAnswer(f)
  BY <1>1, <1>2 DEF LateAnswer
<1> QED BY <1>1, <1>2, <1>3, <1>4, WithinIsTimely

LEMMA AgeBoundsGuard == TokensInv => GuardIsTimely
BY AtOnceIsTimely, AnswerIsTimely DEF GuardIsTimely

\* What the guard lets a client do, or refuses it, is right but for the
\* changes of the last TTL, of the life of the token or, where the request
\* waits for a query, since it asked: for any users, roles, permissions,
\* clients, calls and times.
THEOREM GuardDecidesTimely == TokensSpec => []GuardIsTimely
BY AgeBoundsGuard, TokensStart, TokensStep, PTL DEF TokensSpec

=============================================================================
