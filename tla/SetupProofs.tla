----------------------------- MODULE SetupProofs -----------------------------
(***************************************************************************)
(* Proofs about modules Setup and Departments, for any number of instances *)
(* and requests: a user is created behind everything it needs, what a      *)
(* serving instance lacks has a reason, and a department has never more    *)
(* copies than there are handlers.                                         *)
(***************************************************************************)
EXTENDS Setup, FiniteSetTheorems, TLAPS

----------------------------------------------------------------------------
(* Types *)

\* The types of the departments and of those who write them.
RowsType == rows \in [Name -> Seq(Activity)]

DoingType ==
  /\ doing \in [Handler -> Intent]
  /\ \A h \in Handler : doing[h].op # "none" => doing[h].name \in Name
  /\ \A h \in Handler : doing[h].op = "set" => doing[h].row \in DOMAIN rows[doing[h].name]

\* What a step of one handler does to the departments.
DepartmentStep(h) ==
  \/ UNCHANGED departmentVars
  \/ DepartmentsNext(h)
  \/ doing' = [doing EXCEPT ![h] = Idle] /\ UNCHANGED rows

LEMMA HandlerKinds ==
  /\ Instance \subseteq Handler /\ Request \subseteq Handler
  /\ \A h \in Request : h \notin Instance
BY SetupAssumption

LEMMA IdleType == Idle \in Intent /\ Idle.op = "none"
BY DEF Idle, Intent, Activity

LEMMA DepartmentType ==
  ASSUME DepartmentsTypeOK, NEW h \in Handler, DepartmentStep(h)
  PROVE  /\ DepartmentsTypeOK'
         /\ \A n \in Name : Len(rows'[n]) >= Len(rows[n])
         /\ \A k \in Handler \ {h} : doing'[k] = doing[k]
<1> USE IdleType DEF DepartmentsTypeOK
<1>1. ASSUME NEW n \in Name, NEW status \in Activity, findName(h, n, status)
      PROVE  /\ DepartmentsTypeOK'
             /\ \A m \in Name : Len(rows'[m]) >= Len(rows[m])
             /\ \A k \in Handler \ {h} : doing'[k] = doing[k]
  BY <1>1 DEF findName, Intent
<1>2. CASE createDepartment(h)
  <2> DEFINE n == doing[h].name
             s == doing[h].status
  <2>1. n \in Name /\ s \in Activity
    BY <1>2 DEF createDepartment, Intent
  <2>2. Append(rows[n], s) \in Seq(Activity) /\ Len(Append(rows[n], s)) = Len(rows[n]) + 1
    BY <2>1
  <2>3. rows' \in [Name -> Seq(Activity)] /\ \A m \in Name : Len(rows'[m]) >= Len(rows[m])
    BY <1>2, <2>1, <2>2 DEF createDepartment
  <2>4. doing' \in [Handler -> Intent] /\ \A k \in Handler \ {h} : doing'[k] = doing[k]
    BY <1>2 DEF createDepartment
  <2>5. \A k \in Handler : doing'[k].op = "set" => doing'[k].row \in DOMAIN rows'[doing'[k].name]
    <3> SUFFICES ASSUME NEW k \in Handler, doing'[k].op = "set"
                 PROVE  doing'[k].row \in DOMAIN rows'[doing'[k].name]
      OBVIOUS
    <3>1. doing'[k] = doing[k] /\ doing[k].name \in Name
      BY <1>2 DEF createDepartment
    <3>2. doing[k].row \in 1 .. Len(rows[doing[k].name])
      BY <3>1
    <3> QED BY <2>3, <3>1, <3>2
  <2>6. \A k \in Handler : doing'[k].op # "none" => doing'[k].name \in Name
    BY <1>2 DEF createDepartment
  <2> QED BY <2>3, <2>4, <2>5, <2>6
<1>3. ASSUME NEW n \in Name, NEW k \in DOMAIN rows[n], NEW status \in Activity,
             updateStatus(h, n, k, status)
      PROVE  /\ DepartmentsTypeOK'
             /\ \A m \in Name : Len(rows'[m]) >= Len(rows[m])
             /\ \A j \in Handler \ {h} : doing'[j] = doing[j]
  BY <1>3 DEF updateStatus, Intent
<1>4. ASSUME NEW n \in Name, NEW k \in DOMAIN rows[n], toggleStatus(h, n, k)
      PROVE  \E status \in Activity : updateStatus(h, n, k, status)
  BY <1>4 DEF toggleStatus, Other, Activity
<1>5. CASE storeStatus(h)
  <2> DEFINE n == doing[h].name
             k == doing[h].row
             s == doing[h].status
  <2>1. n \in Name /\ s \in Activity /\ k \in DOMAIN rows[n]
    BY <1>5 DEF storeStatus, Intent
  <2>2. /\ [rows[n] EXCEPT ![k] = s] \in Seq(Activity)
        /\ Len([rows[n] EXCEPT ![k] = s]) = Len(rows[n])
    BY <2>1
  <2>3. rows' \in [Name -> Seq(Activity)] /\ \A m \in Name : Len(rows'[m]) = Len(rows[m])
    BY <1>5, <2>1, <2>2 DEF storeStatus
  <2>4. doing' \in [Handler -> Intent] /\ \A j \in Handler \ {h} : doing'[j] = doing[j]
    BY <1>5 DEF storeStatus
  <2>5. \A j \in Handler : doing'[j].op = "set" => doing'[j].row \in DOMAIN rows'[doing'[j].name]
    <3> SUFFICES ASSUME NEW j \in Handler, doing'[j].op = "set"
                 PROVE  doing'[j].row \in DOMAIN rows'[doing'[j].name]
      OBVIOUS
    <3>1. doing'[j] = doing[j] /\ doing[j].name \in Name
      BY <1>5 DEF storeStatus
    <3>2. doing[j].row \in 1 .. Len(rows[doing[j].name])
      BY <3>1
    <3> QED BY <2>3, <3>1, <3>2
  <2>6. \A j \in Handler : doing'[j].op # "none" => doing'[j].name \in Name
    BY <1>5 DEF storeStatus
  <2>7. \A m \in Name : Len(rows'[m]) >= Len(rows[m])
    BY <2>3
  <2> QED BY <2>3, <2>4, <2>5, <2>6, <2>7
<1>6. CASE doing' = [doing EXCEPT ![h] = Idle] /\ UNCHANGED rows
  BY <1>6
<1>7. CASE handlerFails(h)
  BY <1>7 DEF handlerFails
<1>8. CASE UNCHANGED departmentVars
  BY <1>8 DEF departmentVars
<1> QED BY <1>1, <1>2, <1>3, <1>4, <1>5, <1>6, <1>7, <1>8 DEF DepartmentStep, DepartmentsNext

\* The steps of an instance that leave the departments alone.
QuietStep(i) ==
  \/ migrate(i) \/ countUsers(i) \/ countFails(i)
  \/ ensureSecurityLevels(i) \/ ensureDocumentTypes(i) \/ ensureRoles(i)
  \/ ensurePermissions(i) \/ ensureViewerRoles(i) \/ ensureAdminUser(i)
  \/ ensureAdminRoles(i) \/ ensureEscalationPolicy(i)
  \/ ensureDepartmentFound(i) \/ stop(i)

LEMMA Steps ==
  ASSUME [Next]_vars
  PROVE  \/ \E i \in Instance : QuietStep(i)
         \/ \E i \in Instance : ensureDepartmentMissing(i) \/ ensureDepartmentCreated(i)
         \/ \E i \in Instance : seedFails(i)
         \/ \E h \in Request : request(h)
         \/ UNCHANGED vars
BY DEF Next, QuietStep

LEMMA TypeInit == Init => TypeOK
<1> SUFFICES ASSUME Init PROVE TypeOK
  OBVIOUS
<1>1. DepartmentsTypeOK
  BY IdleType DEF Init, DepartmentsInit, DepartmentsTypeOK
<1> QED BY <1>1, HandlerKinds, IdleType DEF Init, DepartmentsInit, TypeOK, Place

LEMMA PlaceType ==
  \A p \in SeedSteps : AfterStep[p] \in Place
BY DEF SeedSteps, AfterStep, Place

LEMMA DepartmentsMove ==
  ASSUME TypeOK, [Next]_vars
  PROVE  UNCHANGED departmentVars \/ \E h \in Handler : DepartmentStep(h)
<1>1. ASSUME NEW i \in Instance, QuietStep(i)
      PROVE  UNCHANGED departmentVars
  BY <1>1 DEF QuietStep, migrate, countUsers, countFails, StepRuns, ensureSecurityLevels,
     ensureDocumentTypes, ensureRoles, ensurePermissions, ensureViewerRoles, ensureAdminUser,
     ensureAdminRoles, ensureEscalationPolicy, ensureDepartmentFound, stop
<1>2. ASSUME NEW i \in Instance, ensureDepartmentMissing(i)
      PROVE  DepartmentsNext(i)
  <2>1. place[i] \in Name
    BY <1>2, SetupAssumption DEF ensureDepartmentMissing, DepartmentSteps
  <2> QED BY <1>2, <2>1 DEF ensureDepartmentMissing, DepartmentsNext, Activity
<1>3. ASSUME NEW i \in Instance, ensureDepartmentCreated(i)
      PROVE  DepartmentsNext(i)
  BY <1>3 DEF ensureDepartmentCreated, DepartmentsNext
<1>4. ASSUME NEW i \in Instance, seedFails(i)
      PROVE  doing' = [doing EXCEPT ![i] = Idle] /\ UNCHANGED rows
  BY <1>4 DEF seedFails
<1>5. ASSUME NEW h \in Request, request(h)
      PROVE  DepartmentsNext(h)
  BY <1>5 DEF request
<1>6. CASE UNCHANGED vars
  BY <1>6 DEF vars
<1> QED BY <1>1, <1>2, <1>3, <1>4, <1>5, <1>6, HandlerKinds, Steps DEF DepartmentStep

\* Where an instance goes by a step of its own.
LEMMA QuietMoves ==
  ASSUME TypeOK, NEW i \in Instance, QuietStep(i)
  PROVE  /\ UNCHANGED departmentVars
         /\ doing[i] = Idle
         /\ \E p \in Place : place' = [place EXCEPT ![i] = p]
         /\ blind' \subseteq blind \cup {i}
         /\ has \subseteq has' /\ has' \subseteq SeedSteps
         /\ torn' = torn
<1>1. doing[i] # Idle => place[i] \in DepartmentSteps
  BY DEF TypeOK
<1>2. CASE migrate(i) \/ countUsers(i) \/ countFails(i) \/ stop(i)
  BY <1>1, <1>2 DEF migrate, countUsers, countFails, stop, Goto, FirstStep, Place, SeedSteps,
     DepartmentSteps, TypeOK, departmentVars
<1>3. ASSUME NEW step \in SeedSteps \ DepartmentSteps, NEW needs, StepRuns(i, step, needs)
      PROVE  /\ UNCHANGED departmentVars
             /\ doing[i] = Idle
             /\ \E p \in Place : place' = [place EXCEPT ![i] = p]
             /\ blind' \subseteq blind \cup {i}
             /\ has \subseteq has' /\ has' \subseteq SeedSteps
             /\ torn' = torn
  BY <1>1, <1>3, PlaceType DEF StepRuns, Goto, GotoNext, TypeOK
<1>4. CASE ensureDepartmentFound(i)
  BY <1>4, PlaceType DEF ensureDepartmentFound, Goto, GotoNext, TypeOK, IsSeeding
<1>5. \A step \in {"levels", "types", "roles", "permissions", "viewers", "admin",
                  "adminRoles", "policy"} : step \in SeedSteps \ DepartmentSteps
  BY DEF SeedSteps, DepartmentSteps
<1> QED BY <1>2, <1>3, <1>4, <1>5 DEF QuietStep, ensureSecurityLevels, ensureDocumentTypes,
        ensureRoles, ensurePermissions, ensureViewerRoles, ensureAdminUser, ensureAdminRoles,
        ensureEscalationPolicy

LEMMA TypeStep == TypeOK /\ [Next]_vars => TypeOK'
<1> SUFFICES ASSUME TypeOK, [Next]_vars PROVE TypeOK'
  OBVIOUS
<1>1. DepartmentsTypeOK'
  <2>1. CASE UNCHANGED departmentVars
    BY <2>1 DEF TypeOK, DepartmentsTypeOK, departmentVars
  <2>2. CASE \E h \in Handler : DepartmentStep(h)
    BY <2>2, DepartmentType DEF TypeOK
  <2> QED BY <2>1, <2>2, DepartmentsMove
<1>2. ASSUME NEW i \in Instance, QuietStep(i)
      PROVE  TypeOK'
  <2>1. /\ UNCHANGED departmentVars
        /\ doing[i] = Idle
        /\ \E p \in Place : place' = [place EXCEPT ![i] = p]
        /\ blind' \subseteq blind \cup {i}
        /\ has' \subseteq SeedSteps
        /\ torn' = torn
    BY <1>2, QuietMoves
  <2> QED BY <1>1, <2>1 DEF TypeOK, departmentVars
<1>3. ASSUME NEW i \in Instance, ensureDepartmentMissing(i)
      PROVE  TypeOK'
  BY <1>1, <1>3, HandlerKinds DEF ensureDepartmentMissing, findName, TypeOK, DepartmentsTypeOK
<1>4. ASSUME NEW i \in Instance, ensureDepartmentCreated(i)
      PROVE  TypeOK'
  <2>1. place[i] \in SeedSteps /\ AfterStep[place[i]] \in Place
    BY <1>4, PlaceType DEF ensureDepartmentCreated, IsSeeding
  <2>2. \A j \in Instance \ {i} : doing'[j] = doing[j] /\ place'[j] = place[j]
    BY <1>4, HandlerKinds DEF ensureDepartmentCreated, createDepartment, GotoNext, Goto, TypeOK,
       DepartmentsTypeOK
  <2>3. doing'[i] = Idle
    BY <1>4, HandlerKinds DEF ensureDepartmentCreated, createDepartment, TypeOK, DepartmentsTypeOK
  <2> QED BY <1>1, <1>4, <2>1, <2>2, <2>3 DEF ensureDepartmentCreated, GotoNext, Goto, TypeOK
<1>5. ASSUME NEW i \in Instance, seedFails(i)
      PROVE  TypeOK'
  BY <1>1, <1>5, HandlerKinds DEF seedFails, Goto, TypeOK, Place, DepartmentsTypeOK
<1>6. ASSUME NEW h \in Request, request(h)
      PROVE  TypeOK'
  <2>1. \A i \in Instance : doing'[i] = doing[i]
    BY <1>6, DepartmentType, HandlerKinds DEF request, DepartmentStep, TypeOK
  <2> QED BY <1>1, <1>6, <2>1 DEF request, TypeOK
<1>7. CASE UNCHANGED vars
  BY <1>1, <1>7 DEF vars, departmentVars, TypeOK
<1> QED BY <1>2, <1>3, <1>4, <1>5, <1>6, <1>7, Steps

\* Every variable of a start-up has its type throughout.
THEOREM SetupTypeCorrect == Spec => []TypeOK
BY TypeInit, TypeStep, PTL DEF Spec

----------------------------------------------------------------------------
(* The order of the seed *)

\* The steps a seed has behind it, by the one it has ahead.
Behind ==
  [levels |-> {},
   types |-> {"levels"},
   roles |-> {"levels", "types"},
   permissions |-> {"levels", "types", "roles"},
   viewers |-> {"levels", "types", "roles", "permissions"},
   root |-> {"levels", "types", "roles", "permissions", "viewers"},
   extra |-> {"levels", "types", "roles", "permissions", "viewers", "root"},
   admin |-> BeforeAdmin,
   adminRoles |-> BeforeAdmin \cup {"admin"},
   policy |-> BeforeAdmin \cup {"admin", "adminRoles"}]

\* A seed that is at a step has completed those before it.
SeedIsInOrder == \A i \in Instance : IsSeeding(i) => Behind[place[i]] \subseteq has

\* A department that has been seeded is there.
SeededRows == \A n \in DepartmentSteps : n \in has => ~ Missing(n)

\* Behind an admin user the seed is complete, or is on its way, or has died.
AdminIsFollowed ==
  "admin" \in has => \/ SeedSteps \subseteq has
                     \/ torn
                     \/ \E j \in Instance : place[j] \in AfterAdmin

\* A server has found an admin user, or nothing to count, or made it all.
ServingKnows ==
  \A i \in Instance : place[i] = "serving" => i \in blind \/ "admin" \in has

OrderInv ==
  /\ TypeOK
  /\ "admin" \in has => BeforeAdmin \subseteq has
  /\ SeedIsInOrder
  /\ SeededRows
  /\ AdminIsFollowed
  /\ ServingKnows

LEMMA OrderInit == Init => OrderInv
BY TypeInit DEF Init, OrderInv, SeedIsInOrder, SeededRows, AdminIsFollowed, ServingKnows,
   IsSeeding, SeedSteps

\* The seed is in order when a step that needs what is behind it is completed.
LEMMA StepInOrder ==
  ASSUME OrderInv, TypeOK', NEW i \in Instance, place[i] \in SeedSteps,
         has' = has \cup {place[i]}, place' = [place EXCEPT ![i] = AfterStep[place[i]]],
         UNCHANGED <<blind, torn>>, SeededRows'
  PROVE  OrderInv'
<1> DEFINE s == place[i]
<1>1. Behind[s] \subseteq has
  BY DEF OrderInv, SeedIsInOrder, IsSeeding
<1>2. place[i] = s /\ place'[i] = AfterStep[s] /\ \A j \in Instance \ {i} : place'[j] = place[j]
  BY DEF OrderInv, TypeOK
<1>3. /\ AfterStep[s] \in SeedSteps => Behind[AfterStep[s]] \subseteq has'
      /\ AfterStep[s] \notin SeedSteps => SeedSteps \subseteq has'
  BY <1>1 DEF SeedSteps, AfterStep, Behind, BeforeAdmin
<1>4. SeedIsInOrder'
  BY <1>2, <1>3 DEF OrderInv, SeedIsInOrder, IsSeeding
<1>5. s = "admin" => BeforeAdmin \subseteq has /\ AfterStep[s] \in AfterAdmin
  BY <1>1 DEF Behind, AfterStep, AfterAdmin
<1>6. s \in AfterAdmin => AfterStep[s] \in AfterAdmin \/ SeedSteps \subseteq has'
  BY <1>3 DEF AfterAdmin, AfterStep, SeedSteps
<1>7. "admin" \in has' => BeforeAdmin \subseteq has'
  BY <1>5 DEF OrderInv
<1>8. AdminIsFollowed'
  <2> SUFFICES ASSUME "admin" \in has', ~ (SeedSteps \subseteq has'), ~ torn
               PROVE  \E j \in Instance : place'[j] \in AfterAdmin
    BY DEF AdminIsFollowed
  <2>1. CASE s \in AfterAdmin \/ s = "admin"
    BY <1>2, <1>5, <1>6, <2>1
  <2>2. CASE s \notin AfterAdmin /\ s # "admin"
    <3>1. "admin" \in has /\ ~ (SeedSteps \subseteq has)
      BY <2>2
    <3>2. PICK j \in Instance : place[j] \in AfterAdmin
      BY <3>1 DEF OrderInv, AdminIsFollowed
    <3> QED BY <1>2, <2>2, <3>2
  <2> QED BY <2>1, <2>2
<1>9. ServingKnows'
  <2> SUFFICES ASSUME NEW j \in Instance, place'[j] = "serving"
               PROVE  j \in blind \/ "admin" \in has'
    BY DEF ServingKnows
  <2>1. CASE j = i
    BY <1>2, <1>3, <2>1 DEF SeedSteps
  <2>2. CASE j # i
    BY <1>2, <2>2 DEF OrderInv, ServingKnows
  <2> QED BY <2>1, <2>2
<1> QED BY <1>4, <1>7, <1>8, <1>9 DEF OrderInv

\* Rows stay, and departments with them.
LEMMA RowsStay ==
  ASSUME OrderInv, [Next]_vars
  PROVE  \A n \in Name : ~ Missing(n) => ~ Missing(n)'
<1>1. CASE UNCHANGED departmentVars
  BY <1>1 DEF Missing, departmentVars
<1>2. ASSUME NEW h \in Handler, DepartmentStep(h), NEW n \in Name, ~ Missing(n)
      PROVE  ~ Missing(n)'
  <2>1. Len(rows'[n]) >= Len(rows[n]) /\ rows[n] \in Seq(Activity) /\ rows'[n] \in Seq(Activity)
    BY <1>2, DepartmentType DEF OrderInv, TypeOK, DepartmentsTypeOK
  <2> QED BY <1>2, <2>1 DEF Missing
<1> QED BY <1>1, <1>2, DepartmentsMove DEF OrderInv

\* Steps that complete nothing and take nobody from behind the admin user.
LEMMA NothingCompleted ==
  ASSUME OrderInv, TypeOK', UNCHANGED <<has, torn>>, SeededRows',
         NEW i \in Instance, place[i] \notin AfterAdmin,
         NEW p \in Place, place' = [place EXCEPT ![i] = p],
         p \in SeedSteps => Behind[p] \subseteq has,
         p = "serving" => i \in blind' \/ "admin" \in has,
         blind \ {i} \subseteq blind'
  PROVE  OrderInv'
<1>1. place'[i] = p /\ \A j \in Instance \ {i} : place'[j] = place[j]
  BY DEF OrderInv, TypeOK
<1>2. SeedIsInOrder'
  BY <1>1 DEF OrderInv, SeedIsInOrder, IsSeeding
<1>3. AdminIsFollowed'
  BY <1>1 DEF OrderInv, AdminIsFollowed
<1>4. ServingKnows'
  BY <1>1 DEF OrderInv, ServingKnows
<1> QED BY <1>2, <1>3, <1>4 DEF OrderInv

LEMMA SeededStay ==
  ASSUME OrderInv, [Next]_vars, UNCHANGED has
  PROVE  SeededRows'
BY RowsStay, SetupAssumption DEF OrderInv, SeededRows, DepartmentSteps

LEMMA OrderStep == OrderInv /\ [Next]_vars => OrderInv'
<1> SUFFICES ASSUME OrderInv, [Next]_vars PROVE OrderInv'
  OBVIOUS
<1>1. TypeOK /\ TypeOK'
  BY TypeStep DEF OrderInv
<1>2. ASSUME NEW i \in Instance, migrate(i) \/ countUsers(i) \/ countFails(i) \/ stop(i)
      PROVE  OrderInv'
  <2>1. place[i] \notin AfterAdmin /\ UNCHANGED <<has, torn>>
    BY <1>2 DEF migrate, countUsers, countFails, stop, AfterAdmin
  <2>2. blind \ {i} \subseteq blind'
    BY <1>2 DEF migrate, countUsers, countFails, stop
  <2>3. PICK p \in {"migrated", "down", "serving", FirstStep} :
          /\ place' = [place EXCEPT ![i] = p]
          /\ p = "serving" => i \in blind' \/ "admin" \in has
    <3>1. CASE migrate(i)
      <4>1. place' = [place EXCEPT ![i] = "migrated"]
        BY <3>1 DEF migrate, Goto
      <4> QED BY <4>1
    <3>2. CASE (countUsers(i) /\ "admin" \in has) \/ countFails(i)
      <4>1. place' = [place EXCEPT ![i] = "serving"] /\ (i \in blind' \/ "admin" \in has)
        BY <3>2 DEF countUsers, countFails, Goto
      <4> QED BY <4>1
    <3>3. CASE countUsers(i) /\ "admin" \notin has
      <4>1. place' = [place EXCEPT ![i] = FirstStep] /\ FirstStep # "serving"
        BY <3>3 DEF countUsers, Goto, FirstStep
      <4> QED BY <4>1
    <3>4. CASE stop(i)
      <4>1. place' = [place EXCEPT ![i] = "down"]
        BY <3>4 DEF stop, Goto
      <4> QED BY <4>1
    <3> QED BY <1>2, <3>1, <3>2, <3>3, <3>4
  <2>4. p \in Place /\ (p \in SeedSteps => Behind[p] \subseteq has)
    BY DEF Place, SeedSteps, FirstStep, Behind
  <2> QED BY <1>1, <2>1, <2>2, <2>3, <2>4, NothingCompleted, SeededStay
<1>3. ASSUME NEW i \in Instance, NEW step \in SeedSteps \ DepartmentSteps, NEW needs,
             needs \subseteq Behind[step], StepRuns(i, step, needs)
      PROVE  OrderInv'
  <2>1. place[i] = step /\ needs \subseteq has
    BY <1>3 DEF StepRuns, OrderInv, SeedIsInOrder, IsSeeding
  <2>2. /\ has' = has \cup {place[i]}
        /\ place' = [place EXCEPT ![i] = AfterStep[place[i]]]
        /\ UNCHANGED <<blind, torn>>
    BY <1>3, <2>1 DEF StepRuns, Goto, GotoNext
  <2>3. SeededRows'
    BY <1>3, <2>1, <2>2 DEF StepRuns, SeededRows, OrderInv, Missing, departmentVars
  <2> QED BY <1>1, <2>1, <2>2, <2>3, StepInOrder
<1>4. ASSUME NEW i \in Instance, ensureDepartmentFound(i) \/ ensureDepartmentCreated(i)
      PROVE  OrderInv'
  <2>1. /\ place[i] \in SeedSteps
        /\ has' = has \cup {place[i]}
        /\ place' = [place EXCEPT ![i] = AfterStep[place[i]]]
        /\ UNCHANGED <<blind, torn>>
    BY <1>4 DEF ensureDepartmentFound, ensureDepartmentCreated, IsSeeding, Goto, GotoNext
  <2>2. PICK n : n = place[i]
    OBVIOUS
  <2>3. n \in Name => ~ Missing(n)'
    <3>1. CASE ensureDepartmentFound(i)
      BY <2>2, <3>1 DEF ensureDepartmentFound, Missing, departmentVars
    <3>2. CASE ensureDepartmentCreated(i)
      <4>1. doing[i].op = "create" /\ doing[i].name = n /\ n \in Name /\ doing[i] # Idle
        BY <1>1, <2>2, <3>2, HandlerKinds, IdleType
           DEF ensureDepartmentCreated, createDepartment, TypeOK, DepartmentsTypeOK
      <4>2. rows[n] \in Seq(Activity) /\ doing[i].status \in Activity
        BY <1>1, <4>1, HandlerKinds DEF TypeOK, DepartmentsTypeOK, Intent
      <4>3. rows'[n] = Append(rows[n], doing[i].status)
        BY <1>1, <3>2, <4>1 DEF ensureDepartmentCreated, createDepartment, TypeOK, DepartmentsTypeOK
      <4> QED BY <4>2, <4>3 DEF Missing
    <3> QED BY <1>4, <3>1, <3>2
  <2>4. SeededRows'
    <3> SUFFICES ASSUME NEW m \in DepartmentSteps, m \in has'
                 PROVE  ~ Missing(m)'
      BY DEF SeededRows
    <3>1. m \in Name
      BY SetupAssumption DEF DepartmentSteps
    <3> QED BY <2>1, <2>2, <2>3, <3>1, RowsStay DEF SeededRows, OrderInv
  <2> QED BY <1>1, <2>1, <2>4, StepInOrder
<1>5. ASSUME NEW i \in Instance, seedFails(i)
      PROVE  OrderInv'
  <2>1. /\ place' = [place EXCEPT ![i] = "down"]
        /\ torn' = (torn \/ place[i] \in AfterAdmin)
        /\ UNCHANGED <<has, blind>>
        /\ IsSeeding(i)
    BY <1>5 DEF seedFails, Goto
  <2>2. CASE place[i] \in AfterAdmin
    <3>1. torn'
      BY <2>1, <2>2
    <3>2. \A j \in Instance : place'[j] = IF j = i THEN "down" ELSE place[j]
      BY <1>1, <2>1 DEF TypeOK
    <3>3. SeedIsInOrder' /\ ServingKnows'
      BY <2>1, <3>2 DEF OrderInv, SeedIsInOrder, ServingKnows, IsSeeding, SeedSteps
    <3> QED BY <1>1, <2>1, <3>1, <3>3, SeededStay DEF OrderInv, AdminIsFollowed
  <2>3. CASE place[i] \notin AfterAdmin
    <3>1. torn' = torn
      BY <1>1, <2>1, <2>3 DEF TypeOK
    <3> QED BY <1>1, <2>1, <2>3, <3>1, NothingCompleted, SeededStay DEF Place, SeedSteps
  <2> QED BY <2>2, <2>3
<1>6. CASE UNCHANGED <<place, blind, has, torn>>
  BY <1>1, <1>6, SeededStay DEF OrderInv, SeedIsInOrder, IsSeeding, AdminIsFollowed, ServingKnows
<1>7. ASSUME NEW i \in Instance, QuietStep(i)
      PROVE  OrderInv'
  <2>1. /\ {} \subseteq Behind["levels"] /\ {} \subseteq Behind["types"]
        /\ {} \subseteq Behind["roles"] /\ {"roles"} \subseteq Behind["permissions"]
        /\ {"permissions"} \subseteq Behind["viewers"] /\ {} \subseteq Behind["admin"]
        /\ {"roles"} \subseteq Behind["adminRoles"] /\ {} \subseteq Behind["policy"]
    BY DEF Behind, BeforeAdmin
  <2>2. \A step \in {"levels", "types", "roles", "permissions", "viewers", "admin",
                    "adminRoles", "policy"} : step \in SeedSteps \ DepartmentSteps
    BY DEF SeedSteps, DepartmentSteps
  <2>3. CASE ensureSecurityLevels(i) \/ ensureDocumentTypes(i) \/ ensureRoles(i)
             \/ ensurePermissions(i)
    BY <1>3, <2>1, <2>2, <2>3 DEF ensureSecurityLevels, ensureDocumentTypes, ensureRoles,
       ensurePermissions
  <2>4. CASE ensureViewerRoles(i) \/ ensureAdminUser(i) \/ ensureAdminRoles(i)
             \/ ensureEscalationPolicy(i)
    BY <1>3, <2>1, <2>2, <2>4 DEF ensureViewerRoles, ensureAdminUser, ensureAdminRoles,
       ensureEscalationPolicy
  <2> QED BY <1>2, <1>4, <1>7, <2>3, <2>4 DEF QuietStep
<1>8. ASSUME NEW i \in Instance, ensureDepartmentMissing(i)
      PROVE  OrderInv'
  BY <1>6, <1>8 DEF ensureDepartmentMissing
<1>9. ASSUME NEW h \in Request, request(h)
      PROVE  OrderInv'
  BY <1>6, <1>9 DEF request
<1>10. CASE UNCHANGED vars
  BY <1>6, <1>10 DEF vars
<1> QED BY <1>4, <1>5, <1>7, <1>8, <1>9, <1>10, Steps

LEMMA OrderInvariant == Spec => []OrderInv
BY OrderInit, OrderStep, PTL DEF Spec

\* The user that makes the next start skip the seed has all of what is seeded
\* before users.
THEOREM UserFindsSeed == Spec => []SeededBeforeUser
<1>1. OrderInv => SeededBeforeUser
  BY DEF OrderInv, SeededBeforeUser, SeededRows, BeforeAdmin, DepartmentSteps
<1> QED BY <1>1, OrderInvariant, PTL

\* A server without a complete seed has a reason.
THEOREM GapsHaveReasons == Spec => []SeedGapsExplained
<1>1. OrderInv => SeedGapsExplained
  BY DEF OrderInv, SeedGapsExplained, ServingKnows, AdminIsFollowed, IsSeeding, AfterAdmin,
     SeedSteps
<1> QED BY <1>1, OrderInvariant, PTL

----------------------------------------------------------------------------
(* Copies of a department *)

LEMMA CreatingFinite ==
  ASSUME NEW n
  PROVE  /\ IsFiniteSet(Creating(n)) /\ Cardinality(Creating(n)) \in Nat
         /\ Cardinality(Handler) \in Nat
         /\ Cardinality(Creating(n)) <= Cardinality(Handler)
<1>1. Creating(n) \subseteq Handler /\ IsFiniteSet(Handler)
  BY DepartmentsAssumption DEF Creating
<1> QED BY <1>1, FS_Subset, FS_CardinalityType

\* Those that create a department in the next state.
LEMMA CreatingNextFinite ==
  ASSUME NEW n
  PROVE  /\ IsFiniteSet(Creating(n)') /\ Cardinality(Creating(n)') \in Nat
         /\ Cardinality(Creating(n)') <= Cardinality(Handler)
<1>1. Creating(n)' \subseteq Handler /\ IsFiniteSet(Handler)
  BY DepartmentsAssumption DEF Creating
<1> QED BY <1>1, FS_Subset, FS_CardinalityType

CopiesInv == DepartmentsTypeOK /\ DepartmentCopiesBounded

\* Fewer that create, of no more copies, keep the bound.
LEMMA FewerCreate ==
  ASSUME CopiesInv, NEW n \in Name, Len(rows'[n]) = Len(rows[n]),
         Creating(n)' \subseteq Creating(n)
  PROVE  Len(rows'[n]) + Cardinality(Creating(n)') <= Cardinality(Handler)
<1>1. Len(rows[n]) \in Nat
  BY DEF CopiesInv, DepartmentsTypeOK
<1>2. Cardinality(Creating(n)') <= Cardinality(Creating(n))
  BY CreatingFinite, FS_Subset
<1> QED BY <1>1, <1>2, CreatingFinite, CreatingNextFinite DEF CopiesInv, DepartmentCopiesBounded

LEMMA CopiesStep ==
  ASSUME CopiesInv, NEW h \in Handler, DepartmentStep(h), NEW n \in Name
  PROVE  Len(rows'[n]) + Cardinality(Creating(n)') <= Cardinality(Handler)
<1> USE DEF CopiesInv
<1>1. ASSUME NEW m \in Name, NEW status \in Activity, findName(h, m, status)
      PROVE  Len(rows'[n]) + Cardinality(Creating(n)') <= Cardinality(Handler)
  <2>1. rows' = rows
    BY <1>1 DEF findName
  <2>2. CASE n = m
    BY <1>1, <2>1, <2>2, CreatingFinite, CreatingNextFinite DEF findName, Missing
  <2>3. CASE n # m
    <3>1. Creating(n)' \subseteq Creating(n)
      BY <1>1, <2>3 DEF findName, Creating, DepartmentsTypeOK
    <3> QED BY <2>1, <3>1, FewerCreate
  <2> QED BY <2>2, <2>3
<1>2. CASE createDepartment(h)
  <2>1. Creating(n)' = Creating(n) \ {h}
    BY <1>2 DEF createDepartment, Creating, Idle, DepartmentsTypeOK
  <2>2. doing[h].name \in Name /\ doing[h].status \in Activity /\ rows[n] \in Seq(Activity)
    BY <1>2 DEF createDepartment, DepartmentsTypeOK, Intent
  <2>3. CASE h \in Creating(n)
    <3>1. rows'[n] = Append(rows[n], doing[h].status)
      BY <1>2, <2>3 DEF createDepartment, Creating, DepartmentsTypeOK
    <3>2. Len(rows'[n]) = Len(rows[n]) + 1 /\ Len(rows[n]) \in Nat
      BY <2>2, <3>1
    <3>3. Cardinality(Creating(n)') = Cardinality(Creating(n)) - 1
      BY <2>1, <2>3, CreatingFinite, FS_RemoveElement
    <3> QED BY <3>2, <3>3, CreatingFinite DEF DepartmentCopiesBounded
  <2>4. CASE h \notin Creating(n)
    <3>1. rows'[n] = rows[n]
      BY <1>2, <2>4 DEF createDepartment, Creating, DepartmentsTypeOK
    <3> QED BY <2>1, <3>1, FewerCreate
  <2> QED BY <2>3, <2>4
<1>3. ASSUME NEW m \in Name, NEW k \in DOMAIN rows[m], NEW status \in Activity,
             updateStatus(h, m, k, status)
      PROVE  Len(rows'[n]) + Cardinality(Creating(n)') <= Cardinality(Handler)
  <2>1. rows' = rows /\ Creating(n)' \subseteq Creating(n)
    BY <1>3 DEF updateStatus, Creating, DepartmentsTypeOK
  <2> QED BY <2>1, FewerCreate
<1>4. ASSUME NEW m \in Name, NEW k \in DOMAIN rows[m], toggleStatus(h, m, k)
      PROVE  \E status \in Activity : updateStatus(h, m, k, status)
  BY <1>4 DEF toggleStatus, Other, Activity
<1>5. CASE storeStatus(h)
  <2>1. Len(rows'[n]) = Len(rows[n])
    <3>1. rows[n] \in Seq(Activity) /\ doing[h].status \in Activity
      BY <1>5 DEF storeStatus, DepartmentsTypeOK, Intent
    <3>2. rows'[n] = rows[n] \/ rows'[n] = [rows[n] EXCEPT ![doing[h].row] = doing[h].status]
      BY <1>5 DEF storeStatus, DepartmentsTypeOK
    <3> QED BY <3>1, <3>2
  <2>2. Creating(n)' \subseteq Creating(n)
    BY <1>5 DEF storeStatus, Creating, Idle, DepartmentsTypeOK
  <2> QED BY <2>1, <2>2, FewerCreate
<1>6. CASE handlerFails(h) \/ (doing' = [doing EXCEPT ![h] = Idle] /\ UNCHANGED rows)
  <2>1. rows' = rows /\ doing' = [doing EXCEPT ![h] = Idle]
    BY <1>6 DEF handlerFails
  <2>2. Creating(n)' \subseteq Creating(n)
    BY <2>1 DEF Creating, Idle, DepartmentsTypeOK
  <2> QED BY <2>1, <2>2, FewerCreate
<1>7. CASE UNCHANGED departmentVars
  <2>1. rows' = rows /\ Creating(n)' \subseteq Creating(n)
    <3>1. rows' = rows /\ doing' = doing
      BY <1>7 DEF departmentVars
    <3> QED BY <3>1 DEF Creating
  <2> QED BY <2>1, FewerCreate
<1> QED BY <1>1, <1>2, <1>3, <1>4, <1>5, <1>6, <1>7 DEF DepartmentStep, DepartmentsNext

LEMMA CopiesInit == Init => DepartmentCopiesBounded
<1> SUFFICES ASSUME Init, NEW n \in Name
             PROVE  Len(rows[n]) + Cardinality(Creating(n)) <= Cardinality(Handler)
  BY DEF DepartmentCopiesBounded
<1>1. Len(rows[n]) = 0
  BY DEF Init, DepartmentsInit
<1> QED BY <1>1, CreatingFinite

LEMMA CopiesBoundedStep == TypeOK /\ DepartmentCopiesBounded /\ [Next]_vars => DepartmentCopiesBounded'
<1> SUFFICES ASSUME TypeOK, DepartmentCopiesBounded, [Next]_vars, NEW n \in Name
             PROVE  Len(rows'[n]) + Cardinality(Creating(n)') <= Cardinality(Handler)
  BY DEF DepartmentCopiesBounded
<1>1. CopiesInv
  BY DEF TypeOK, CopiesInv
<1>2. CASE UNCHANGED departmentVars
  <2>1. rows' = rows /\ Creating(n)' \subseteq Creating(n)
    <3>1. rows' = rows /\ doing' = doing
      BY <1>2 DEF departmentVars
    <3> QED BY <3>1 DEF Creating
  <2> QED BY <1>1, <2>1, FewerCreate
<1>3. CASE \E h \in Handler : DepartmentStep(h)
  BY <1>1, <1>3, CopiesStep
<1> QED BY <1>2, <1>3, DepartmentsMove

\* However many seeds and requests look for a department and do not find it,
\* there are never more of its name than handlers.
THEOREM DepartmentCopiesStayFew == Spec => []DepartmentCopiesBounded
BY CopiesInit, CopiesBoundedStep, SetupTypeCorrect, PTL DEF Spec

=============================================================================
