-------------------------------- MODULE Setup --------------------------------
(***************************************************************************)
(* The start of an instance of the API (src/entrypoint.sh) and the seed it *)
(* runs when there are no users (src/prisma/seed.ts), for instances that   *)
(* start, die and start again beside one another on one database.          *)
(*                                                                         *)
(* A seed runs its statements one by one, without a transaction.  All but  *)
(* the departments are upserts, or inserts that skip what is there, so     *)
(* what counts of a step is whether it has been completed by anybody.      *)
(***************************************************************************)
EXTENDS Departments

CONSTANTS
  Instance,   \* processes that can be starting or running at once
  Request     \* requests on departments that can be in progress at once

ASSUME SetupAssumption ==
  /\ Instance \cap Request = {}
  /\ Handler = Instance \cup Request
  /\ {"root", "extra"} \subseteq Name

VARIABLES
  place,    \* where each instance is
  blind,    \* instances whose count of users failed
  has,      \* the steps of the seed whose rows are in the database
  torn      \* a seed has died after it created the admin user

vars == <<departmentVars, place, blind, has, torn>>

\* Fault: the administrator before the roles and departments to give it.
AfterStepAdminFirst ==
  [levels |-> "types", types |-> "admin", admin |-> "adminRoles", adminRoles |-> "roles",
   roles |-> "permissions", permissions |-> "viewers", viewers |-> "root",
   root |-> "extra", extra |-> "policy", policy |-> "serving"]

\* Fault: main does not call ensureEscalationPolicy.
AfterStepNoPolicy ==
  [levels |-> "types", types |-> "roles", roles |-> "permissions",
   permissions |-> "viewers", viewers |-> "root", root |-> "extra",
   extra |-> "admin", admin |-> "adminRoles", adminRoles |-> "serving",
   policy |-> "serving"]

\* What main does after each of its steps.  The admin user and the roles it is
\* given are different statements of ensureAdminUser; "extra" is the list of
\* other departments, which are one name here.
AfterStep ==
  [levels |-> "types", types |-> "roles", roles |-> "permissions",
   permissions |-> "viewers", viewers |-> "root", root |-> "extra",
   extra |-> "admin", admin |-> "adminRoles", adminRoles |-> "policy",
   policy |-> "serving"]

FirstStep == "levels"

SeedSteps == {"levels", "types", "roles", "permissions", "viewers", "root", "extra",
              "admin", "adminRoles", "policy"}

DepartmentSteps == {"root", "extra"}

\* The steps of a seed that has created the admin user.
AfterAdmin == {"adminRoles", "policy"}

\* An instance is down, has migrated, has a step of the seed ahead or serves.
Place == {"down", "migrated", "serving"} \cup SeedSteps

IsSeeding(i) == place[i] \in SeedSteps

Goto(i, p) == place' = [place EXCEPT ![i] = p]

GotoNext(i) == Goto(i, AfterStep[place[i]])

----------------------------------------------------------------------------

Init ==
  /\ DepartmentsInit
  /\ place = [i \in Instance |-> "down"]
  /\ blind = {}
  /\ has = {}
  /\ torn = FALSE

\* prisma migrate deploy; when it fails the script ends.
migrate(i) ==
  /\ place[i] = "down"
  /\ Goto(i, "migrated")
  /\ blind' = blind \ {i}
  /\ UNCHANGED <<departmentVars, has, torn>>

\* The seed runs when there are no users; the first one is its own.
countUsers(i) ==
  /\ place[i] = "migrated"
  /\ Goto(i, IF "admin" \in has THEN "serving" ELSE FirstStep)
  /\ UNCHANGED <<departmentVars, blind, has, torn>>

\* The exit status of the count is lost in the pipe to tee, and a log without
\* USER_COUNT=0 is taken for users that exist.
countFails(i) ==
  /\ place[i] = "migrated"
  /\ Goto(i, "serving")
  /\ blind' = blind \cup {i}
  /\ UNCHANGED <<departmentVars, has, torn>>

\* A step of upserts, or of inserts that skip duplicates, has run.  It skips
\* without a word what hangs on rows that are not there, and is complete only
\* if they are.
StepRuns(i, step, needs) ==
  /\ place[i] = step
  /\ has' = IF needs \subseteq has THEN has \cup {step} ELSE has
  /\ GotoNext(i)
  /\ UNCHANGED <<departmentVars, blind, torn>>

ensureSecurityLevels(i) == StepRuns(i, "levels", {})

ensureDocumentTypes(i) == StepRuns(i, "types", {})

ensureRoles(i) == StepRuns(i, "roles", {})

\* Every permission is given to ADMIN if that role is found.
ensurePermissions(i) == StepRuns(i, "permissions", {"roles"})

\* A viewer role gets those of its permissions that are found.
ensureViewerRoles(i) == StepRuns(i, "viewers", {"permissions"})

\* The user is created, or found and updated.
ensureAdminUser(i) == StepRuns(i, "admin", {})

\* The rest of ensureAdminUser: ADMIN and USER are given if they are found.
ensureAdminRoles(i) == StepRuns(i, "adminRoles", {"roles"})

ensureEscalationPolicy(i) == StepRuns(i, "policy", {})

\* A department is looked up by name and created if it is missing.
ensureDepartmentFound(i) ==
  /\ IsSeeding(i)
  /\ place[i] \in DepartmentSteps
  /\ doing[i] = Idle
  /\ ~ Missing(place[i])
  /\ has' = has \cup {place[i]}
  /\ GotoNext(i)
  /\ UNCHANGED <<departmentVars, blind, torn>>

ensureDepartmentMissing(i) ==
  /\ IsSeeding(i)
  /\ place[i] \in DepartmentSteps
  /\ findName(i, place[i], "Active")
  /\ UNCHANGED <<place, blind, has, torn>>

ensureDepartmentCreated(i) ==
  /\ IsSeeding(i)
  /\ createDepartment(i)
  /\ has' = has \cup {place[i]}
  /\ GotoNext(i)
  /\ UNCHANGED <<blind, torn>>

\* Fault: the create that was under way is sent again after the restart.
seedFailsPending(i) ==
  /\ IsSeeding(i)
  /\ Goto(i, "down")
  /\ torn' = (torn \/ place[i] \in AfterAdmin)
  /\ UNCHANGED <<departmentVars, blind, has>>

\* A statement fails or the process dies; set -e ends the script, and what the
\* seed has stored stays.
seedFails(i) ==
  /\ IsSeeding(i)
  /\ Goto(i, "down")
  /\ doing' = [doing EXCEPT ![i] = Idle]
  /\ torn' = (torn \/ place[i] \in AfterAdmin)
  /\ UNCHANGED <<rows, blind, has>>

\* A server dies or is stopped.
stop(i) ==
  /\ place[i] = "serving"
  /\ Goto(i, "down")
  /\ UNCHANGED <<departmentVars, blind, has, torn>>

\* Users need an account and a running server.
request(h) ==
  /\ "admin" \in has
  /\ \E i \in Instance : place[i] = "serving"
  /\ DepartmentsNext(h)
  /\ UNCHANGED <<place, blind, has, torn>>

Next ==
  \/ \E i \in Instance :
       \/ migrate(i)
       \/ countUsers(i)
       \/ countFails(i)
       \/ ensureSecurityLevels(i)
       \/ ensureDocumentTypes(i)
       \/ ensureRoles(i)
       \/ ensurePermissions(i)
       \/ ensureViewerRoles(i)
       \/ ensureAdminUser(i)
       \/ ensureAdminRoles(i)
       \/ ensureEscalationPolicy(i)
       \/ ensureDepartmentFound(i)
       \/ ensureDepartmentMissing(i)
       \/ ensureDepartmentCreated(i)
       \/ seedFails(i)
       \/ stop(i)
  \/ \E h \in Request : request(h)

Spec == Init /\ [][Next]_vars

----------------------------------------------------------------------------
(* Safety *)

\* Every variable has its type; a seed that creates a department is at it.
TypeOK ==
  /\ DepartmentsTypeOK
  /\ place \in [Instance -> Place]
  /\ blind \subseteq Instance
  /\ has \subseteq SeedSteps
  /\ torn \in BOOLEAN
  /\ \A i \in Instance :
       doing[i] # Idle => /\ place[i] \in DepartmentSteps
                          /\ doing[i].op = "create"
                          /\ doing[i].name = place[i]

BeforeAdmin == {"levels", "types", "roles", "permissions", "viewers", "root", "extra"}

\* The start of an instance takes a user for a finished seed.  Whatever seeds
\* die or overlap, a user there is finds everything main makes before users:
\* levels, types, roles, permissions and a department of each name.
SeededBeforeUser ==
  "admin" \in has => /\ BeforeAdmin \subseteq has
                     /\ \A n \in DepartmentSteps : ~ Missing(n)

\* What a serving instance may lack, and why: everything when its count of
\* users failed; the admin's roles and the escalation policy while another
\* seed is on its way or, for good, after one died behind the admin user.
SeedGapsExplained ==
  \A i \in Instance : place[i] = "serving" =>
    \/ SeedSteps \subseteq has
    \/ i \in blind
    \/ "admin" \in has /\ (torn \/ \E j \in Instance : IsSeeding(j))

=============================================================================
