---------------------------- MODULE Departments ----------------------------
(***************************************************************************)
(* The departments: create, updateStatus and toggleStatus of               *)
(* src/src/departments/departments.service.ts.  Each looks first and       *)
(* writes in a later statement, without a transaction, and the name has no *)
(* unique constraint.  The seed (module Setup) creates its departments in  *)
(* the same two statements.                                                *)
(***************************************************************************)
EXTENDS Naturals, Sequences, FiniteSets

CONSTANTS
  None,     \* nothing
  Name,     \* names of departments, up to letter case
  Handler   \* requests and seeds that can be in progress at once

ASSUME DepartmentsAssumption ==
  /\ None \notin Name
  /\ IsFiniteSet(Handler)

VARIABLES
  rows,     \* the status of every department of a name, in the order of id
  doing     \* what each handler has found and is going to write

departmentVars == <<rows, doing>>

Activity == {"Active", "Inactive"}

Intent == [op : {"none", "create", "set"}, name : Name \cup {None}, row : Nat,
           status : Activity]

Idle == [op |-> "none", name |-> None, row |-> 0, status |-> "Active"]

\* The handlers that found no department of the name and will create it.
Creating(n) == {h \in Handler : doing[h].op = "create" /\ doing[h].name = n}

Missing(n) == rows[n] = << >>

----------------------------------------------------------------------------

DepartmentsInit ==
  /\ rows = [n \in Name |-> << >>]
  /\ doing = [h \in Handler |-> Idle]

\* Fault: the name is not looked up.
findNameNever(h, n, status) ==
  /\ doing[h] = Idle
  /\ doing' = [doing EXCEPT ![h] = [op |-> "create", name |-> n, row |-> 0, status |-> status]]
  /\ UNCHANGED rows

\* create looks the name up and refuses one that is there.
findName(h, n, status) ==
  /\ doing[h] = Idle
  /\ Missing(n)
  /\ doing' = [doing EXCEPT ![h] = [op |-> "create", name |-> n, row |-> 0, status |-> status]]
  /\ UNCHANGED rows

createDepartment(h) ==
  /\ doing[h].op = "create"
  /\ rows' = [rows EXCEPT ![doing[h].name] = Append(@, doing[h].status)]
  /\ doing' = [doing EXCEPT ![h] = Idle]

\* updateStatus finds the row, to set the status it was given.
updateStatus(h, n, k, status) ==
  /\ doing[h] = Idle
  /\ k \in DOMAIN rows[n]
  /\ doing' = [doing EXCEPT ![h] = [op |-> "set", name |-> n, row |-> k, status |-> status]]
  /\ UNCHANGED rows

Other(status) == IF status = "Active" THEN "Inactive" ELSE "Active"

\* toggleStatus is updateStatus with the other status than the one it found.
toggleStatus(h, n, k) ==
  k \in DOMAIN rows[n] /\ updateStatus(h, n, k, Other(rows[n][k]))

storeStatus(h) ==
  /\ doing[h].op = "set"
  /\ rows' = [rows EXCEPT ![doing[h].name][doing[h].row] = doing[h].status]
  /\ doing' = [doing EXCEPT ![h] = Idle]

handlerFails(h) ==
  /\ doing[h] # Idle
  /\ doing' = [doing EXCEPT ![h] = Idle]
  /\ UNCHANGED rows

DepartmentsNext(h) ==
  \/ \E n \in Name, status \in Activity : findName(h, n, status)
  \/ createDepartment(h)
  \/ \E n \in Name : \E k \in DOMAIN rows[n], status \in Activity : updateStatus(h, n, k, status)
  \/ \E n \in Name : \E k \in DOMAIN rows[n] : toggleStatus(h, n, k)
  \/ storeStatus(h)
  \/ handlerFails(h)

----------------------------------------------------------------------------

DepartmentsTypeOK ==
  /\ rows \in [Name -> Seq(Activity)]
  /\ doing \in [Handler -> Intent]
  /\ \A h \in Handler : doing[h].op # "none" => doing[h].name \in Name
  /\ \A h \in Handler : doing[h].op = "set" => doing[h].row \in DOMAIN rows[doing[h].name]

\* Find-or-create is not atomic: handlers and seeds that overlap may each
\* create a department of the same name.  There are never more of a name than
\* handlers at once: one that finds the name creates none.
DepartmentCopiesBounded ==
  \A n \in Name : Len(rows[n]) + Cardinality(Creating(n)) <= Cardinality(Handler)

=============================================================================
