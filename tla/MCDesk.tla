------------------------------- MODULE MCDesk -------------------------------
(* Small constants for Desk. *)
EXTENDS Desk

\* One set of thresholds: no reader looks at them.
Thresholds == [l \in Levels |-> l]

MCConfigs == {Thresholds}

\* Those who have work assigned belong to the registry.
MCDeptOf == [u \in User |-> "registry"]

MCDept == {"legal"}

\* No action and no property chooses among the records.
RecordsAlike == Permutations(Incoming)

MCPageSize == [kind \in {"desk", "records", "audit"} |-> IF kind = "audit" THEN 2 ELSE 1]

NoDue == {None}

=============================================================================
