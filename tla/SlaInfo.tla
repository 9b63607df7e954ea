------------------------------ MODULE SlaInfo ------------------------------
(***************************************************************************)
(* The pure functions that read a distribution's deadline:                 *)
(*   - computeTargetLevel of the SLA worker (src/src/worker.ts), and       *)
(*   - computeSlaInfo of the API (src/src/sla/sla.util.ts).                *)
(* Instants are natural numbers of ticks.  A minute is TicksPerMinute      *)
(* ticks, so that the rounding to minutes of computeSlaInfo is visible.    *)
(***************************************************************************)
EXTENDS Integers, FiniteSetsExt

CONSTANTS
  None,             \* null
  TicksPerMinute,   \* how finely the model sees a minute
  DueSoonMinutes    \* 60 * 4 in computeSlaInfo

ASSUME SlaInfoAssumption ==
  /\ None \notin Nat
  /\ TicksPerMinute \in Nat \ {0}
  /\ DueSoonMinutes \in Nat

DueAt == Nat \cup {None}

\* DistributionStatus.
Status == {"Open", "InProgress", "Closed", "Escalated"}

SlaStatus == {"NoSla", "OnTrack", "DueSoon", "Overdue"}

\* The escalation levels L1 .. L4 of SlaSettings.
Levels == 1 .. 4

\* escalateL1Minutes .. escalateL4Minutes.  validateAndNormalize bounds each
\* one on its own: nothing orders them among themselves.
SlaConfig == [Levels -> Nat \ {0}]

----------------------------------------------------------------------------

LevelsReached(due, cfg, now) ==
  {l \in Levels : now - due >= cfg[l] * TicksPerMinute}

\* The last satisfied threshold wins; 0 means "do not escalate".
computeTargetLevel(due, cfg, now) ==
  IF due = None \/ now <= due
  THEN 0
  ELSE Max({0} \cup LevelsReached(due, cfg, now))

\* The deadline half of runScan's where clause: dueAt not null, dueAt < now.
IsPastDue(due, now) == due # None /\ due < now

\* Math.round((due - now) / 60000): halves are rounded upwards.
minutesToDue(due, now) ==
  (2 * (due - now) + TicksPerMinute) \div (2 * TicksPerMinute)

\* Fault: overdue from the deadline on.
computeSlaStatusInclusive(status, due, now) ==
  IF due = None
  THEN "NoSla"
  ELSE IF minutesToDue(due, now) <= 0 THEN "Overdue" ELSE "OnTrack"

\* The status field of computeSlaInfo.  A closed distribution is measured
\* against the time of the call, not against the time it was closed.
computeSlaStatus(status, due, now) ==
  IF due = None
  THEN "NoSla"
  ELSE LET left == minutesToDue(due, now)
       IN CASE left < 0 -> "Overdue"
            [] left >= 0 /\ (status = "Closed" \/ left > DueSoonMinutes) -> "OnTrack"
            [] OTHER -> "DueSoon"

============================================================================
