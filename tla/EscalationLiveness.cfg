CONSTANTS
  None = None
  TicksPerMinute = 1
  DueSoonMinutes = 1
  Incoming = {i1}
  DistId = {d1}
  User = {admin}
  Admin = admin
  Request = {r1}
  Scan = {s1}
  StatusChoices = {"Open", "Closed"}
  DueChoices <- DueOrNever
  DueEdits <- NoEdits
  Configs <- OneConfig
  DefaultConfig <- QuickConfig
  MaxTime = 2
  MaxLog = 2
SPECIFICATION FairSpec
CHECK_DEADLOCK FALSE
INVARIANT EscalationIsEarned
PROPERTY LateIsEscalated
