CONSTANTS
  None = None
  TicksPerMinute = 1
  DueSoonMinutes = 1
  Incoming = {i1}
  DistId = {d1}
  User = {admin}
  Admin = admin
  Request = {r1}
  Scan = {s1}
  StatusChoices = {"Closed"}
  DueChoices <- DueNow
  DueEdits <- NoEdits
  Configs <- OneConfig
  DefaultConfig <- QuickConfig
  MaxTime = 2
  MaxLog = 1
SPECIFICATION Spec
CHECK_DEADLOCK FALSE
PROPERTY WorkerLeavesClosedAlone
