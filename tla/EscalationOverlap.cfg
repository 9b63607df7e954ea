CONSTANTS
  None = None
  TicksPerMinute = 1
  DueSoonMinutes = 1
  Incoming = {i1}
  DistId = {d1}
  User = {admin}
  Admin = admin
  Request = {r1}
  Scan = {s1, s2}
  StatusChoices = {"Open", "Closed"}
  DueChoices <- DueNow
  DueEdits <- LaterEdit
  Configs <- OneConfig
  DefaultConfig <- QuickConfig
  MaxTime = 2
  MaxLog = 1
SPECIFICATION NoticesSpec
CHECK_DEADLOCK FALSE
SYMMETRY ScanSymmetry
INVARIANTS TypeOK RowMatchesLog EscalationsRise
