CONSTANTS
  None = None
  TicksPerMinute = 1
  DueSoonMinutes = 1
  Incoming = {i1}
  DistId = {d1, d2}
  User = {admin, u1}
  Admin = admin
  Request = {r1}
  Scan = {s1, s2}
  StatusChoices = {"Closed"}
  DueChoices <- DueNow
  DueEdits <- LaterEdit
  Configs <- OneConfig
  DefaultConfig <- QuickConfig
  MaxTime = 2
  MaxLog = 1
SPECIFICATION NoticesSpec
CHECK_DEADLOCK FALSE
CONSTRAINT OverlapIsSmall
SYMMETRY RecordSymmetry
INVARIANTS EscalatedIsNotified EveryChangeAudited SilenceIsExplained NoticeCopiesBounded
