CONSTANTS
  None = None
  TicksPerMinute = 2
  DueSoonMinutes = 1
  Incoming = {i1, i2}
  DistId = {d1, d2}
  User = {}
  Request = {r1}
  StatusChoices = {"Escalated"}
  DueChoices = {0}
  DueEdits <- NoDue
  Configs <- MCConfigs
  DefaultConfig <- Thresholds
  MaxTime = 1
  MaxLog = 1
  Dept <- MCDept
  DeptOf <- MCDeptOf
  Viewers <- MCDept
  ScopeChoices = {"all", "overdue"}
  PageSize <- MCPageSize
  DayTicks = 1
  LastDays = 2
  MonthDays = 1
SPECIFICATION Spec
SYMMETRY RecordsAlike
CHECK_DEADLOCK FALSE
INVARIANTS
  TypeOK
  WalkMissesNothing
  OverviewCoheres
  TimelineAuditsWhatItLogs
  ViewsAgree
