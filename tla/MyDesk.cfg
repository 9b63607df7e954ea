CONSTANTS
  None = None
  TicksPerMinute = 2
  DueSoonMinutes = 1
  Incoming = {i1, i2}
  DistId = {d1, d2}
  User = {u1}
  Request = {r1}
  StatusChoices = {"Escalated"}
  DueChoices = {0}
  DueEdits <- NoDue
  Configs <- MCConfigs
  DefaultConfig <- Thresholds
  MaxTime = 1
  MaxLog = 1
  Dept = {"legal", "registry"}
  DeptOf <- MCDeptOf
  Viewers <- MCDept
  ScopeChoices = {"all", "overdue"}
  PageSize <- MCPageSize
  DayTicks = 1
  LastDays = 2
  MonthDays = 1
SPECIFICATION Spec
CHECK_DEADLOCK FALSE
INVARIANT AssignedIsOnDesk
