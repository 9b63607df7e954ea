CONSTANTS
  None = None
  Ip = {ip1}
  UserMax = 0
  IpMax = 0
  Window = 1
  MaxUnread = 1
  Password = {p1, t1}
  Temp = {t1}
  Login = {l1, l2}
  Form = {f1, f2}
  Link = {k1}
  IsSystem = FALSE
  MaxFailed = 2
  LockTime = 1
  LinkTime = 1
  MaxTime = 1
  MaxCount = 3
SYMMETRY HandlerSymmetry
CONSTRAINT NotBoth
SPECIFICATION Spec
CHECK_DEADLOCK FALSE
INVARIANTS
  TypeOK
  ThrottleOverrunBounded
  CountIsExact
  FailureLeavesCount
  OldPasswordIsRefused
  LinkUsesBounded
PROPERTY LockIsKept
