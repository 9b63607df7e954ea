CONSTANTS
  None = None
  Name = {"root", "extra"}
  Handler = {a, b, h}
  Instance = {a, b}
  Request = {h}
SPECIFICATION Spec
CHECK_DEADLOCK FALSE
INVARIANTS
  TypeOK
  SeededBeforeUser
  SeedGapsExplained
  DepartmentCopiesBounded
