CONSTANTS
  None = None
  Request = {r1, r2, r3}
  Pool = 2
  Dist = {d1, d2}
SPECIFICATION FairSpec
CHECK_DEADLOCK FALSE
INVARIANTS TypeOK OnlyNestedReadsBlock
PROPERTY EveryRequestEnds
