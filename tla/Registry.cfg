CONSTANTS
  None = None
  Year <- TwoYears
  FirstYear = 1
  Name = {n1}
  Doc = {d1, d2, d3, d4}
  Registrar = {g1, g2, g3}
SPECIFICATION Spec
CHECK_DEADLOCK FALSE
INVARIANTS
  TypeOK
  PartyCopiesBounded
PROPERTIES
  ImplementsIncomingBook
  ImplementsOutgoingBook
