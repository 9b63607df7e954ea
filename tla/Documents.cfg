CONSTANTS
  Nothing = Nothing
  File = {f1, f2, f3, f4}
  Delivery = {h1, h2}
SPECIFICATION DocumentsSpec
CHECK_DEADLOCK FALSE
INVARIANTS
  DocumentsTypeOK
  LatestIsNewest
  TrailTellsDelivery
  HiddenFilesExplained
  NextVersionIsFree
