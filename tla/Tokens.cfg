CONSTANTS
  None = None
  User = {u1}
  Role = {r1}
  Perm = {p1}
  Fill = {f1}
  Admin = {a1}
  TTL = 2
  MaxTime = 3
  Client = {c1}
  TokenLife = 2
SPECIFICATION TokensSpec
INVARIANTS
  TokensTypeOK
  CacheIsCoherent
  GuardIsTimely
