\* A frozen board shows what was submitted after the freeze.
CONSTANTS
  u1 = u1
  u2 = u2
  p1 = p1
  p2 = p2
  c1 = c1
  c2 = c2
  Users = {u1}
  Problems = {p1}
  Clients = {c1}
  Rule = "ACM"
  Start = 0
  FreezeAt = 1
  End = 2
  EndedTtl = 2
  MaxSubmissions = 1
  MaxJudgings = 0
  MaxRedisErrors = 0
SPECIFICATION CacheSpec
INVARIANTS FrozenBoardHidesLateSubmissions
CHECK_DEADLOCK FALSE
