\* Two participants, one problem; a request races with judges, expiry and one Redis error.
CONSTANTS
  u1 = u1
  u2 = u2
  p1 = p1
  p2 = p2
  c1 = c1
  c2 = c2
  Users = {u1, u2}
  Problems = {p1}
  Clients = {c1}
  Rule = "ACM"
  Start = 1
  FreezeAt = 2
  End = 3
  EndedTtl = 2
  MaxSubmissions = 2
  MaxJudgings = 2
  MaxRedisErrors = 1
SPECIFICATION CacheSpec
INVARIANTS  AudiencesAreKeptApart BoardsAreFair
CHECK_DEADLOCK FALSE
