\* Two requests of any kind to one contest, interleaved in every way, with fairness.
CONSTANTS
  r1 = r1
  r2 = r2
  u1 = u1
  u2 = u2
  p1 = p1
  p2 = p2
  c0 = c0
  t = t
  Requests = {r1, r2}
  Existing = {c0}
  Users = {u1}
  Titles = {t}
  ProblemLists <- ShortLists
SPECIFICATION LiveSpec
INVARIANTS UniqueKeys NoOrphans SubmittersAreParticipants
PROPERTIES ErrorsAreExplained ImplementsRegistration EveryRequestEnds
CHECK_DEADLOCK FALSE
