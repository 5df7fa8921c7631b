\* SDD 5.14.2, a QUEUED submission is in the broker.
CONSTANTS
  s1 = s1
  s2 = s2
  w1 = w1
  w2 = w2
  Submissions = {s1}
  Workers = {w1}
  NumTests = 1
  Verifiable = {1}
  Outcomes = {"ACCEPTED"}
  Budget <- NoBroker
SPECIFICATION Spec
INVARIANTS QueuedIsInTheBroker
CHECK_DEADLOCK FALSE
