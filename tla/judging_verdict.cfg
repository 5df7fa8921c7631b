\* A message is redelivered while its task runs: two runs of one submission overlap; one Docker error, one refused message, one deleted test case; one of three test cases fails its checksum.
CONSTANTS
  s1 = s1
  s2 = s2
  w1 = w1
  w2 = w2
  Submissions = {s1}
  Workers = {w1, w2}
  NumTests = 3
  Verifiable = {1, 3}
  Outcomes = {"ACCEPTED", "WRONG_ANSWER", "TIME_LIMIT_EXCEEDED"}
  Budget <- Overlapping
SPECIFICATION Spec
SYMMETRY Symmetry
INVARIANTS  FailureIsWitnessed RerunsAreExplained
PROPERTIES ResultsComeWithFinalStatus
CHECK_DEADLOCK FALSE
