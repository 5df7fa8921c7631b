\* Two test cases, one lost worker, one database error and one rejudge request: what must eventually happen.
CONSTANTS
  s1 = s1
  s2 = s2
  w1 = w1
  w2 = w2
  Submissions = {s1}
  Workers = {w1, w2}
  NumTests = 2
  Verifiable = {1, 2}
  Outcomes = {"ACCEPTED", "WRONG_ANSWER"}
  Budget <- CrashAndDb
SPECIFICATION FairSpec
INVARIANTS LeaksAreExplained AtLeastOnce
PROPERTIES  EventuallyJudged
CHECK_DEADLOCK FALSE
