\* Two problems, one test case; lists and forms that answer late, two faults.
SPECIFICATION Spec
CONSTANTS
  p1 = p1
  p2 = p2
  t1 = t1
  t2 = t2
  Problems = {p1, p2}
  TestCases = {t1}
  MaxAttempts = 2
  MaxCalls = 2
  MaxMoves = 5
  MaxContests = 1
  MaxFaults = 2
INVARIANTS
  FormsAreOfTheirProblem
  ListedTestsExist
  
CHECK_DEADLOCK FALSE
