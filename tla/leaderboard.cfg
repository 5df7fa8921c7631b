\* Two contests, three versions of each board, two faults.
CONSTANTS
  c1 = c1
  c2 = c2
  Contests = {c1, c2}
  MaxReconnects = 1
  MaxVersion = 2
  MaxFaults = 2
SPECIFICATION Spec
INVARIANTS NothingIsLeftBehind  RankingsAreOfTheContest
CHECK_DEADLOCK FALSE
