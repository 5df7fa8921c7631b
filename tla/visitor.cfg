\* A contest of two instants, two calls, three moves and two faults.
CONSTANTS
  Start = 1
  End = 2
  LinkEnds = 2
  MaxTime = 3
  Filters <- ThreeFilters
  Matches <- NinePages
  MaxAttempts = 2
  MaxCalls = 2
  MaxMoves = 3
  MaxFaults = 2
SPECIFICATION Spec
INVARIANTS OutcomesAreTrue   
CHECK_DEADLOCK FALSE
