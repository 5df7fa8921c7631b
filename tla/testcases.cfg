\* Three requests of any kind about the test cases of a problem, interleaved in every way.
CONSTANTS
  r1 = r1
  r2 = r2
  r3 = r3
  Requests = {r1, r2, r3}
  MaxPairs = 2
SPECIFICATION Spec
SYMMETRY Symmetry
INVARIANTS NoOrphans MixturesAreExplained
PROPERTIES UploadReplacesAll HistoryStays
CHECK_DEADLOCK FALSE
