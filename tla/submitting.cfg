\* One submission that is judged twice, two visits to the problem page, two faults.
CONSTANTS
  s1 = s1
  Submissions = {s1}
  MaxAttempts = 2
  Cooldown = 1
  MaxMounts = 2
  MaxRuns = 2
  MaxFaults = 2
SPECIFICATION FairSpec
INVARIANTS MissingRowsAreExplained OneSubmissionPerVisit BannerAgreesWithGrid
PROPERTIES VerdictIsShown
CHECK_DEADLOCK FALSE
