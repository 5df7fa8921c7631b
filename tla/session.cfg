\* Two tabs and three calls of any kind; two logins, tokens that expire, one fault.
CONSTANTS
  t1 = t1
  t2 = t2
  r1 = r1
  r2 = r2
  Tabs = {t1, t2}
  Requests = {r1, r2}
  MaxAttempts = 2
  MaxCalls = 3
  MaxSessions = 2
  MaxTokens = 3
  MaxFaults = 1
SPECIFICATION FairSessionSpec
PROPERTIES CallsEndOrWaitForARefresh
INVARIANTS OneRefreshPerTab EndedSessionsStayEnded TokenIsTheUsers RepeatsFollowFaults
CHECK_DEADLOCK FALSE
