SPECIFICATION DashboardSpec
CONSTANTS
  j1 = j1
  j2 = j2
  j3 = j3
  s1 = s1
  NONE = NONE
  Jobs = {j1, j2, j3}
  PastJobs = {j1}
  Scopes = {s1}
  ScopeOf <- MCScopeOf
  MaxGeneration = 2
CHECK_DEADLOCK FALSE
PROPERTIES
  CompletionIsRefreshed
