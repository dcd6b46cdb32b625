SPECIFICATION SystemSpec
CONSTANTS
  j1 = j1
  j2 = j2
  w1 = w1
  w2 = w2
  m1 = m1
  m2 = m2
  r1 = r1
  r2 = r2
  s1 = s1
  s2 = s2
  Jobs = {j1}
  Workers = {w1}
  Messages = {m1}
  Requests = {r1}
  Scopes = {s1}
  MaxReceiveCount = 2
  VisibilityTimeout = 1
  MaxDuplicates = 0
  Lease = 1
  LambdaTimeout = 0
  StaleTables = {}
  AccountMayChange = FALSE
  PartialRuns = FALSE
  Faults = {}
  ProducerFaults = {}
CHECK_DEADLOCK FALSE
INVARIANTS
  LostClaimIsReconciled
