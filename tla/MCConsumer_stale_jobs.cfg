SPECIFICATION Spec
CONSTANTS
  j1 = j1
  w1 = w1
  w2 = w2
  m1 = m1
  m2 = m2
  Jobs = {j1}
  Workers = {w1, w2}
  Messages = {m1}
  MaxReceiveCount = 2
  VisibilityTimeout = 3
  MaxDuplicates = 1
  Lease = 2
  LambdaTimeout = 1
  StaleTables = {"jobs", "reports"}
  AccountMayChange = FALSE
  PartialRuns = FALSE
  Faults = {"engine", "crash", "accountRead"}
SYMMETRY WorkerSymmetry
CHECK_DEADLOCK FALSE
INVARIANTS
  FailureIsJustified
PROPERTIES
  JobNeverRestarts
  ImplementsLifecycle
