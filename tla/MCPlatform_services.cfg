SPECIFICATION PlatformSpec
CONSTANTS
  s1 = s1
  u1 = u1
  u2 = u2
  i1 = i1
  c1 = c1
  c2 = c2
  a1 = a1
  w1 = w1
  t1 = t1
  t2 = t2
  Users = {u1, u2}
  Invitations = {i1}
  MembershipCalls = {c1, c2}
  TenantRoles = {"tenant_owner"}
  NO_ONE = NO_ONE
  MaxMemberVersion = 3
  TenantIds = {t1}
  Slugs = {s1}
  Owners = {u1, u2}
  TenantCalls = {c1, c2}
  NOBODY = NOBODY
  MaxTenantVersion = 5
  Tenants = {t1, t2}
  AccountIds = {a1}
  AccountCalls = {c1, c2}
  ACCOUNT_NONE = ACCOUNT_NONE
  MaxConnectionVersion = 8
  Workflows = {w1}
  WorkflowCalls = {c1, c2}
  NO_WORKFLOW = NO_WORKFLOW
  NumAnalysisRuns = 2
  MaxTimestamp = 3
  NoRun = NoRun
  Calls = {c1, c2}
  RunIds = {u1, u2}
  MaxPlanVersion = 5
  MaxRunVersion = 7
  Faults = {"adapter", "repository", "actionLog", "crash"}
SYMMETRY Symmetry
VIEW View
CHECK_DEADLOCK FALSE
INVARIANTS
  PlatformTypeOK
  AcceptanceIsAccountedFor
  StampedMembershipIsEarned
  BootstrappedWasActive
  ValidationExclusion
  AnswersAreTrue
  CheckpointKeepsUp
  ResultsAreSound
  MissingIsAbsence
  ExecutionTypeOK
  ChangeIsAuthorised
  OneRun
  RollbackExclusion
  PlanTellsOutcome
PROPERTIES
  OneBootstrap
  RemovedStaysUnlessNamed
  LifecycleRespected
  OnboardedOwnerIsAligned
  VerifiedWasValidated
  ImplementsAccountLifecycle
  ImplementsWorkflowLifecycle
  ImplementsGovernedChange
