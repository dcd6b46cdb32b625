SPECIFICATION Spec
CONSTANTS
  c1 = c1
  c2 = c2
  u1 = u1
  u2 = u2
  NoRun = NoRun
  Calls = {c1, c2}
  RunIds = {u1, u2}
  MaxPlanVersion = 5
  MaxRunVersion = 7
  Faults = {"adapter", "reread"}
SYMMETRY CallSymmetry
CHECK_DEADLOCK FALSE
INVARIANTS
  RollbackExclusion
