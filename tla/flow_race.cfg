CONSTANTS
  i1 = i1
  w1 = w1
  w2 = w2
  NoIssue = NoIssue
  Issues = {i1}
  HasParent = {i1}
  Workers = {w1,w2}
  Members = {w1,w2}
  N = 2
  PlanSize = 2
  Inputs = {"text", "plan", "pass", "fail"}
  MaxRows = 4
  MaxSubs = 4
  ListScans = TRUE
  Faults = TRUE
SPECIFICATION Spec
INVARIANTS TypeOK PhaseBacked PhaseHandedOff ArchivedWithEvidence WakeupEarned
  PlansBoundWhole
CONSTRAINT SecondPlans
SYMMETRY WorkersAlike
CHECK_DEADLOCK FALSE
