CONSTANTS
  i1 = i1
  w1 = w1
  NoIssue = NoIssue
  Issues = {i1}
  HasParent = {i1}
  Workers = {w1}
  Members = {w1}
  N = 2
  PlanSize = 1
  Inputs = {"text", "plan", "garbled", "pass", "fail"}
  MaxRows = 4
  MaxSubs = 1
  ListScans = FALSE
  Faults = FALSE
SPECIFICATION Spec
INVARIANT GuardSeesArtifacts
CHECK_DEADLOCK FALSE
