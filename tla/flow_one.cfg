CONSTANTS
  i1 = i1
  w1 = w1
  NoIssue = NoIssue
  Issues = {i1}
  HasParent = {i1}
  Workers = {w1}
  Members = {w1}
  N = 3
  PlanSize = 1
  Inputs = {"text", "plan", "pass", "fail"}
  MaxRows = 6
  MaxSubs = 1
  ListScans = TRUE
  Faults = TRUE
SPECIFICATION Spec
PROPERTIES ArchivedOnOpenGates ShutGateStaysShut KeepsPromise
CHECK_DEADLOCK FALSE
