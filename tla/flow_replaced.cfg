CONSTANTS
  i1 = i1
  w1 = w1
  w2 = w2
  NoIssue = NoIssue
  Issues = {i1}
  HasParent = {i1}
  Workers = {w1,w2}
  Members = {w1,w2}
  N = 2
  PlanSize = 1
  Inputs = {"plan", "garbled"}
  MaxRows = 4
  MaxSubs = 2
  ListScans = TRUE
  Faults = FALSE
SPECIFICATION Spec
INVARIANT MappingReplaced
CHECK_DEADLOCK FALSE
