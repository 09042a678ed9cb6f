CONSTANTS
  i1 = i1
  w1 = w1
  w2 = w2
  NoIssue = NoIssue
  Issues = {i1}
  HasParent = {i1}
  Workers = {w1,w2}
  Members = {w1}
  N = 2
  PlanSize = 1
  Inputs = {"text", "plan", "garbled", "pass", "fail"}
  MaxRows = 4
  MaxSubs = 1
  ListScans = TRUE
  Faults = FALSE
SPECIFICATION FairSpec
INVARIANT ArchiveBeingTold
PROPERTY ArchiveNotifies
CHECK_DEADLOCK FALSE
