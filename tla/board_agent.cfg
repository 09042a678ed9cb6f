CONSTANTS
  i1 = i1
  i2 = i2
  w1 = w1
  NoIssue = NoIssue
  Issues = {i1, i2}
  Workers = {w1}
  Names = {"todo", "cancelled", "done"}
  Targets = {"cancelled"}
  Entries <- MCNone
  Assignees = {"nobody"}
  Requests = {"create", "set_status"}
  Faults = FALSE
SPECIFICATION Spec
INVARIANT LastChildWakes
SYMMETRY IssuesAlike
CHECK_DEADLOCK FALSE
