CONSTANTS
  i1 = i1
  i2 = i2
  w1 = w1
  w2 = w2
  NoIssue = NoIssue
  Issues = {i1, i2}
  Workers = {w1, w2}
  Names = {"todo", "cancelled", "done"}
  Targets = {"cancelled"}
  Entries <- MCNone
  Assignees = {"nobody"}
  Requests = {"create", "edit", "transition"}
  Faults = FALSE
SPECIFICATION Spec
PROPERTY TerminalIsFinal
CHECK_DEADLOCK FALSE
