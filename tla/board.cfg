CONSTANTS
  i1 = i1
  i2 = i2
  i3 = i3
  w1 = w1
  w2 = w2
  NoIssue = NoIssue
  Issues = {i1, i2, i3}
  Workers = {w1, w2}
  Names = {"todo", "in_progress", "cancelled", "done"}
  Targets = {"in_progress", "cancelled"}
  Entries <- MCNone
  Assignees = {"agent"}
  Requests = {"create", "transition"}
  Faults = FALSE
SPECIFICATION Spec
INVARIANTS TypeOK LastChildWakes
SYMMETRY AllAlike
CHECK_DEADLOCK FALSE
