CONSTANTS
  i1 = i1
  i2 = i2
  i3 = i3
  w1 = w1
  NoIssue = NoIssue
  Issues = {i1, i2, i3}
  Workers = {w1}
  Names = {"todo", "cancelled", "done"}
  Targets = {"cancelled"}
  Entries <- MCEntries
  Assignees = {"nobody", "user"}
  Requests = {"create", "edit", "transition", "set_status", "close", "configure", "delete"}
  Faults = TRUE
SPECIFICATION Spec
INVARIANT Acyclic
PROPERTIES TerminalIsFinal WakeupsEarned
VIEW WithoutAsked
SYMMETRY IssuesAlike
CHECK_DEADLOCK FALSE
