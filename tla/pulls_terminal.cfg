CONSTANTS
  p1 = p1
  h1 = h1
  h2 = h2
  NoPR = NoPR
  PRs = {p1}
  Texts <- MCTexts
  Handlers = {h1, h2}
  Requests = {"upsert", "edit"}
  Numbers = {1, 2}
  MaxIssues = 1
  MaxRequests = 2
  MaxMishaps = 0
SPECIFICATION Spec
PROPERTY TerminalUntouched
SYMMETRY Interchangeable
CHECK_DEADLOCK FALSE
