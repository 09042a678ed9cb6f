CONSTANTS
  p1 = p1
  h1 = h1
  h2 = h2
  NoPR = NoPR
  PRs = {p1}
  Texts <- MCTexts
  Handlers = {h1, h2}
  Requests = {"upsert", "state", "edit"}
  Numbers = {1, 2}
  MaxIssues = 2
  MaxRequests = 3
  MaxMishaps = 1
SPECIFICATION Spec
INVARIANTS TypeOK LinksFollowText MergeCloses
SYMMETRY Interchangeable
CHECK_DEADLOCK FALSE
