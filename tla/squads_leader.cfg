CONSTANTS
  u1 = u1
  u2 = u2
  a1 = a1
  i1 = i1
  h1 = h1
  h2 = h2
  NoUser = NoUser
  NoIssue = NoIssue
  Humans = {u1, u2}
  Agents = {a1}
  Members = {u1, u2}
  Issues = {i1}
  Handlers = {h1, h2}
  Requests = {"squad", "leader", "member", "remove"}
  MaxSquads = 1
  MaxRequests = 4
  MaxMishaps = 0
SPECIFICATION Spec
PROPERTY LeaderStays
SYMMETRY Interchangeable
CHECK_DEADLOCK FALSE
