CONSTANTS
  u1 = u1
  u2 = u2
  a1 = a1
  i1 = i1
  h1 = h1
  h2 = h2
  h3 = h3
  NoUser = NoUser
  NoIssue = NoIssue
  Humans = {u1, u2}
  Agents = {a1}
  Members = {u1, u2}
  Issues = {i1}
  Handlers = {h1, h2, h3}
  Requests = {"agent", "drop", "squad", "leader", "member", "remove", "disband", "edit"}
  MaxSquads = 1
  MaxRequests = 5
  MaxMishaps = 1
SPECIFICATION Spec
INVARIANTS TypeOK RowsRefer AgentHears LeaderEnlisted
SYMMETRY Interchangeable
CHECK_DEADLOCK FALSE
