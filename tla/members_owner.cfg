CONSTANTS
  u1 = u1
  u2 = u2
  Users = {u1, u2}
  NoUser = NoUser
  r1 = r1
  r2 = r2
  Handlers = {r1, r2}
  Keys = {"SP"}
  NoKey = "none"
  Requests = {"register", "invite", "setrole"}
  MaxWorkspaces = 2
  MaxInvites = 0
  MaxProjects = 0
  MaxTokens = 0
  MaxRequests = 5
  MaxMishaps = 0
SPECIFICATION Spec
SYMMETRY Interchangeable
PROPERTY LastOwnerStays
CHECK_DEADLOCK FALSE
