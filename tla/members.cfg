CONSTANTS
  u1 = u1
  u2 = u2
  Users = {u1, u2}
  NoUser = NoUser
  r1 = r1
  r2 = r2
  Handlers = {r1, r2}
  Keys = {"SP"}
  NoKey = "none"
  Requests = {"register", "project", "enrol", "invite", "revoke", "redeem", "setrole", "token"}
  MaxWorkspaces = 2
  MaxInvites = 1
  MaxProjects = 1
  MaxTokens = 1
  MaxRequests = 6
  MaxMishaps = 1
SPECIFICATION Spec
SYMMETRY Interchangeable
INVARIANTS TypeOK OneJoinPerInvite CreatorInside EveryoneHasAHome
CHECK_DEADLOCK FALSE
