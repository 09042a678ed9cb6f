CONSTANTS
  u1 = u1
  u2 = u2
  a1 = a1
  a2 = a2
  i1 = i1
  s1 = s1
  s2 = s2
  h1 = h1
  h2 = h2
  f1 = f1
  k1 = k1
  New = New
  NoUser = NoUser
  NoIssue = NoIssue
  NoFile = NoFile
  Humans = {u1, u2}
  Agents = {a1, a2}
  Issues = {i1}
  Servers = {s1, s2}
  Handlers = {h1, h2}
  Files = {f1}
  Keys = {k1}
  Names <- MCNames
  DisplayName <- MCDisplayName
  Texts <- MCTexts
  MaxRequests = 2
  MaxMishaps = 1
SPECIFICATION Spec
INVARIANT OnlyHumansTold
CONSTRAINT Apart
SYMMETRY Interchangeable
CHECK_DEADLOCK FALSE
