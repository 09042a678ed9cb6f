CONSTANTS
  a1 = a1
  l1 = l1
  i1 = i1
  s1 = s1
  s2 = s2
  r1 = r1
  r2 = r2
  Agents = {a1, l1}
  Issues = {i1}
  Servers = {s1, s2}
  Runtimes = {r1, r2}
  LocalAgent = l1
  AgentOf <- MCAgentOf
  MaxRuns = 3
  MaxFaults = 1
SPECIFICATION FairSpec
INVARIANTS TypeOK Exclusive
PROPERTIES KeepsPromise ServerRunsStart
CHECK_DEADLOCK FALSE
