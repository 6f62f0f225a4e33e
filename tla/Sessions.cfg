SPECIFICATION Spec
CONSTANTS
  None = None
  c1 = c1
  c2 = c2
  s1 = s1
  s2 = s2
  Clients = {c1, c2}
  Agents = {"simple_agent", "other"}
  DefaultAgent = "simple_agent"
  SessionIds = {s1, s2}
  r1 = r1
  r2 = r2
  Requests = {r1, r2}
  MaxAsked = 3
  MaxCrashes = 1
SYMMETRY Symmetric
INVARIANTS
  TurnsAreCounted
  AgentsLostOnlyToOverlap
CHECK_DEADLOCK FALSE
