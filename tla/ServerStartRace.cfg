SPECIFICATION Spec
CONSTANTS
  c1 = c1
  c2 = c2
  s1 = s1
  s2 = s2
  Dead = Dead
  None = None
  Clients <- MCClients
  Servers <- MCServers
  ByHand <- MCByHand
  Faults = {}
INVARIANTS
  OneServerStarted
