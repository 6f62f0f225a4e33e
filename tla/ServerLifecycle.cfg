SPECIFICATION FairSpec
CONSTANTS
  c1 = c1
  c2 = c2
  s1 = s1
  s2 = s2
  Dead = Dead
  None = None
  Clients <- MCClients
  Servers <- MCServers
  ByHand <- MCByHand
  Faults = {"cli", "server"}
INVARIANTS
  TimerRunsWhenUnused
  LifelineIsCounted
  LockIsInUse
PROPERTIES
  ExitsOnlyUnused
  ServersEventuallyExit
  StartUpEnds
  StaleLockIsBroken
