SPECIFICATION Spec
CONSTANTS
  a1 = a1
  a2 = a2
  m1 = m1
  m2 = m2
  None = None
  Agents <- MCAgents
  DefaultAgent = a1
  Models <- MCModels
  Providers <- MCProviders
  Configs <- MCConfigs
  Requests <- MCOne
  Copies <- MCCopies
  Faults = {"create"}
INVARIANTS
  NothingLeaks
  GoneAgentsRunNothing
  MaterializedIsServed
  SetFollowsConfig
PROPERTIES
  VisitCompletes
  FailedAgentsAreLeftAlone
