SPECIFICATION Spec
CONSTANTS
  Nobody = Nobody
  Torn = Torn
  AgentScopes = {"agent:x"}
  Pairs = {"mode=1", "token=1"}
  Numbers = {"1", "2"}
  Clients = {c1, c2}
  Requests = {r1, r2}
  Known = {"limit", "loop"}
  Keys = {"mode", "token"}
  Secrets = {"token"}
  Built <- MCBuilt
  Broken <- MCBroken
  KeyOf <- MCKeyOf
  NumberOf <- MCNumberOf
  Words <- MCWords
  MaxWords = 5
  Lines <- MCLines
  MaxAsked = 3
  MaxCrashes = 1
SYMMETRY Symmetry
INVARIANTS
  VersionsLostOnlyToOverlap
  StoredIsLive
  PaletteIsHonest
CHECK_DEADLOCK FALSE
