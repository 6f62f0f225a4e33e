SPECIFICATION Spec
CONSTANTS
  d1 = d1
  d2 = d2
  d3 = d3
  m1 = m1
  m2 = m2
  f1 = f1
  f2 = f2
  i1 = i1
  i2 = i2
  None = None
  Definitions <- TwoDefinitions
  ModuleOf <- TwoModuleOf
  FactoryOf <- TwoFactoryOf
  Versions = {v1}
  Builtin <- MCBuiltin
  Scopes <- MCScopes
  Root = "root"
  BuiltinScopes <- MCBuiltinScopes
  AgentScopes <- MCAgentScopes
  Ancestors <- MCAncestors
  Instances <- MCInstances
  Props = {"none", "p", "q"}
  NoProps = "none"
  JsonSafe <- JsonOnly
  Overrides = {"p", "q"}
  Faults = {"build", "package"}
INVARIANTS
  ComponentsAreRecorded
  
SYMMETRY InstanceSymmetry
