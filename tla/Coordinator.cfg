SPECIFICATION CoordinatorSpec
CONSTANTS
  dt = dt
  do = do
  da = da
  i1 = i1
  i2 = i2
  i3 = i3
  None = None
  Definitions <- MCDefinitions
  ModuleOf <- MCModuleOf
  FactoryOf <- MCModuleOf
  Versions = {v1}
  Builtin = {}
  Scopes <- MCScopes
  Root = "root"
  BuiltinScopes <- MCBuiltinScopes
  AgentScopes <- MCAgentScopes
  Ancestors <- MCAncestors
  Instances <- ThreeInstances
  Props = {"none", "exports", "text"}
  NoProps = "none"
  JsonSafe <- MCJsonSafe
  Overrides = {}
  Contributions = {"tools", "own"}
  DefOf <- MCDefOf
  ScopeOf <- MCScopeOf
  Exporting <- OnlyTools
  AdapterDef = da
  AdapterScope <- MCAdapterScope
  AdapterProps = "exports"
  Settings = {"none"}
  Keys = {"k"}
  Releases = {"1", "2"}
  Faults = {"save", "build", "crash"}
SYMMETRY ThreeSymmetry
INVARIANTS
  UniqueKeyedRegistration
  RegistrationsAgree
  AdaptersServeEnabled
PROPERTIES
  PluginNeverLost
