---------------------------- MODULE PluginManager ----------------------------
(***************************************************************************)
(* The plugin manager of langharness: installed plugin definitions, plugin *)
(* instances, the iPOPO components behind them, the scopes they live in    *)
(* and the snapshot that brings them back after a restart.                 *)
(*                                                                         *)
(* Every mutating method holds the manager's RLock from its first read to  *)
(* its last write, and writes the store at most once; so each is one       *)
(* action here, and a crash inside a method is a crash before or after it. *)
(* What can go wrong inside a method is in its parameters: "saved" says    *)
(* whether the store accepted the snapshot (it refuses on an I/O error and *)
(* when another process has written since), "built" whether iPOPO built    *)
(* the component (the plugin's constructor may raise, its contract may be  *)
(* violated). Faults says which failures a run allows.                     *)
(*                                                                         *)
(* A call that raises before it has changed anything is no step.           *)
(***************************************************************************)

CONSTANTS
  Definitions,    \* plugin descriptors, by their key (module, factory)
  ModuleOf,       \* Definitions -> module: the Python module with the factory
  FactoryOf,      \* Definitions -> factory: the iPOPO component factory
  Versions,       \* versions a plugin's package can have
  Builtin,        \* the definitions installed by the start-up assembly
  Scopes, Root,   \* scope ids a run may create, and the root of the tree
  BuiltinScopes,  \* scopes seeded by start()
  AgentScopes,    \* the scopes "agent:<id>", whose instances are derived state
  Ancestors,      \* Scopes -> its path to the root, the scope itself included
  Instances,      \* instance UUIDs: their number bounds the instances of a run
  Props, NoProps, \* user property dictionaries, and the empty one
  JsonSafe,       \* Props -> what the snapshot keeps of them: an object in
                  \* them becomes its repr, JSON values are kept as they are
  Overrides,      \* the properties an applied configuration may carry
  None,           \* no value: a key that is absent from a dictionary
  Faults          \* the failures a run allows: "save", "build", "package" and,
                  \* for compositions, "crash" between two steps of an operation

Modules   == {ModuleOf[d] : d \in Definitions}
Factories == {FactoryOf[d] : d \in Definitions}

ASSUME ConstantsAssumption ==
  /\ ModuleOf \in [Definitions -> Modules]
  /\ FactoryOf \in [Definitions -> Factories]
  /\ Builtin \subseteq Definitions
  /\ Root \in BuiltinScopes /\ BuiltinScopes \subseteq Scopes
  /\ AgentScopes \subseteq Scopes \ BuiltinScopes
  /\ NoProps \in Props /\ Overrides \subseteq Props
  /\ JsonSafe \in [Props -> Props]
  /\ None \notin Versions \union Props \union Definitions

\* Ancestors describes a tree: paths start at the scope, end at the root and
\* contain the path of every scope on them.
ASSUME TreeAssumption ==
  /\ Ancestors \in [Scopes -> SUBSET Scopes]
  /\ \A s \in Scopes : s \in Ancestors[s] /\ Root \in Ancestors[s]
  /\ \A s \in Scopes : \A t \in Ancestors[s] : Ancestors[t] \subseteq Ancestors[s]
  /\ \A s \in BuiltinScopes : Ancestors[s] \subseteq BuiltinScopes
  /\ \A s \in Scopes : \A t \in Ancestors[s] : s \in Ancestors[t] => s = t

ASSUME FaultsAssumption == Faults \subseteq {"save", "build", "package", "crash"}

Status == {"active", "disabled", "failed"}

Record == [def: Definitions, scope: Scopes, props: Props,
           enabled: BOOLEAN, status: Status]

ASSUME RecordAssumption == None \notin Record

VARIABLES
  phase,           \* the server process: "down", "up", or "aborted" in start-up
  packaged,        \* external: version of each plugin in the environment
  plugins,         \* _plugins: version of the installed descriptor
  registry,        \* PluginRegistry: factory -> definition
  bundles,         \* _bundles: modules whose bundle is loaded
  module_refs,     \* _module_refs: module -> definitions that need its bundle
  scopes,          \* scope_tree
  instances,       \* _instances: UUID -> record
  user_properties, \* _user_properties: UUID -> user part of the properties
  components,      \* external: iPOPO's components, by name, with properties
  store            \* the RuntimeStateStore: the last snapshot saved

definitionVars == <<plugins, registry, bundles, module_refs>>
instanceVars   == <<instances, user_properties, components>>
memory         == <<definitionVars, instanceVars, scopes>>
vars           == <<phase, packaged, definitionVars, scopes, instanceVars, store>>

-----------------------------------------------------------------------------
(* Helpers *)

Installed   == {d \in Definitions : plugins[d] # None}
Recorded    == {i \in Instances : instances[i] # None}
Living(i)   == components[i] # None
Active(i)   == instances[i].status = "active"
\* Mutant: instances that do not run are overlooked.
LivingInstancesOf(d) == {i \in Recorded : instances[i].def = d /\ Living(i)}

InstancesOf(d) == {i \in Recorded : instances[i].def = d}

\* scope_tree.descendants(s), with s itself
Subtree(s)  == {t \in scopes : s \in Ancestors[t]}

\* user.update(properties): an empty override leaves the stored properties
Merge(old, new) == IF new = NoProps THEN old ELSE new

UserOf(i) == IF user_properties[i] = None THEN NoProps ELSE user_properties[i]

May(ok, fault) == ok \/ fault \in Faults

\* _json_safe over the properties of a PluginInstanceRecord
Saved(r) == IF r = None THEN None ELSE [r EXCEPT !.props = JsonSafe[@]]

\* Mutant: disabled and failed instances are not worth saving.
SnapshotOfActive(S, P, I) ==
  [scopes |-> S, plugins |-> P, instances |-> [i \in Instances |->
    IF I[i] = None \/ I[i].status # "active" THEN None ELSE Saved(I[i])]]

Snapshot(S, P, I) ==
  [scopes |-> S, plugins |-> P, instances |-> [i \in Instances |-> Saved(I[i])]]

EmptySnapshot ==
  Snapshot({}, [d \in Definitions |-> None], [i \in Instances |-> None])

\* Mutant: a refused save leaves no snapshot behind.
PersistTorn(ok) ==
  /\ May(ok, "save")
  /\ store' = IF ok THEN Snapshot(scopes', plugins', instances') ELSE None

\* Mutant: the snapshot is saved before the memory has changed.
PersistFirst(ok) ==
  /\ May(ok, "save")
  /\ store' = IF ok THEN Snapshot(scopes, plugins, instances) ELSE store

\* _persist_state: replace the stored snapshot with one of the memory, which
\* the caller has brought up to date; a refused save leaves the store alone.
\* PersistState(ok) must follow the assignments to the primed memory.
PersistState(ok) ==
  /\ May(ok, "save")
  /\ store' = IF ok THEN Snapshot(scopes', plugins', instances') ELSE store

-----------------------------------------------------------------------------
(* Definitions *)

\* Mutant: the last reference is not waited for.
UnloadAlways(refs, m) == bundles \ {m}

\* _unload_bundle_if_unused, for the references left to the module
UnloadIfUnused(refs, m) == IF refs[m] = {} THEN bundles \ {m} ELSE bundles

\* install_descriptor / install_plugin -> _install_definition. The same
\* descriptor again is a no-op, another module's factory a refusal. When the
\* snapshot is refused, _rollback_definition undoes the installation and
\* unloads the bundle that nothing else refers to.
Install(d, saved) ==
  LET m == ModuleOf[d]
      refs == [module_refs EXCEPT ![m] = @ \union {d}]
      back == [refs EXCEPT ![m] = @ \ {d}]
  IN
  /\ phase = "up"
  /\ packaged[d] # None
  /\ plugins[d] = None
  /\ registry[FactoryOf[d]] = None
  /\ IF saved
       THEN /\ plugins'  = [plugins EXCEPT ![d] = packaged[d]]
            /\ registry' = [registry EXCEPT ![FactoryOf[d]] = d]
            /\ module_refs' = refs
            /\ bundles' = bundles \union {m}
       ELSE /\ plugins'  = [plugins EXCEPT ![d] = None]
            /\ registry' = [registry EXCEPT ![FactoryOf[d]] = None]
            /\ module_refs' = back
            /\ bundles' = UnloadIfUnused(back, m)
  /\ UNCHANGED <<phase, packaged, scopes, instanceVars>>
  /\ PersistState(saved)

\* uninstall_plugin: refused while instances exist; a refused snapshot is
\* raised to the caller and nothing is put back.
Uninstall(d, saved) ==
  LET m == ModuleOf[d] IN
  /\ phase = "up"
  /\ registry[FactoryOf[d]] = d
  /\ InstancesOf(d) = {}
  /\ registry' = [registry EXCEPT ![FactoryOf[d]] = None]
  /\ plugins'  = [plugins EXCEPT ![d] = None]
  /\ module_refs' = [module_refs EXCEPT ![m] = @ \ {d}]
  /\ bundles' = UnloadIfUnused(module_refs', m)
  /\ UNCHANGED <<phase, packaged, scopes, instanceVars>>
  /\ PersistState(saved)

-----------------------------------------------------------------------------
(* Scopes *)

\* add_scope: the tree alone changes. No snapshot is saved here.
AddScope(s) ==
  /\ phase = "up"
  /\ s \notin scopes
  /\ Ancestors[s] \subseteq scopes \union {s}
  /\ scopes' = scopes \union {s}
  /\ UNCHANGED <<phase, packaged, definitionVars, instanceVars, store>>

\* Mutant: the components go on without their records.
ForgetRecords(Gone) ==
  /\ instances' = [i \in Instances |-> IF i \in Gone THEN None ELSE instances[i]]
  /\ user_properties' =
       [i \in Instances |-> IF i \in Gone THEN None ELSE user_properties[i]]
  /\ UNCHANGED components

\* _remove_instance_record for every instance of Gone
ForgetInstances(Gone) ==
  /\ instances' = [i \in Instances |-> IF i \in Gone THEN None ELSE instances[i]]
  /\ user_properties' =
       [i \in Instances |-> IF i \in Gone THEN None ELSE user_properties[i]]
  /\ components' = [i \in Instances |->
       IF i \in Gone /\ Active(i) THEN None ELSE components[i]]

\* Mutant: the scopes below are overlooked.
InstancesIn(s) == {i \in Recorded : instances[i].scope = s}

\* The instances remove_scope(s, recursive) is about
InstancesUnder(s) == {i \in Recorded : instances[i].scope \in Subtree(s)}

\* ipopo.kill raises for a component iPOPO does not know
Unkillable(i) == Active(i) /\ ~Living(i)

\* remove_scope without recursive: refused for a scope with children or
\* instances. A refused snapshot does not bring the scope back.
RemoveScope(s, saved) ==
  /\ phase = "up"
  /\ s \in scopes \ {Root}
  /\ Subtree(s) = {s}
  /\ InstancesUnder(s) = {}
  /\ scopes' = scopes \ {s}
  /\ UNCHANGED <<phase, packaged, definitionVars, instanceVars>>
  /\ PersistState(saved)

\* remove_scope(recursive=True): the instances first, the subtree next, one
\* snapshot at the end and no rollback. The root is refused, but only after
\* the instances are gone.
RemoveSubtree(s, saved) ==
  /\ phase = "up"
  /\ s \in scopes
  /\ \A i \in InstancesUnder(s) : ~Unkillable(i)
  /\ ForgetInstances(InstancesUnder(s))
  /\ UNCHANGED <<phase, packaged, definitionVars>>
  /\ IF s = Root
       THEN UNCHANGED <<scopes, store>>
       ELSE /\ scopes' = scopes \ Subtree(s)
            /\ PersistState(saved)

\* remove_scope(recursive=True) that meets a component it cannot kill: the
\* instances handled before it are gone, the rest stays.
RemoveSubtreeAborts(s) ==
  /\ phase = "up"
  /\ s \in scopes
  /\ \E i \in InstancesUnder(s) : Unkillable(i)
  /\ \E Gone \in SUBSET {i \in InstancesUnder(s) : ~Unkillable(i)} :
       /\ Gone # {}
       /\ ForgetInstances(Gone)
  /\ UNCHANGED <<phase, packaged, definitionVars, scopes, store>>

-----------------------------------------------------------------------------
(* Instances *)

\* uuid4 is new: the name is in no dictionary, component or snapshot
Fresh(i) ==
  /\ instances[i] = None /\ user_properties[i] = None /\ ~Living(i)
  /\ store.instances[i] = None

\* create_instance: build the component when enabled, record the instance,
\* save. A refused snapshot undoes all of it.
Create(i, d, s, p, enabled, saved) ==
  LET record == [def |-> d, scope |-> s, props |-> p, enabled |-> enabled,
                 status |-> IF enabled THEN "active" ELSE "disabled"]
  IN
  /\ phase = "up"
  /\ Fresh(i)
  /\ s \in scopes
  /\ plugins[d] # None
  /\ IF saved
       THEN /\ instances' = [instances EXCEPT ![i] = record]
            /\ user_properties' = [user_properties EXCEPT ![i] = p]
            /\ components' =
                 IF enabled THEN [components EXCEPT ![i] = p] ELSE components
       ELSE /\ instances' = [instances EXCEPT ![i] = None]
            /\ user_properties' = [user_properties EXCEPT ![i] = None]
            /\ components' =
                 IF enabled THEN [components EXCEPT ![i] = None] ELSE components
  /\ UNCHANGED <<phase, packaged, definitionVars, scopes>>
  /\ PersistState(saved)

\* delete_instance: kill, forget, save. When the snapshot is refused the
\* component is built again and the record put back, with the effective
\* properties as the user's; if it cannot be built the record stays lost.
Delete(i, built, saved) ==
  /\ phase = "up"
  /\ i \in Recorded
  /\ ~Unkillable(i)
  /\ May(built, "build")
  /\ built \/ (~saved /\ Active(i))
  /\ IF saved \/ ~built
       THEN ForgetInstances({i})
       ELSE /\ instances' = instances
            /\ user_properties' = [user_properties EXCEPT ![i] = instances[i].props]
            /\ components' = IF Active(i)
                 THEN [components EXCEPT ![i] = instances[i].props]
                 ELSE components
  /\ UNCHANGED <<phase, packaged, definitionVars, scopes>>
  /\ PersistState(saved)

\* The branches of update_instance for instance i whose user properties go
\* from "base" to "user": does it kill the component, does it build one?
Changed(i, base, user, enabled) == enabled # instances[i].enabled \/ user # base
Kills(i, base, user, enabled) ==
  IF enabled
    THEN instances[i].status # "disabled" /\ Changed(i, base, user, enabled)
    ELSE Active(i)
Builds(i, base, user, enabled) ==
  enabled /\ (instances[i].status = "disabled" \/ Changed(i, base, user, enabled))

\* iPOPO refuses to kill a name it does not know and to build one it knows
IpopoRefuses(i, base, user, enabled) ==
  \/ Kills(i, base, user, enabled) /\ ~Living(i)
  \/ ~Kills(i, base, user, enabled) /\ Builds(i, base, user, enabled) /\ Living(i)

NewUser(base, p) == Merge(IF base = None THEN NoProps ELSE base, p)

\* update_instance from the user properties "base": replace the component,
\* then the record, then save. A refused snapshot restores the record (and
\* takes the effective properties for the user's), not the component.
Reconfigure(i, base, p, enabled, saved) ==
  LET cur  == instances[i]
      user == NewUser(base, p)
  IN
  /\ phase = "up"
  /\ i \in Recorded
  /\ plugins[cur.def] # None
  /\ ~IpopoRefuses(i, base, user, enabled)
  /\ components' =
       IF Builds(i, base, user, enabled) THEN [components EXCEPT ![i] = user]
       ELSE IF Kills(i, base, user, enabled) THEN [components EXCEPT ![i] = None]
       ELSE components
  /\ IF saved
       THEN /\ instances' = [instances EXCEPT ![i] =
                 [cur EXCEPT !.props = user, !.enabled = enabled,
                             !.status = IF enabled THEN "active" ELSE "disabled"]]
            /\ user_properties' = [user_properties EXCEPT ![i] = user]
       ELSE /\ instances' = instances
            /\ user_properties' = [user_properties EXCEPT ![i] = cur.props]
  /\ UNCHANGED <<phase, packaged, definitionVars, scopes>>
  /\ PersistState(saved)

\* update_instance when iPOPO raises. The handler for an active instance
\* kills the component before it rebuilds the old one; the component is gone
\* by then, so kill raises too and nothing is rebuilt.
ReconfigureRaises(i, base, p, enabled) ==
  LET user == NewUser(base, p) IN
  /\ phase = "up"
  /\ i \in Recorded
  /\ plugins[instances[i].def] # None
  /\ \/ IpopoRefuses(i, base, user, enabled)
     \/ Builds(i, base, user, enabled) /\ "build" \in Faults
  /\ components' = IF Kills(i, base, user, enabled)
                     THEN [components EXCEPT ![i] = None] ELSE components
  /\ user_properties' = [user_properties EXCEPT ![i] = base]
  /\ UNCHANGED <<phase, packaged, definitionVars, scopes, instances, store>>

Update(i, p, enabled, saved) ==
  \/ Reconfigure(i, user_properties[i], p, enabled, saved)
  \/ ReconfigureRaises(i, user_properties[i], p, enabled)

\* One instance's turn in apply_config: the user's properties are emptied
\* first, and update_instance then starts from nothing.
ApplyConfig(i, p, enabled, saved) ==
  \/ Reconfigure(i, NoProps, p, enabled, saved)
  \/ ReconfigureRaises(i, NoProps, p, enabled)

\* ensure_instance, used by the assembly: the first instance of the
\* definition in the scope is brought in line, or a new one is created.
Ensure(d, s, p, enabled, saved) ==
  LET matching == {i \in InstancesOf(d) : instances[i].scope = s} IN
  IF matching # {}
    THEN \E i \in matching :
           /\ instances[i].enabled # enabled \/ UserOf(i) # p
           /\ Update(i, p, enabled, saved)
    ELSE \E i \in Instances : Create(i, d, s, p, enabled, saved)

-----------------------------------------------------------------------------
(* Start-up, crash and the environment *)

Stop ==
  /\ plugins' = [d \in Definitions |-> None]
  /\ registry' = [f \in Factories |-> None]
  /\ bundles' = {}
  /\ module_refs' = [m \in Modules |-> {}]
  /\ scopes' = {}
  /\ instances' = [i \in Instances |-> None]
  /\ user_properties' = [i \in Instances |-> None]
  /\ components' = [i \in Instances |-> None]

Persisted == {i \in Instances : store.instances[i] # None}

\* Agent-scoped instances are derived state: restore drops them.
Restorable == {i \in Persisted : store.instances[i].scope \notin AgentScopes}

\* A persisted definition whose module is no longer importable makes
\* _install_bundle raise; one of the assembly whose package changed its
\* version is refused by install_descriptor as already installed.
StartRaises ==
  \E d \in Definitions :
    /\ store.plugins[d] # None
    /\ packaged[d] = None \/ (d \in Builtin /\ packaged[d] # store.plugins[d])

\* start, bind_state, discover and restore, up to the snapshot the
\* coordinator saves after it. Broken are the instances whose component
\* could not be rebuilt: they are marked failed. A disabled instance gets
\* its record back, but no entry in _user_properties.
Start(Broken) ==
  LET rebuilt == {i \in Restorable : store.instances[i].enabled}
  IN
  /\ phase = "down"
  /\ ~StartRaises
  /\ Broken \subseteq rebuilt
  /\ May(Broken = {}, "build")
  /\ phase' = "up"
  /\ plugins' = store.plugins
  /\ registry' = [f \in Factories |->
       IF \E d \in Definitions : store.plugins[d] # None /\ FactoryOf[d] = f
         THEN CHOOSE d \in Definitions : store.plugins[d] # None /\ FactoryOf[d] = f
         ELSE None]
  /\ module_refs' = [m \in Modules |->
       {d \in Definitions : store.plugins[d] # None /\ ModuleOf[d] = m}]
  /\ bundles' = {ModuleOf[d] : d \in {e \in Definitions : store.plugins[e] # None}}
  /\ scopes' = store.scopes \union BuiltinScopes
  /\ instances' = [i \in Instances |->
       IF i \notin Restorable THEN None
       ELSE [store.instances[i] EXCEPT !.status =
               IF i \notin rebuilt THEN "disabled"
               ELSE IF i \in Broken THEN "failed" ELSE "active"]]
  /\ user_properties' = [i \in Instances |->
       IF i \in rebuilt THEN store.instances[i].props ELSE None]
  /\ components' = [i \in Instances |->
       IF i \in rebuilt \ Broken THEN store.instances[i].props ELSE None]
  /\ UNCHANGED packaged
  /\ store' = Snapshot(scopes', plugins', instances')

\* The exception of StartRaises leaves _run or create_app: no server.
StartAborts ==
  /\ phase = "down"
  /\ StartRaises
  /\ phase' = "aborted"
  /\ UNCHANGED <<packaged, definitionVars, scopes, instanceVars, store>>

\* The process dies, or is told to stop; either way nothing is saved.
Crash ==
  /\ phase = "up"
  /\ phase' = "down"
  /\ Stop
  /\ UNCHANGED <<packaged, store>>

\* Between two runs of the server a plugin's package is upgraded, removed
\* or put back.
Repackage(d, v) ==
  /\ "package" \in Faults
  /\ phase \in {"down", "aborted"}
  /\ packaged[d] # v
  /\ packaged' = [packaged EXCEPT ![d] = v]
  /\ phase' = "down"
  /\ UNCHANGED <<definitionVars, scopes, instanceVars, store>>

-----------------------------------------------------------------------------
Init ==
  /\ phase = "down"
  /\ packaged \in [Definitions -> Versions]
  /\ plugins = [d \in Definitions |-> None]
  /\ registry = [f \in Factories |-> None]
  /\ bundles = {}
  /\ module_refs = [m \in Modules |-> {}]
  /\ scopes = {}
  /\ instances = [i \in Instances |-> None]
  /\ user_properties = [i \in Instances |-> None]
  /\ components = [i \in Instances |-> None]
  /\ store = EmptySnapshot

DefinitionNext ==
  \E d \in Definitions, saved \in BOOLEAN : Install(d, saved) \/ Uninstall(d, saved)

ScopeNext ==
  \E s \in Scopes :
    \/ AddScope(s)
    \/ \E saved \in BOOLEAN : RemoveScope(s, saved) \/ RemoveSubtree(s, saved)
    \/ RemoveSubtreeAborts(s)

InstanceNext ==
  \E enabled, saved \in BOOLEAN :
    \/ \E i \in Instances :
         \/ \E d \in Definitions, s \in Scopes, p \in Props :
              Create(i, d, s, p, enabled, saved)
         \/ Delete(i, enabled, saved)
         \/ \E p \in Props : Update(i, p, enabled, saved)
         \/ \E p \in Overrides : ApplyConfig(i, p, enabled, saved)
    \/ \E d \in Builtin, s \in BuiltinScopes, p \in Props :
         Ensure(d, s, p, enabled, saved)

ProcessNext ==
  \/ \E Broken \in SUBSET Instances : Start(Broken)
  \/ StartAborts
  \/ Crash
  \/ \E d \in Definitions, v \in Versions \union {None} : Repackage(d, v)

Next == DefinitionNext \/ ScopeNext \/ InstanceNext \/ ProcessNext

Spec == Init /\ [][Next]_vars

-----------------------------------------------------------------------------
(* What the manager promises *)

PropsOrNone   == Props \union {None}
RecordOrNone  == Record \union {None}
VersionOrNone == Versions \union {None}

TypeOK ==
  /\ phase \in {"down", "up", "aborted"}
  /\ packaged \in [Definitions -> VersionOrNone]
  /\ plugins \in [Definitions -> VersionOrNone]
  /\ registry \in [Factories -> Definitions \union {None}]
  /\ bundles \subseteq Modules
  /\ module_refs \in [Modules -> SUBSET Definitions]
  /\ scopes \subseteq Scopes
  /\ instances \in [Instances -> RecordOrNone]
  /\ user_properties \in [Instances -> PropsOrNone]
  /\ components \in [Instances -> PropsOrNone]
  /\ store \in [scopes: SUBSET Scopes, plugins: [Definitions -> VersionOrNone],
                instances: [Instances -> RecordOrNone]]

\* The four structures that describe the definitions tell one story, whatever
\* was installed, removed and rolled back: the registry names exactly the
\* installed definitions, one per factory, and a bundle is loaded exactly as
\* long as an installed definition needs its module.
\* (_install_definition, _rollback_definition, uninstall_plugin, restore)
DefinitionsAgree ==
  /\ \A d \in Definitions : d \in Installed <=> registry[FactoryOf[d]] = d
  /\ \A m \in Modules : module_refs[m] = {d \in Installed : ModuleOf[d] = m}
  /\ bundles = {ModuleOf[d] : d \in Installed}

\* No instance outlives the definition it was made from or the scope it lives
\* in, and no scope outlives one on its path to the root: uninstall_plugin
\* and remove_scope look before they remove, and restore brings back
\* definitions and scopes before instances.
InstancesDefined ==
  /\ \A i \in Recorded : instances[i].def \in Installed /\ instances[i].scope \in scopes
  /\ \A s \in scopes : Ancestors[s] \subseteq scopes

\* Every snapshot that was ever accepted can be restored: what it holds refers
\* only to definitions and scopes in the same snapshot, and no two of its
\* definitions claim one factory. Otherwise a later restore raises and the
\* server no longer starts.
StoreClosed ==
  /\ \A i \in Persisted : /\ store.plugins[store.instances[i].def] # None
                          /\ store.instances[i].scope \in store.scopes
  /\ \A s \in store.scopes : Ancestors[s] \subseteq store.scopes
  /\ \A d, e \in Definitions :
       store.plugins[d] # None /\ store.plugins[e] # None
         /\ FactoryOf[d] = FactoryOf[e] => d = e

\* What the running server shows survives a crash: each definition and each
\* instance record in memory is in the stored snapshot, up to the conversion
\* of its properties, even right after a mutation whose snapshot was refused.
MemoryIsDurable ==
  /\ \A d \in Installed : store.plugins[d] = plugins[d]
  /\ \A i \in Recorded : store.instances[i] = Saved(instances[i])

\* A server that is not up has nothing in memory.
DownIsEmpty ==
  phase # "up" => /\ Installed = {} /\ Recorded = {} /\ scopes = {} /\ bundles = {}
                  /\ registry = [f \in Factories |-> None]
                  /\ module_refs = [m \in Modules |-> {}]

\* As long as the store accepts what it is given, a component runs only on
\* behalf of an active record and with the properties of that record, also
\* when components fail to be built: none is leaked by a failed create, a
\* failed replacement, a removed scope or a restart.
ComponentsAreRecorded ==
  \A i \in Instances : Living(i) =>
    i \in Recorded /\ Active(i) /\ instances[i].props = components[i]

\* A restart rebuilds what runs now: the stored snapshot has every running
\* component's instance, enabled and with the properties it runs with. So no
\* crash, wherever it falls, silently changes or stops an instance.
\* (Holds while the store accepts what it is given.)
RestartRebuildsWhatRuns ==
  \A i \in Instances : Living(i) =>
    i \in Persisted /\ store.instances[i].enabled
                   /\ store.instances[i].props = components[i]

\* The design says of update_instance: "a failed update restores the old
\* component and the old snapshot". So a step that leaves the record of a
\* running active instance as it was leaves its component as it was.
FailedUpdateRestores ==
  [][\A i \in Recorded :
       Active(i) /\ Living(i) /\ instances'[i] = instances[i] =>
         components'[i] = components[i]]_vars

\* Properties are restored by a restart: no update and no restart empties the
\* properties of an instance that had some (Merge only ever adds).
PropertiesSurvive ==
  [][\A i \in Recorded :
       instances[i].props # NoProps /\ instances'[i] # None =>
         instances'[i].props # NoProps]_vars

\* A persisted definition that is no longer in the environment is marked
\* missing; it does not keep the server from starting.
StartNeverAborts == phase # "aborted"

-----------------------------------------------------------------------------
(* The catalog of definitions and instances *)

CatalogNames == Definitions \union Instances

\* What of a record a restart gives back: all but whether its component runs
Contents == [def: Definitions, scope: Scopes, props: Props, enabled: BOOLEAN]
Content(r) ==
  IF r = None THEN None
  ELSE [def |-> r.def, scope |-> r.scope, props |-> JsonSafe[r.props], enabled |-> r.enabled]

Entered(P, I) == [n \in CatalogNames |-> IF n \in Definitions THEN P[n] ELSE Content(I[n])]

\* What has been converted is not converted further (_json_safe), and
\* definitions, instances and versions are not mistaken for one another.
ASSUME CatalogAssumption ==
  /\ \A p \in Props : JsonSafe[JsonSafe[p]] = JsonSafe[p]
  /\ Definitions \intersect Instances = {}
  /\ Versions \intersect Contents = {}

Catalog == INSTANCE DurableCatalog WITH
  Names   <- CatalogNames,
  Entries <- Versions \union Contents,
  Derived <- {c \in Contents : c.scope \in AgentScopes},
  serving <- phase = "up",
  shown   <- Entered(plugins, instances),
  kept    <- Entered(store.plugins, store.instances)

\* The manager is a durable catalog: an entry is shown only as it is kept, so a
\* mutation whose snapshot is refused adds and changes nothing; a crash and a
\* restart lose nothing but the instances of agents' scopes, and bring nothing
\* back but what was removed while the store refused
\* (plugin_manager.py:443-633, 850-990).
KeepsCatalog == Catalog!Spec
=============================================================================
