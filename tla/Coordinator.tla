----------------------------- MODULE Coordinator -----------------------------
(***************************************************************************)
(* RuntimeMutationCoordinator: the operations on dynamically installed     *)
(* plugins (install, enable, disable, upgrade, uninstall, restore) over    *)
(* the plugin manager.                                                     *)
(*                                                                         *)
(* The coordinator's own lock serialises its operations, so at most one is *)
(* in flight; but each is a chain of manager calls, most of which save the *)
(* snapshot. Here a step is one manager call with the assignments up to    *)
(* the next call, "op" says which step comes next, and a crash may fall    *)
(* between any two. The registrations (the manager's _provenance) are part *)
(* of the same snapshot as the manager's state, so every save stores them, *)
(* in whatever state the operation in flight has left them.                *)
(***************************************************************************)
EXTENDS PluginManager, Naturals, FiniteSets

CONSTANTS
  Contributions,  \* contributions of the discovered packages
  DefOf,          \* Contributions -> the definition it instantiates
  ScopeOf,        \* Contributions -> the scope the run installs it into
  Exporting,      \* the contributions with tool_exports
  AdapterDef,     \* the tool export adapter's definition
  AdapterScope,   \* Contributions -> the scope of its adapter: "agent", or the
                  \* contribution's own
  AdapterProps,   \* an adapter's properties: the target service and the exports
  Settings,       \* the properties a caller may set
  Keys,           \* registration keys a caller may pass (None: no key)
  Releases        \* versions a package can have

ASSUME CoordinatorAssumption ==
  /\ DefOf \in [Contributions -> Definitions \ {AdapterDef}]
  /\ ScopeOf \in [Contributions -> Scopes]
  /\ Exporting \subseteq Contributions
  /\ AdapterDef \in Definitions /\ AdapterScope \in [Contributions -> Scopes]
  /\ AdapterProps \in Props /\ Settings \subseteq Props
  /\ None \notin Contributions \union Releases

VARIABLES
  catalog,              \* _catalog: the version each contribution's package has
  registrations,        \* the manager's _provenance: UUID -> registration
  stored_registrations, \* the registrations in the stored snapshot
  adapters,             \* _adapter_instances: UUID -> its adapter's UUID
  op,                   \* the operation in flight
  clean                 \* history: no operation was cut short or refused a save

coordinatorVars == <<catalog, registrations, stored_registrations, adapters, op, clean>>
allVars == <<vars, coordinatorVars>>

Registration == [contribution: Contributions, version: Releases,
                 enabled: BOOLEAN, key: Keys]

ASSUME RegistrationAssumption == None \notin Registration

Idle == [at |-> "idle", kind |-> "idle", i |-> None, reg |-> None, todo |-> {}]
Busy(at, kind, i, reg, todo) ==
  [at |-> at, kind |-> kind, i |-> i, reg |-> reg, todo |-> todo]

Goto(at) == op' = [op EXCEPT !.at = at]

Registered == {i \in Instances : registrations[i] # None}
ScopeOfReg(i) == ScopeOf[registrations[i].contribution]

\* uuid4 is new here, too: no registration and no adapter has the name
FreshUUID(j) ==
  /\ registrations[j] = None /\ stored_registrations[j] = None
  /\ adapters[j] = None

\* _registration: an operation by name and scope needs exactly one match
Named(c) == {i \in Registered : registrations[i].contribution = c}
Unique(i) == i \in Registered /\ Named(registrations[i].contribution) = {i}

\* Every snapshot carries the registrations as they are.
SaveRegistrations(saved) ==
  stored_registrations' = IF saved THEN registrations' ELSE stored_registrations

\* A refused save is an interruption; so is a crash of an operation.
Interrupted(saved) == clean' = (clean /\ saved)

\* the final manager._persist_state() of an operation
PersistRegistrations(saved) ==
  /\ UNCHANGED <<phase, packaged, definitionVars, scopes, instanceVars>>
  /\ PersistState(saved)
  /\ SaveRegistrations(saved)
  /\ Interrupted(saved)

-----------------------------------------------------------------------------
(* install *)

\* Mutant: a disabled registration is not found.
KeyedEnabled(c, key) ==
  {i \in Named(c) : registrations[i].key = key /\ registrations[i].enabled}

Keyed(c, key) == {i \in Named(c) : registrations[i].key = key}

\* A keyed contribution that is registered already is returned as it is.
BeginInstall(c, key) ==
  /\ op = Idle /\ phase = "up"
  /\ key # None => Keyed(c, key) = {}
  /\ op' = Busy("define", "install", None,
                [contribution |-> c, version |-> catalog[c], enabled |-> TRUE,
                 key |-> key], {})
  /\ UNCHANGED <<vars, catalog, registrations, stored_registrations, adapters, clean>>

\* install_descriptor, unless the factory is registered
Define(saved) ==
  LET d == DefOf[op.reg.contribution] IN
  /\ op.at = "define"
  /\ UNCHANGED <<catalog, registrations, adapters>>
  /\ IF registry[FactoryOf[d]] # None
       THEN /\ saved
            /\ UNCHANGED <<vars, stored_registrations, clean>>
            /\ Goto("create")
       ELSE /\ Install(d, saved)
            /\ SaveRegistrations(saved)
            /\ Interrupted(saved)
            /\ IF saved THEN Goto("create") ELSE op' = Idle

\* create_instance, and attach_provenance once it has returned
CreateRegistered(i, saved) ==
  LET c == op.reg.contribution IN
  /\ op.at = "create"
  /\ FreshUUID(i)
  /\ Create(i, DefOf[c], ScopeOf[c], NoProps, TRUE, saved)
  /\ UNCHANGED <<catalog, adapters>>
  /\ stored_registrations' = IF saved THEN registrations ELSE stored_registrations
  /\ Interrupted(saved)
  /\ IF saved
       THEN /\ registrations' = [registrations EXCEPT ![i] = op.reg]
            /\ op' = [op EXCEPT !.i = i,
                                !.at = IF c \in Exporting THEN "adapter" ELSE "finish"]
       ELSE op' = Idle /\ UNCHANGED registrations

\* create_instance raises: the scope is not there (any more), or the component
\* cannot be built. The definition stays installed.
CreateRaises ==
  /\ op.at = "create"
  /\ ScopeOf[op.reg.contribution] \notin scopes \/ "build" \in Faults
  /\ op' = Idle
  /\ UNCHANGED <<vars, catalog, registrations, stored_registrations, adapters, clean>>

-----------------------------------------------------------------------------
(* _install_adapters and _kill_adapters *)

AdapterDefined == registry[FactoryOf[AdapterDef]] # None

\* the adapter's own descriptor is installed when it is needed first
DefineAdapter(saved) ==
  /\ op.at = "adapter"
  /\ ~AdapterDefined
  /\ Install(AdapterDef, saved)
  /\ UNCHANGED <<catalog, registrations, adapters>>
  /\ SaveRegistrations(saved)
  /\ Interrupted(saved)
  /\ IF saved THEN UNCHANGED op
     ELSE IF op.kind = "install" THEN Goto("undo") ELSE op' = Idle

\* find_service: some live component of the definition in the scope
TargetAvailable(c) ==
  \E i \in Recorded : /\ Living(i) /\ instances[i].def = DefOf[c]
                      /\ instances[i].scope = ScopeOf[c]

\* Install and set_enabled raise without a target, or when the adapter cannot
\* be built or saved: install undoes its work, set_enabled does not.
BuildAdapter(a, saved) ==
  LET c == registrations[op.i].contribution IN
  /\ op.at = "adapter"
  /\ AdapterDefined
  /\ TargetAvailable(c)
  /\ FreshUUID(a)
  /\ Create(a, AdapterDef, AdapterScope[c], AdapterProps, TRUE, saved)
  /\ UNCHANGED <<catalog, registrations>>
  /\ SaveRegistrations(saved)
  /\ Interrupted(saved)
  /\ IF saved
       THEN /\ adapters' = [adapters EXCEPT ![op.i] = a]
            /\ Goto("finish")
       ELSE /\ UNCHANGED adapters
            /\ IF op.kind = "install" THEN Goto("undo") ELSE op' = Idle

\* find_service finds nothing when the component provides no service, for
\* want of one it requires itself.
NoTarget ==
  /\ op.at = "adapter"
  /\ AdapterDefined
  /\ May(TargetAvailable(registrations[op.i].contribution) = FALSE, "build")
  /\ UNCHANGED <<vars, catalog, registrations, stored_registrations, adapters>>
  /\ clean' = FALSE
  /\ IF op.kind = "install" THEN Goto("undo") ELSE op' = Idle

\* The entry leaves _adapter_instances first; what delete_instance raises is
\* swallowed, so a refused save leaves an adapter that nothing refers to.
KillAdapter(saved) ==
  LET a == adapters[op.i]
      gone == a = None \/ a \notin Recorded \/ Unkillable(a)
  IN
  /\ op.at \in {"kill", "undo"}
  /\ adapters' = [adapters EXCEPT ![op.i] = None]
  /\ UNCHANGED <<catalog, registrations>>
  /\ IF gone
       THEN saved /\ UNCHANGED <<vars, stored_registrations, clean>>
       ELSE /\ \E built \in BOOLEAN : Delete(a, built, saved)
            /\ SaveRegistrations(saved)
            /\ Interrupted(saved)
  /\ Goto(CASE op.at = "undo" -> "unregister"
            [] op.kind = "disable" -> "finish"
            [] OTHER -> "delete")

\* install's exception handler, after _kill_adapters: detach_provenance, then
\* delete_instance. When that raises, too, the instance stays.
Unregister(saved) ==
  /\ op.at = "unregister"
  /\ registrations' = [registrations EXCEPT ![op.i] = None]
  /\ op' = Idle
  /\ UNCHANGED <<catalog, adapters>>
  /\ \E built \in BOOLEAN : Delete(op.i, built, saved)
  /\ SaveRegistrations(saved)
  /\ Interrupted(saved)

-----------------------------------------------------------------------------
(* set_enabled, upgrade, uninstall *)

\* Mutant: disabling forgets the adapters.
AfterUpdateKeepsAdapters(c, enabled) ==
  IF enabled /\ c \in Exporting THEN "adapter" ELSE "finish"

AfterUpdate(c, enabled) ==
  IF ~enabled THEN "kill" ELSE IF c \in Exporting THEN "adapter" ELSE "finish"

\* set_enabled: update_instance first, the adapters next; the registration
\* follows at the end. Asked for the state it has, it does nothing.
SetEnabled(i, enabled, saved) ==
  /\ op = Idle /\ phase = "up"
  /\ Unique(i)
  /\ registrations[i].enabled # enabled
  /\ Reconfigure(i, user_properties[i], NoProps, enabled, saved)
  /\ UNCHANGED <<catalog, registrations, adapters>>
  /\ SaveRegistrations(saved)
  /\ Interrupted(saved)
  /\ op' = IF ~saved THEN Idle
           ELSE Busy(AfterUpdate(registrations[i].contribution, enabled),
                     IF enabled THEN "enable" ELSE "disable",
                     i, [registrations[i] EXCEPT !.enabled = enabled], {})

\* update_instance raises, for set_enabled or for update_properties: the
\* manager's own handler is all that happens.
UpdateRaises(i, p, enabled) ==
  /\ op = Idle /\ phase = "up"
  /\ Unique(i)
  /\ \/ p = NoProps /\ registrations[i].enabled # enabled
     \/ i \in Recorded /\ instances[i].enabled = enabled
  /\ ReconfigureRaises(i, user_properties[i], p, enabled)
  /\ clean' = FALSE
  /\ UNCHANGED <<catalog, registrations, stored_registrations, adapters, op>>

\* update_properties: update_instance, then one more save
UpdateProperties(i, p, saved) ==
  /\ op = Idle /\ phase = "up"
  /\ Unique(i) /\ i \in Recorded
  /\ Reconfigure(i, user_properties[i], p, instances[i].enabled, saved)
  /\ UNCHANGED <<catalog, registrations, adapters>>
  /\ SaveRegistrations(saved)
  /\ Interrupted(saved)
  /\ op' = IF saved THEN Busy("finish", "properties", i, None, {}) ELSE Idle

\* Mutant: the old instance is deleted before the new one is created.
UpgradeDeletesFirst(i, j, saved) ==
  LET r == registrations[i] IN
  /\ op = Idle /\ phase = "up"
  /\ Unique(i) /\ FreshUUID(j)
  /\ catalog[r.contribution] # r.version
  /\ Delete(i, TRUE, saved)
  /\ UNCHANGED <<catalog, registrations, adapters>>
  /\ SaveRegistrations(saved)
  /\ Interrupted(saved)
  /\ op' = IF saved
             THEN Busy("create", "upgrade", None,
                       [r EXCEPT !.version = catalog[r.contribution]], {})
             ELSE Idle

\* upgrade: a replacement from the package's present version; then the old
\* adapters and the old instance go.
BeginUpgrade(i, j, saved) ==
  LET r == registrations[i]
      c == r.contribution
  IN
  /\ op = Idle /\ phase = "up"
  /\ Unique(i)
  /\ catalog[c] # r.version
  /\ FreshUUID(j)
  /\ Create(j, DefOf[c], ScopeOf[c], NoProps, r.enabled, saved)
  /\ UNCHANGED <<catalog, registrations, adapters>>
  /\ SaveRegistrations(saved)
  /\ Interrupted(saved)
  /\ op' = IF saved THEN Busy("kill", "upgrade", i, [r EXCEPT !.version = catalog[c]], {j})
           ELSE Idle

BeginUninstall(i) ==
  /\ op = Idle /\ phase = "up"
  /\ Unique(i)
  /\ op' = Busy("kill", "uninstall", i, registrations[i], {})
  /\ UNCHANGED <<vars, catalog, registrations, stored_registrations, adapters, clean>>

\* delete_instance of upgrade and uninstall
DeleteOld(saved) ==
  /\ op.at = "delete"
  /\ UNCHANGED <<catalog, registrations, adapters>>
  /\ IF op.i \in Recorded /\ ~Unkillable(op.i)
       THEN /\ \E built \in BOOLEAN : Delete(op.i, built, saved)
            /\ SaveRegistrations(saved)
            /\ Interrupted(saved)
            /\ IF saved THEN Goto("finish") ELSE op' = Idle
       ELSE /\ ~saved
            /\ clean' = FALSE
            /\ op' = Idle
            /\ UNCHANGED <<vars, stored_registrations>>

\* Mutant: an upgrade does not detach the registration it replaces.
FinalKeepsOld ==
  [j \in Instances |->
     IF j \in op.todo \/ (j = op.i /\ op.kind \in {"enable", "disable"}) THEN op.reg
     ELSE IF j = op.i /\ op.kind = "uninstall" THEN None
     ELSE registrations[j]]

\* What an operation makes of the registrations in the end: attached are the
\* changed one and the replacement of an upgrade, detached what goes.
FinalRegistrations ==
  [j \in Instances |->
     IF j \in op.todo \/ (j = op.i /\ op.kind \in {"enable", "disable"}) THEN op.reg
     ELSE IF j = op.i /\ op.kind \in {"uninstall", "upgrade"} THEN None
     ELSE registrations[j]]

\* The end of every operation: the registrations change, then the snapshot
\* is saved; a refused one is raised, and only install undoes anything.
Finish(saved) ==
  /\ op.at = "finish"
  /\ registrations' = FinalRegistrations
  /\ PersistRegistrations(saved)
  /\ UNCHANGED <<catalog, adapters>>
  /\ IF ~saved /\ op.kind = "install" THEN Goto("undo") ELSE op' = Idle

\* rescan: a package has another version
Rescan(c, v) ==
  /\ op = Idle /\ phase = "up"
  /\ catalog[c] # v
  /\ catalog' = [catalog EXCEPT ![c] = v]
  /\ UNCHANGED <<vars, registrations, stored_registrations, adapters, op, clean>>

-----------------------------------------------------------------------------
(* restore *)

\* manager.restore: definitions, scopes, instances and registrations
BeginRestore(Broken) ==
  /\ Start(Broken)
  /\ registrations' = stored_registrations
  /\ SaveRegistrations(TRUE)
  /\ adapters' = [i \in Instances |-> None]
  /\ op' = Busy("rebuild", "restore", None, None,
                {i \in Instances : stored_registrations[i] # None
                   /\ ScopeOf[stored_registrations[i].contribution] \in AgentScopes})
  /\ UNCHANGED <<catalog, clean>>

\* A registration in an agent's scope gets a new instance, since restore
\* dropped the old one, and is attached under the new UUID. The entry under
\* the old UUID is not detached. A refused save ends the start-up.
Rebuild(i, j) ==
  LET r == registrations[i] IN
  /\ op.at = "rebuild"
  /\ i \in op.todo
  /\ FreshUUID(j)
  /\ Create(j, DefOf[r.contribution], ScopeOf[r.contribution], NoProps, r.enabled, TRUE)
  /\ stored_registrations' = registrations
  /\ registrations' = [registrations EXCEPT ![j] = r]
  /\ op' = [op EXCEPT !.todo = @ \ {i}]
  /\ UNCHANGED <<catalog, adapters, clean>>

\* Every enabled exporting registration gets adapters again; one that cannot
\* have them is passed over.
Rebuilt ==
  /\ op.at = "rebuild" /\ op.todo = {}
  /\ op' = Busy("adapters", "restore", None, None,
                {i \in Registered : /\ registrations[i].enabled
                                    /\ registrations[i].contribution \in Exporting})
  /\ UNCHANGED <<vars, catalog, registrations, stored_registrations, adapters, clean>>

Readapt(i, a) ==
  LET c == registrations[i].contribution IN
  /\ op.at = "adapters"
  /\ i \in op.todo
  /\ AdapterDefined
  /\ TargetAvailable(c)
  /\ FreshUUID(a)
  /\ Create(a, AdapterDef, AdapterScope[c], AdapterProps, TRUE, TRUE)
  /\ adapters' = [adapters EXCEPT ![i] = a]
  /\ op' = [op EXCEPT !.todo = @ \ {i}]
  /\ UNCHANGED <<catalog, registrations, clean>>
  /\ SaveRegistrations(TRUE)

PassOver(i) ==
  /\ op.at = "adapters"
  /\ i \in op.todo
  /\ \/ ~AdapterDefined \/ ~TargetAvailable(registrations[i].contribution)
     \/ Faults \intersect {"save", "build"} # {}
  /\ op' = [op EXCEPT !.todo = @ \ {i}]
  /\ UNCHANGED <<vars, catalog, registrations, stored_registrations, adapters, clean>>

Restored ==
  /\ op.at = "adapters" /\ op.todo = {}
  /\ op' = Idle
  /\ UNCHANGED <<catalog, registrations, adapters>>
  /\ PersistRegistrations(TRUE)

\* A registration in a scope that is gone: create_instance raises, and with
\* it the start-up.
RestoreRaises ==
  /\ op.at = "rebuild"
  /\ \E i \in op.todo : ScopeOfReg(i) \notin scopes

\* The process dies. With "crash" among the faults it may be in the middle
\* of an operation.
CoordinatorCrash ==
  /\ op = Idle \/ "crash" \in Faults \/ RestoreRaises
  /\ Crash
  /\ registrations' = [i \in Instances |-> None]
  /\ adapters' = [i \in Instances |-> None]
  /\ op' = Idle
  /\ clean' = (clean /\ op = Idle)
  /\ UNCHANGED <<catalog, stored_registrations>>

-----------------------------------------------------------------------------
CoordinatorInit ==
  /\ Init
  /\ catalog \in [Contributions -> Releases]
  /\ registrations = [i \in Instances |-> None]
  /\ stored_registrations = [i \in Instances |-> None]
  /\ adapters = [i \in Instances |-> None]
  /\ op = Idle
  /\ clean = TRUE

-----------------------------------------------------------------------------
\* The agent directory adds an agent's scope when it materializes the agent,
\* and removes it with the agent. It does not take the coordinator's lock.
AgentCreated(s) ==
  /\ AddScope(s)
  /\ UNCHANGED coordinatorVars

AgentRemoved(s, saved) ==
  /\ RemoveScope(s, saved)
  /\ UNCHANGED <<catalog, registrations, adapters, op>>
  /\ SaveRegistrations(saved)
  /\ Interrupted(saved)

AgentNext ==
  \E s \in AgentScopes :
    AgentCreated(s) \/ \E saved \in BOOLEAN : AgentRemoved(s, saved)

\* The calls of the management routes and tools
RequestNext ==
  \/ \E c \in Contributions, key \in Keys : BeginInstall(c, key)
  \/ \E i \in Instances, saved \in BOOLEAN :
       \/ \E enabled \in BOOLEAN : SetEnabled(i, enabled, saved)
       \/ \E p \in Settings : UpdateProperties(i, p, saved)
       \/ \E j \in Instances : BeginUpgrade(i, j, saved)
  \/ \E i \in Instances, p \in Settings \union {NoProps}, enabled \in BOOLEAN :
       UpdateRaises(i, p, enabled)
  \/ \E i \in Instances : BeginUninstall(i)
  \/ \E c \in Contributions, v \in Releases : Rescan(c, v)

\* The next manager call of the operation in flight
StepNext ==
  \/ CreateRaises \/ NoTarget
  \/ \E saved \in BOOLEAN :
       \/ Define(saved) \/ DefineAdapter(saved) \/ KillAdapter(saved)
       \/ Unregister(saved) \/ DeleteOld(saved) \/ Finish(saved)
       \/ \E i \in Instances : CreateRegistered(i, saved) \/ BuildAdapter(i, saved)

RestoreNext ==
  \/ \E Broken \in SUBSET Instances : BeginRestore(Broken)
  \/ Rebuilt \/ Restored \/ CoordinatorCrash
  \/ \E i, j \in Instances : Rebuild(i, j) \/ Readapt(i, j)
  \/ \E i \in Instances : PassOver(i)

CoordinatorNext == AgentNext \/ RequestNext \/ StepNext \/ RestoreNext

CoordinatorSpec == CoordinatorInit /\ [][CoordinatorNext]_allVars

-----------------------------------------------------------------------------
(* What the coordinator promises *)

RegistrationOrNone == Registration \union {None}

CoordinatorTypeOK ==
  /\ catalog \in [Contributions -> Releases]
  /\ registrations \in [Instances -> RegistrationOrNone]
  /\ stored_registrations \in [Instances -> RegistrationOrNone]
  /\ adapters \in [Instances -> Instances \union {None}]
  /\ op.at \in {"idle", "define", "create", "adapter", "finish", "kill", "delete",
                "undo", "unregister", "rebuild", "adapters"}
  /\ op.i \in Instances \union {None} /\ op.reg \in RegistrationOrNone
  /\ op.todo \subseteq Instances
  /\ op # Idle => phase = "up"

ServerScoped(c) == ScopeOf[c] \notin AgentScopes

\* Installing under a key is idempotent: however installs, upgrades and
\* uninstalls of a contribution, refused saves, crashes and restarts follow
\* each other, at most one registration carries the key. (An agent's plugins
\* are the exception RestartAddsNoRegistration is about.)
UniqueKeyedRegistration ==
  \A i, j \in Registered :
    /\ registrations[i].contribution = registrations[j].contribution
    /\ registrations[i].key = registrations[j].key
    /\ registrations[i].key # None /\ ServerScoped(registrations[i].contribution)
    => i = j

\* Between operations the registrations and the manager's instances tell the
\* same story, also after restarts, as long as no operation was cut short and
\* no save refused: every registration has its instance, of its definition,
\* in its scope and enabled alike, and every instance of a dynamic plugin has
\* its registration.
RegistrationsAgree ==
  clean /\ op = Idle /\ phase = "up" =>
    \A c \in Contributions : ServerScoped(c) =>
      /\ Named(c) = InstancesOf(DefOf[c])
      /\ \A i \in Named(c) : /\ instances[i].scope = ScopeOf[c]
                            /\ instances[i].enabled = registrations[i].enabled

\* The tools offered to the agents are those of enabled plugins: between
\* operations an adapter the coordinator answers for is an instance of the
\* adapter's definition, serves an enabled registration, and no two
\* registrations share one; whatever was refused or cut short before.
AdaptersServeEnabled ==
  op = Idle =>
    /\ \A i \in Instances : adapters[i] # None =>
         /\ i \in Registered /\ registrations[i].enabled
         /\ adapters[i] \in InstancesOf(AdapterDef)
    /\ \A i, j \in Instances :
         adapters[i] # None /\ adapters[i] = adapters[j] => i = j

\* The server has an instance of the plugin, or will have when it starts.
Has(c) ==
  IF phase = "up" THEN InstancesOf(DefOf[c]) # {}
  ELSE \E i \in Persisted : store.instances[i].def = DefOf[c]

\* Only an uninstallation, or the undoing of an installation, takes the last
\* instance of a dynamic plugin away, in memory or through a crash. An
\* upgrade, above all, has saved the replacement before it deletes what it
\* replaces, so neither a crash nor a refused save loses the plugin.
PluginNeverLost ==
  [][\A c \in Contributions :
       ServerScoped(c) /\ Has(c) /\ ~Has(c)' =>
         op.kind \in {"install", "uninstall"}]_allVars

\* "After a restart, restore() recovers what was persisted": it registers
\* nothing that was not registered before.
RestartAddsNoRegistration ==
  [][op.kind = "restore" =>
       \A c \in Contributions : Cardinality(Named(c)') <= Cardinality(Named(c))]_allVars

\* "The lossy conversion never affects restored state": no component runs
\* with properties in which an object has become its repr.
RestoredStateIsLossless ==
  \A i \in Instances : Living(i) =>
    ~\E p \in Props : JsonSafe[p] # p /\ components[i] = JsonSafe[p]
=============================================================================
