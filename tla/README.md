# langharness, in TLA+

langharness runs LLM agents whose every part is a plugin. One *server* process
holds the plugins (iPOPO components) and a snapshot of them in SQLite; any
number of *CLI* processes share the server, start it when it is not there and
keep it alive by a websocket. This directory models the parts of that program
that are hard to test: what the plugin manager's state looks like after refused
saves, failing constructors and crashes; what the operations on dynamic plugins
leave behind when they are cut short; which instances run for which agent when
requests change agents, their configurations and their models; what an agent
loop does while its services come and go; what the user sees of a response; what
becomes of an edited plugin configuration; and who starts, keeps and ends the
server.

Paths below are relative to `src/src/`.

## 1. Inventory

| Component | State it keeps | Operations | What makes it correct |
|---|---|---|---|
| **PluginManager** (`langharness_plugin/plugin_manager.py`, `registry.py`) | `_plugins`, registry, `_bundles`, `_module_refs`, scope tree, `_instances`, `_user_properties`, the version of the stored snapshot | install/uninstall definitions, add/remove scopes, create/update/delete/ensure instances, apply_config, restore | its structures agree; nothing dangles; memory is in the snapshot; a component runs exactly for an active record |
| **RuntimeMutationCoordinator** (`coordinator.py`) | `_catalog`, `_adapter_instances`, and the manager's `_provenance` (registrations) | install, set_enabled, update_properties, upgrade, uninstall, rescan, restore | keyed installs are idempotent; registrations and instances agree; adapters belong to enabled plugins; an upgrade loses nothing |
| **RuntimeStateStore** (`state_store.py`) | one row: version and JSON snapshot; history | load, save with compare-and-set, append | replaced as a whole or not at all, and only by a server that has seen it |
| **ScopeTree** (`langharness_scope/tree.py`) | scopes with parents | create, remove, restore | a tree: every scope has its parent |
| **Scope policy** (`langharness_plugin/scope_policy.py`, `scoped_dependencies.py`) | metadata of injected services | resolve the best, resolve an aggregate | the nearest provider, a key once |
| **APIGuard** (`langharness/api_guard.py`) | `api_server.lock`, child process, websocket | ensure_api_server, attach_client, detach_client | one server, no CLI waits for ever, no lock stays behind |
| **ClientRegistry, lifeline, lifespan** (`langharness_api/...`) | clients, timer, `should_exit` | attach, detach, mark_ready, timer | exits if and only if unused |
| **Bootstrap, assembly** (`bootstrap.py`, `langharness_api/common/server.py`) | none | bind, discover, restore, assemble, serve | a restart comes back |
| **AgentDirectory, AgentRegistry** (`langharness_core/plugins/agents/`) | loops, instances and configurations of each agent; `agents.json` | list, get_loop, reload, apply_agent_config, ensure_plugin_instance, remove_agent; create, update, delete | one set of components per enabled agent |
| **AgentLoop** (`langharness_core/plugins/loop/`) | bound services, graph | bind, unbind, rebuild, invoke, stream, resume | the graph is of the services that are there; a request is refused for a reason only |
| **Session index, checkpointer** (`langharness_core/plugins/sessions/sqlite.py`) | SQLite rows, one connection | new, touch, list | no turn and no agent is lost |
| **Stream and renderer** (`routes/stream.py`, `resume.py`, `interactive.py`, `rich_renderer.py`) | events under way, segments, live frame, scrollback | send, read, ask for approval, draw | the screen shows what has come, once, in order; a response ends |
| **ConfigStore and its users** (`config_store.py`, `routes/plugins.py`, `commands/plugins.py`, `tools/management.py`) | a file of versions for each scope | read, put, enable, disable, roll back, load at start | what is stored is what runs; no version is lost |
| **Plugins command** (`commands/plugins.py`) | none | complete, parse, dispatch | a word that is offered is understood |
| **Validation** (`langharness_plugin/validation.py`) | services kept out of a field | validate, admit, release | what is accepted can be called as the contract is |
| **Configs, SDK, auth, rate limit, logging, discovery, template plugins** | little or none | translate, format, check | see PROJECT.json |

How they interact. Routes and management tools call the coordinator, the
directory and the registry, most of them from FastAPI's thread pool. Coordinator
and directory call the manager, each in several calls; only a single call of the
manager is protected by its lock and only the coordinator has a lock around its
own. The manager calls iPOPO (which calls the plugins' constructors, any of
which may raise) and, last in every method, the store. The registrations are
kept *in* the manager, so any save by anyone stores them as they are. CLI and
server meet in the health endpoint, the lock file and the lifeline.

The hard behaviours: a save refused after memory and iPOPO have changed; an
exception handler that undoes too little; a crash between two manager calls; a
restart that does not rebuild what ran; two CLIs in the start-up lock; a timer,
a deadline or a signal that comes together with a client; two request threads in
a directory, a configuration file or a tree without a lock that covers what they
do; coroutines that share a connection across awaits; service callbacks in an
order nobody fixes, under a request that compiles a graph. `PROJECT.json` lists
each at its line under "hazards", with the properties that would catch it.

## 2. Plan

1. `PluginManager` - all else stands on it. Done, with proofs in
   `ManagerProofs`.
2. `Coordinator` EXTENDS `PluginManager`: the operations in steps, each step an
   action of the manager. Done; model-checked, and all its properties proved in
   `ManagerProofs`, too.
3. `ServerLifecycle` - independent of the two. Done; model-checked, with liveness;
   its safety proved in `ServerLifecycleProofs`.
4. `AgentDirectory` - requests that materialize, reload, configure and remove
   agents, over the manager's calls as atomic steps, with the registry below and
   the routes above it. Done; model-checked, and all its properties proved in
   `AgentDirectoryProofs`.
5. `ScopedResolution` and `AgentLoop` - which service a loop uses, and its graph,
   under callbacks and a request. Done; model-checked, and all its properties
   proved in `AgentLoopProofs`.
6. `Sessions` - coroutines, one connection, crashes. Done; model-checked, both
   properties proved in `SessionsProofs`.
7. `Transcript`, the abstract specification of what the user sees, and
   `Conversation`, from the model's chunks to the screen, which implements it.
   Done; model-checked, with liveness; the refinement and the other properties proved
   in `ConversationProofs`.
8. `PluginCommands` and `Configuration` - the lines a user may type, the requests
   they become, the files and what runs. Done; model-checked, what concerns the
   files and the server proved in `ConfigurationProofs`.
9. `Contracts` - the signature check against its meaning. Done; model-checked.
10. `ScopeTrees` - the tree with its threads, the file with its servers. Done;
    model-checked, both properties proved in `ScopeTreesProofs`.
11. `DurableCatalog`, an abstract specification of the manager (a map of entries
    that a crash leaves as they are). Done; that `PluginManager` implements it is
    model-checked and proved, that `Coordinator` does is proved.

A theorem worth proving next: that the palette offers only what is understood, as
a statement about the grammar.

## 3. Modules

### PluginManager

One action per method, because every mutating method holds the manager's RLock
throughout and saves at most once, at its end. Its parameters say what may go
wrong inside: `saved`, whether the store accepts the snapshot (an I/O error and
a version conflict are both a refused save), and `built`, whether iPOPO builds
the component. `Faults` restricts a run to some failures.

| TLA+ | Code |
|---|---|
| `plugins`, `registry`, `bundles`, `module_refs` | `_plugins`, `PluginRegistry`, `_bundles`, `_module_refs` |
| `instances`, `user_properties` | `_instances`, `_user_properties` (`None`: no entry - not the same as an empty dictionary) |
| `components` | iPOPO's components, by instance name, with the properties they run with |
| `scopes` | `scope_tree` |
| `store` | the last accepted snapshot |
| `packaged` | the packages importable in the server's environment |
| `Install`, `Uninstall`, `AddScope`, `RemoveScope`, `RemoveSubtree(Aborts)`, `Create`, `Delete`, `Reconfigure(Raises)`, `ApplyConfig`, `Ensure` | the methods of those names (`Reconfigure` is `update_instance`), their exception handlers included |
| `Start`, `StartAborts`, `Crash`, `Repackage` | start-up with `restore`; the exception that ends it; the end of the process; `pip` |

What is abstracted. A call that raises before it changes anything is a stutter.
The ranking of an instance is part of its properties; runtime keys and filters,
which are functions of scope and UUID, are left out, as are the status and source
of a definition, which are only reported. A scope's parent is fixed by its name
(`Ancestors`). `Start` stands for everything up to the snapshot that the
coordinator saves at its end. Because a method saves last, a crash inside it is
a crash before or after it: in between only memory and iPOPO have changed, and
both go with the process.

### DurableCatalog

What the manager promises to whoever calls it: a map of entries that is kept
before it is shown. `PluginManager` maps to it: names are the definitions and
instances, an entry is a definition's version or what a record is stored as
(`Content`), `serving` is `phase = "up"`, `shown` is memory and `kept` the snapshot
(both as `Entered`), `Derived` are the instances of agents' scopes, which a restart
drops. `KeepsCatalog` says that every step of the manager is one of `Put`, `Remove`,
`Stop`, `Recover` or leaves the catalog alone. So a refused mutation adds and changes
nothing, a crash takes nothing away that was shown, and only what was removed while the
store refused can come back. Components, bundles and registrations are not in the
catalog.

### The modules named ...Proofs

The theorems of section 5.

### Coordinator

EXTENDS `PluginManager`. `op` is the operation in flight (the coordinator's lock
admits one); a step is one call of the manager with the assignments up to the
next call, so a crash can fall between any two. `registrations` is the manager's
`_provenance`, `stored_registrations` its part of the snapshot: *every* save
stores it. The agent directory, which does not take the coordinator's lock, adds
and removes agents' scopes between any two steps. `clean` is a history variable:
no operation has been cut short.

Abstracted: a contribution has one group of exports (one adapter); packages do
not leave the catalog; a save refused during `restore` ends the start-up, which
is a crash; `_adapter_definition_installed` is never read.

### ServerLifecycle

CLIs are processes of blocking calls, one step per system call or request. The
server is an event loop: one step per callback up to its next await. `pc[c]` is
the line of `ensure_api_server` or `attach_client` a CLI has come to; `lock` is
the file, with its creator and whether the pid is in it; `clients`, `timer`,
`enabled`, `should_exit` are the fields of `ClientRegistry` and uvicorn.

Abstracted: time is an order of events, so a grace period may end and a deadline
pass at any moment; the configuration directory is always given; the websocket's
accept and `attach` are one callback, the handshake before it is in flight
("connecting"); a health check answers truthfully (its one-second timeout is not
modelled); a signal the terminal sends to the whole process group is not
modelled; a CLI's name is used again only when no server remembers it.

### AgentDirectory

`frame[r]` is where request `r` (a thread of the server) stands, with the local
variables of the directory's methods it is in. A step is one call of the
manager, which its lock makes atomic, or one access to `agents.json`, with the
dictionary code around it. A look-up and the call it decides about are separate
steps: that is where another thread can come in between. With one request the
model is the directory as a sequential program, apart from the coordinator,
which acts at any time.

| TLA+ | Code |
|---|---|
| `registry` | `agents.json`: per agent enabled, disabled or absent |
| `configs`, `plugins`, `loops`, `failed`, `default_llm` | `_configs`, `_instances`, `_loops`, `_failed`, `_default_llm` |
| `live`, `scopes`, `bundles` | the manager's instances, the agents' scopes, `installed_modules()` |
| `foreign` | scopes that hold dynamic plugins, which the directory does not know |
| `List`, `ReloadAll`, `ApplyConfig`, `Stream`, `ChangeAgent` | the calls a request begins with |
| `Write` ... `RemoveAgentScope` | the write of the registry, then `_teardown` (`Drop`, `Kill`) and what its callers do next |
| `CheckDefault`, `CreateDefault` | `_ensure_default_llm` |
| `Listing`, `Pick`, `EnterScope`, `Inherit`, `Bind`, `CreateLoop`, `Rollback` | `_materialize_all` and `_materialize`, with the handler of its exceptions |
| `Visited`, `Replace`, `CreateLlm` | `ensure_plugin_instance` for an llm |

Abstracted: the tools and the name plugin are one kind (`"tools"`), as they are
always bound together by default and created alike; an llm's properties are one
model setting; an instance is its agent, kind, model and a number that stands
for its UUID; bundles are installed only while no request is under way, because
the assembly does it before the server listens. A stream's configuration is
applied on the event loop, so one stream at a time is in the directory. The
manager's own failures are those of `create_instance`; that a delete is refused
belongs to `PluginManager`.

### ScopedResolution, AgentLoop

`ScopedResolution` has `resolve_scoped_aggregate` and `resolve_scoped_best` as
operators: candidates of the visible scopes, the nearest first, then by ranking
and key, a key once. The list the code sorts and goes through is stated by what it
is: the services that no other of their key precedes (`Unshadowed`), in the one
order that `Precedes` admits. `AgentLoop` EXTENDS it. Two threads act. The *event* thread
holds the manager's lock and delivers one service event, callback by callback,
in any order of the fields the service is for (`Delivering`, the `On...`
operators); it has no asyncio loop, so a graph with a checkpointer is only
dropped there. A *request* (`Ask`, then compiling and storing) runs on the
server's asyncio loop. Reading the inputs of a graph and storing the compiled
graph are separate steps.

| TLA+ | Code |
|---|---|
| `loop.llm`, `loop.lists`, `loop.options` | `_llm_provider`, the aggregates, the optional fields |
| `loop.rejected` | what the contract guards keep out |
| `loop.excluded` | `_excluded_services`: the one being unbound, while its callback runs |
| `loop.graph` | `_graph`, by its inputs; `NoGraph`: none |
| `ipopo`, `services` | external: what iPOPO has bound, the service registry |
| `stale`, `request.overtaken` | history variables |

Abstracted: fields of one kind are alike (`"tools"` stands for six aggregates,
`"store"` for the options that need no asyncio loop); what a graph does is its
inputs.

### Sessions

A request is a coroutine that yields at each await. `current` is the index's
connection, opened by the first request that finds none - two may find none.
SQLite's transaction (`holder`, `dirty`, `committed`) is external: a write waits
for the lock another connection holds. `told`, `served` and `overlapped` are
history variables. Times and the order of the list are left out.

### Transcript, Conversation

`Conversation` has the model's chunks (`previous`, `Delta`), the events on the
two connections (`wire`), the CLI (`cli`) and the renderer (`screen`: segments,
tool runs, live frame, what has scrolled). `Transcript` is what the user is
promised; `ShowsTranscript` says that every step of `Conversation` is a step of
it or leaves it alone.

Abstracted: a piece of text is a line of the screen; headlines, wrapping, usage
and layout. A second approval inside `/resume` is shown as an unknown event, as
in the code; ctrl-D ends the CLI, at its prompt and at the question whether to
approve.

### PluginCommands, Configuration

`PluginCommands` is the grammar as a table (`Forms`), completion
(`Candidates`), the handlers that turn a line into a request, and the routes
that turn a request into an operation. `Configuration` EXTENDS it with the files
(`file`), what the manager runs (`record`, `running`), the directory's bindings
and the threads of the server: every access to a file is a step, and a write
opens (which empties the file) and writes in two. `disturbed` is a history
variable: the scopes where two requests overlapped, a put failed half-way or a
crash cut one off.

### Contracts

One method of a contract against the member an instance offers. `Violations` is
`validate`; the properties compare it with what Python does with a call (`Binds`,
external) and with the values that pass (`Has`). An offer is chosen at the
start; a behaviour judges it and releases it. The assumptions of the properties
are the blind spots of the check, section 6.

### ScopeTrees

Each server has its tree, the version it has seen and its manager's lock; the
state file is shared. A removal is the manager's look, one step per scope whose
children are listed, the commit, and the save; `AddScope` may come at any point
in between. `blamed` and `removed` are history variables. Instances are left
out: they are in `PluginManager`.

## 4. Runs

| Run | Question | Bounds, and why they are enough |
|---|---|---|
| `ManagerFaults` | do the structures agree with each other, and is what the manager shows a durable catalog, whatever is refused, cannot be built or crashes? | three definitions over two modules and two factories: two share a module, two claim a factory; two instances and three scopes, one below another: enough for one to go while the other stays. Versions do not matter without "package". `MemoryIsDurable`, which is part of what `KeepsCatalog` says, is proved and not run |
| `ManagerComponents` | does a component run exactly for an active record, and does a restart rebuild what runs? | two definitions, two instances, three property values; packages come and go. The store accepts every save: with refused saves the answer is no (section 6). The empty override of `apply_config` is left out: it empties the record's properties and leaves the component as it is |
| `Coordinator` | what do operations leave behind when cut short anywhere? | an exporting server-scoped plugin and an agent's plugin, three UUIDs: a plugin, its replacement and its adapter exist together; two releases |
| `ServerLifecycle` | is the server there while it is used, and gone when it is not? | two CLIs and two servers: each race of the lock, the port and the lifeline is between two; one of the servers may be started by hand |
| `AgentDirectory` | whatever cannot be created and whatever changes: is every remembered set complete and current, and does nothing else run for an agent? | one request at a time; two agents, so that one fails or is removed beside the other; two model settings; a configuration with a model and one without. Two instances that are alike are the old and the new one of a replacement: with three the state space is the same |
| `AgentLoop` | whatever comes and goes, is the llm the nearest, the graph of what is installed, and a request refused only for a cause? | six providers: an llm in each of two scopes, the farther one with the higher ranking; two tools of one key, one of them raising; a tool without metadata that breaks the contract; a checkpointer. Three at a time: two of a field and one of another |
| `Sessions` | is every turn counted, and no agent lost without an overlap? | two CLIs, two agents, two session ids; two requests at a time, three in all: an overlap and a later look; one crash |
| `Conversation` | does the screen show what has come in, and does every response end? | two words, so that a delta may repeat what was before or not; up to four words and two calls in a response; two events on their way; a frame of four rows, so that runs scroll off it |
| `Configuration` | is what is stored what runs; are versions lost; are the palette's words understood? | two plugins (one with a built-in property, one that cannot be built with one), an agent's scope, two CLIs; two requests at a time, three lines that reach the files: a put, another, a rollback; one crash; lines of up to five words. A request is overtaken only once per scope (`disturbed = {}` in the guards), after which the properties say nothing of it |
| `Contracts` | is the verdict on a signature whether it can be called? | every pair of up to three parameters, with names, kinds, defaults, `*args`, `**kwargs`; every pair of annotations of classes, generics, unions and callables of depth two |
| `ScopeTrees` | can a scope lose its parent, and a server overwrite another's save? | two servers, one with two threads; chains of three scopes; two saves: one, and one that may overwrite it |
| `ServerStartRace` | does the code do what the design says? | expected to be violated, see section 6 |

With two requests every property of `AgentDirectory` but its types fails (TLC
finds each violated), for want of a lock around a look-up and what it decides.
They are stated of one request because the code has no means to keep them with
two.

Deadlock is checked but in the runs whose bounds end the behaviour: `Sessions` and
`Configuration` (requests and crashes), `Conversation` (the user has left),
`ScopeTrees` (saves). Model values are symmetric where nothing tells them apart
and no liveness is checked. `TypeOK` of `AgentLoop`, `AgentDirectory` and
`ServerLifecycle` and `CoordinatorTypeOK` document the variables; the runs of those
modules spend their time on other properties, and the proofs establish the types
(`TypeCorrect`, `CoordinatorTypeCorrect`; in `ServerLifecycleProofs` a conjunct of
`Invariance`).

Every property of a passing run has a mutant: a definition of the model changed
as a plausible bug would change the code, under which TLC finds the property
violated.

### Fairness

Two runs have liveness.

In `Conversation` the graph goes on with its answer (`Answering`) and the CLI reads
what is there (`Reading`), both weakly fair: the one is a task of the server's
event loop, the other a blocking loop over the response. A connection that
breaks tells its reader. The user need not type, decide or approve anything;
`ResponseEnds` is that the prompt, or the question, comes back.

In `ServerLifecycle` processes run and time passes: a CLI takes its next step, its deadlines come, the event loop runs what is ready, timers
end. The CLI's steps are *strongly* fair for one reason: starting a server takes
a free server name, and that names are bounded is the model's concern alone; a
poll that can give up (`GiveUp`) is strongly fair because the deadline stays
past once it is. Nobody has to start, end or kill a CLI or a server.
`StartUpEnds` assumes in addition that CLIs are launched and crash finitely
often: a CLI that finds the lock stale removes it and tries again without
looking at its deadline (`api_guard.py:168-170`), so an endless supply of
crashing CLIs can keep it there.

## 5. What is proved

Every theorem is about every value of the constants that its module's named
assumptions admit: any number of plugins, scopes, agents, CLIs, servers, threads,
requests, lines and crashes. The bounds of the runs are conjuncts of the guards
and no proof uses one. A proof has the same plan everywhere: an invariant that is
inductive, one lemma per action that the action keeps it, and the property as a
consequence. TLC has checked each inductive invariant on the module's run before
it was proved.

| Module | Theorems | Of the runs' properties |
|---|---|---|
| `ManagerProofs`: the manager | `Invariance`, `TypeCorrect`, `DefinitionsAlwaysAgree`, `InstancesAlwaysDefined`, `StoreAlwaysClosed`, `MemoryAlwaysDurable`, `ManagerKeepsCatalog`, `ComponentsAlwaysRecorded`, `RestartAlwaysRebuildsConverted`, `RestartAlwaysRebuildsWhatRuns` | all of `ManagerFaults` and `ManagerComponents` |
| `ManagerProofs`: the coordinator | `CoordinatorInvariance`, `CoordinatorTypeCorrect`, `CoordinatorStoreClosed`, `KeyedRegistrationAlwaysUnique`, `AdaptersAlwaysServeEnabled`, `RegistrationsAlwaysAgree`, `PluginIsNeverLost`, `CoordinatorKeepsCatalog` | all of `Coordinator`, and `KeepsCatalog` |
| `ServerLifecycleProofs` | `Invariance`, `TimerAlwaysRunsWhenUnused`, `LifelineAlwaysCounted`, `LockAlwaysInUse`, `AlwaysExitsOnlyUnused`, `HandStartedNeverExits` | the safety of `ServerLifecycle` |
| `AgentDirectoryProofs` | `TypeCorrect`, `SequentialInvariance`, `NothingEverLeaks`, `GoneAgentsNeverRun`, `MaterializedAlwaysServed`, `SetsFollowConfigs`, `OneSetPerAgent`, `VisitsComplete`, `FailedAgentsStayAlone` | all of `AgentDirectory` |
| `SessionsProofs` | `Invariance`, `TurnsStayCounted`, `AgentsOnlyLostToOverlap` | all of `Sessions` |
| `ConfigurationProofs` | `Invariance`, `NoVersionLost`, `StoredStaysLive` | all of `Configuration` but `PaletteIsHonest` |
| `AgentLoopProofs` | `Invariance`, `TypeCorrect`, `AlwaysTheNearestLlm`, `GraphIsCurrent`, `RefusedForCauseOnly` | all of `AgentLoop` |
| `ConversationProofs` | `ConversationInvariance`, `TextAlwaysArrives`, `OutputsAlwaysUnderTheirCalls`, `ScreenKeepsPromise` | the safety of `Conversation`, with its refinement |
| `ScopeTreesProofs` | `NothingOverwritten`, `OrphansByOverlapOnly` | all of `ScopeTrees` |

### The manager

None of the four invariants of `ManagerFaults` is inductive alone, and neither is `MemoryIsDurable`. That an
instance's definition is installed (`InstancesDefined`) holds after a restart only
because the snapshot is closed (`StoreClosed`); the snapshot is closed because a
save copies a memory whose instances are defined and whose registry names one
definition per factory (`DefinitionsAgree`); and a refused save keeps
`MemoryIsDurable` because each handler restores exactly the memory the last
accepted snapshot was taken from. `DownIsEmpty` ties the two phases together. The
proof has lemmas on the snapshot (`SavedRecord`, `SnapshotType`,
`SavedSnapshotIsClosed`, `ForgettingIsDurable`, `PersistStateKeeps`: what a save,
accepted or refused, does to the part of the invariant it touches).

`ManagerKeepsCatalog` is the refinement, step by step, under that invariant. A save
keeps the catalog that is shown after it (`EntersOrKeeps`); a call that has not saved
adds and changes nothing, so it is a removal or nothing (`Removing`); a call that has
saved changes one entry (`Putting`), or removes any number, as `RemoveScope` does. A
start shows what was kept but the derived entries (`StartRecovers`): there the
conversion to JSON has to be idempotent, because what a restart reads is converted
again when it is saved.

The properties about components need in addition that user properties, the
record and the component agree instance by instance (`ComponentsOK`). They have the
two hypotheses of their run, `EverySaveAccepted` and `NoEmptyOverride`: with a
refused save, or with an override that empties the properties, the code does leave
a component that the record does not describe (section 6). That a restart rebuilds
what ran *as it ran* needs that JSON gives the properties back;
`RestartAlwaysRebuildsConverted` says what holds without.

### The coordinator

`CInv` keeps the manager's invariant through every step of every operation: the
steps are steps of the manager, or save its memory as it is. Beside it stand what
memory and the *stored* snapshot have in common (a registration's instance is of
its contribution's definition, a key is used once) - a crash replaces the one by
the other in the middle of an operation - and, per kind of operation, what the one
in flight has done so far (`Installing`, `Switching`, `Upgrading`, ...).
`RegistrationsAlwaysAgree` and `PluginIsNeverLost` need that a contribution has a
definition of its own (`OwnDefinitions`, as in the run): two that share one could
each claim the other's instance. For the former the invariant is `AInv`, which
adds whether memory and snapshot agree up to the instances in flight.

`CoordinatorKeepsCatalog` needs no new invariant: every step of every operation is
one call of the manager, a save, a start, a crash, or none of them (`StepsAreCalls`,
`RequestsAreCalls`, `RestoresAreCalls`), and each of these is a step of the catalog
(`CallEnters`).

### The life of the server

The three invariants are inductive together with the types, `UnbornIsBlank` (a
server nobody has started has no clients, timer or flag) and `CountedOnce` (a CLI is
counted by one server at most): without it the detach of a lifeline could leave a
server unused with its timer off. `AlwaysExitsOnlyUnused` is an action property.
That a server which was started by hand never ends itself (`HandStartedStays`)
needs that nobody's start-up owns it (`OwnInv`).

### The agent directory

`TypeCorrect` holds of any number of requests that interleave. Everything else is
under `OneRequest`: with two, TLC finds each of the properties violated, for want
of a lock (section 4). `SInv` says of the directory, and of what the request holds
in its hands at the point where it is, that every live instance is accounted for
(`Accounted`), that sets have the shape and the bindings they should (`Shapes`,
`Current`), that what is materialized is served and what failed has nothing
(`Served`), what the request has found out on its way (`OnTheWay`), and that a visit
has dealt with the agents behind it (`Visiting`). An exception in the middle of
`_materialize`, its rollback and a torn-down set are states of one request, so that
the invariant has to speak of them.

### Sessions

A count may only be compared with the row when one knows where the row is: in the
file, or in the transaction of the connection that holds the lock. The invariant
counts, for each session, the requests whose turn is written and not answered
(`CountsOK`), and says of an agent that was served that it is in the committed row,
in the row of the transaction under way, and in every row a request has read and is
about to write, unless touches have overlapped (`UsesOK`, `TouchesMeet`).

### Configurations

A scope's latest history is what the file holds, or, once a request has appended
to it, what that request has in its hands (`Latest`): the file may be empty then.
The invariant says of the latest history what the properties say of the file: it has
all versions a CLI was told of and its last one is in force (`Told`). It is kept
because only one request at a time is at work on an undisturbed file (`Alone`), with
what the file held when it looked (`Fresh`), and because an accepted configuration is
in force for each of its entries (`AppliedIsInForce`), a refused one leaves what was
in force (`RefusedStaysInForce`), and a start makes it so again (`EnsuredFacts`).

### The agent loop

Two of the properties are about a loop at rest; the invariant `LInv` has to say what
holds in the middle of an event, when some fields have heard of it and some have
not. `Heard(d)` is the set of services that the field `d` has heard of. iPOPO's
lists have exactly those, in the order of the registry (`ListsOK`); its best
fields have the best of them, unless the service they have is the one that is about
to leave them (`BestOK`). The loop's fields are iPOPO's but for what a contract
guard keeps out (`FieldsOK`); its llm is the nearest one as soon as its list
of llms has heard of the event (`LlmOK`), because it chooses at every change of that list,
iPOPO changes the field only for a service that is better than the one it has, and a
service that leaves the field leaves the list as well. A graph that is stored, or being compiled by a
thread that nobody has overtaken, is of the fields as they are (`GraphOK`), and
while the component is invalid there is none that counts (`InvalidOK`). What the
loop chooses from is what has metadata: from the manager's tags, or, until the end
of the event that brought it, from the loop's own memory (`KnownOK`). The lemmas
on sequences (`RemoveFirstMoves`, ...) say what taking a service out of a list and
adding one does to its order.

That a request is refused for a cause only (`RefusedForCauseOnly`) is about every
moment, guards at work included, where `GraphOK` says nothing. It rests on three facts
(`RefusalOK`). A valid component whose loop has no llm has it kept out by a guard
(`LlmKeptOut`): whoever puts `None` into the field has rejected the service that iPOPO
is bound to, and what the loop chooses itself is never `None` (`ChosenIsSome`). What a
thread compiles is bound to the loop, unless an event has overtaken the request
(`PartsOK`), so that a compilation that fails does so for a plugin that is still bound
and raises. For this one has to know what is shown of an aggregate: `ResolveRanked` is
a sequence sorted by `Precedes`, one exists for every finite set and strict order
(`SortedExists`: the place of each is how many come before it), `Precedes` is one on what is
shown (`PrecedesOrders`), and so what comes out is of the services of the list, of
those with metadata a key once (`ResolvedFacts`). And a request that has compiled, or
taken, a graph and finds none has one of the causes (`CauseOK`). What is compiled and
stored is a graph, with an llm and tools and options that are services (`GraphTypes`),
which with `Types` gives `TypeCorrect`.

`AlwaysTheNearestLlm` and `GraphIsCurrent` have the hypothesis `LlmsDiffer`: llms have
metadata, and no two of one scope have the same ranking. Without it `LlmIsNearest` does
not hold (section 6). `Invariance`, `TypeCorrect` and `RefusedForCauseOnly` need none.

### The conversation

`CInv` speaks of each place a piece of the answer can be in. On the two connections
only certain events may stand behind each other, and nothing behind the end
(`WireOK`). The renderer moves pieces from the live frame to the scrollback:
whatever a draw, an overflow or the end of a response moves, the scrollback and
the frame together (`Whole`) are what was received, so nothing is lost, doubled or
changed in order (`ScreenOK`, and `Moved`, which each helper of the renderer is
proved to satisfy). A call has a segment of its own while it can still get its
output (`Tidy`), and one that is done stands in a segment or, with its output, in
the scrollback (`Kept`, `OutputsOK`); a call on the wire has not been shown, its
output comes later and on the connection on which the graph is (`CallsOK`).
`TextOK` is `TextArrives` with what a cumulative model has said before.
`ScreenKeepsPromise` is the refinement, step by step, under that invariant: a step
begins a response, ends it with a frame that shows all, or lets one or two pieces
come in and draws or does not.

Frames and texts are flattened sequences. That flattening a longer sequence appends
to what flattening the shorter one gives, and the like, is proved by induction over
lengths, on the *set* of the lengths for which the fact holds (`Least`, `Induction`):
that asks for no predicate as a parameter, which the prover could not instantiate.

### Scope trees

`NothingOverwritten`: a running server whose version is the file's has every scope of
the file in its tree, unless it has removed it since its last save (`SeesTheFile`);
for this no server's version may be ahead of the file's, and a removal that is under
way must be of a running server (`Inv`). `OrphansByOverlapOnly`: what a commit leaves
without a parent is a child of something the walk has found, so the invariant is on
walks: a scope whose parent has been visited was found, or was added since and is
blamed (`Walks`). That no second commit comes between needs that a thread at work
holds its manager's lock (`Locked`).

### Assumptions

`ConstantsAssumption`, `TreeAssumption` (paths to the root are closed, start at the
scope and have no cycle), `FaultsAssumption`, `RecordAssumption`, `CatalogAssumption`
(a value that was converted to JSON is not converted further; definitions, instances,
versions and records are not mistaken for one another) (`PluginManager`);
`CoordinatorAssumption`, `RegistrationAssumption`; `LifecycleAssumption`;
`DirectoryAssumption`, `NoneAssumption`; `SessionsAssumption` (with finitely many
requests at a time, so that they can be counted), `RowsAssumption`;
`ConfigurationAssumption` (with finitely many agents, whose scopes `agent:<id>` are
not called `api` or `cli`); `LoopAssumption`, `EventAssumption` (the chain is a sequence
of scopes, metadata are of its scopes, `None` is no event); `ScopeAssumption`; `ConversationAssumption` (finitely many
calls, which are numbers and not `None`; a run that is not there is told from one that
is; a frame has a row). They say which sets the constants are
from and that `None` is not one of the records it stands beside; TLC evaluates each
in the runs of its module.

### Only model-checked

- *Liveness*: `ServersEventuallyExit`, `StartUpEnds`, `StaleLockIsBroken`,
  `ResponseEnds`. The prover treats neither fairness nor ENABLED.
- *`Contracts`*: its operators are recursive as the code is.
- *`PaletteIsHonest`*: a statement about the table of the grammar, which TLC goes
  through word by word.

## 6. Findings

**Two CLIs can both start a server** (run `ServerStartRace`): a lock file without
its pid counts as stale, so that the other CLI removes it and takes the lock as
well, where the design promises one server
(`docs/designs/2026-09-20-multi-client-server-lifecycle-design.md:152`, from `src/`).

The following disagreements are stated as properties that no run checks by
default; each is violated when it replaces the properties of the configuration
named, with the constants given, and without SYMMETRY.

| Property (module) | Configuration | What the code does | What is said |
|---|---|---|---|
| `FailedUpdateRestores` (`PluginManager`) | `ManagerComponents`, `Faults = {"save"}` | a failed update kills a component that is already dead; a refused save restores the record and leaves the new component (`plugin_manager.py:617-631`) | a failed update restores component and snapshot (`docs/designs/2026-09-19-plugin-manager-redesign-design.md:218`) |
| `PropertiesSurvive` (`PluginManager`) | `ManagerComponents`, `Faults = {}` | a disabled instance loses its properties when it is enabled after a restart (`plugin_manager.py:968`) | properties are recovered by a restart (ibid. :397) |
| `StartNeverAborts` (`PluginManager`) | `ManagerComponents`, `Faults = {"package"}` | a definition whose package is gone ends the start (`plugin_manager.py:946`) | it is kept and marked missing (ibid. :352) |
| `RestartAddsNoRegistration` (`Coordinator`) | `Coordinator`, `Contributions = {"own"}`, `Faults = {"crash"}` | an agent's plugins double with every restart (`coordinator.py:251`) | they are recovered as they were (`README.md:169`) |
| `RestoredStateIsLossless` (`Coordinator`) | `Coordinator`, `Contributions = {"tools"}`, `Faults = {"crash"}` | adapters are restored with the text of their objects (`plugin_manager.py:78`) | the conversion never affects restored state (`plugin_manager.py:82-83`) |
| `OnePluginSet` (`AgentDirectory`) | `AgentDirectory`, `Requests <- MCTwo`, `Faults = {}` | two requests build an agent twice, and nobody tears down the first loop (`directory.py:230`) | "one plugin set per agent" (`directory.py:1`) |
| `AgentsUsedComplete` (`Sessions`) | `Sessions` | of two overlapping touches one loses its agent (`sqlite.py:82`) | the index tracks "which agents each session has used" (`sqlite.py:54`) |
| `DeltasArrive` (`Conversation`) | `Conversation` | the deltas "a", "a": the second is taken for a cumulative chunk without news (`agent_loop.py:661-665`) | "an identical consecutive delta is never sliced to nothing" (`agent_loop.py:658-660`) |

Seen while modelling, and part of the models:

- *Configuration.* A version of a plugin configuration is lost when two requests
  overlap, when two CLIs edit what each has read before, or when a crash falls
  between opening and writing the file (then the file is empty and the server does
  not start), where `config_store.py:3-5` says that none is. `apply_config` empties
  the stored properties before `update_instance` compares (`plugin_manager.py:816`,
  597-601): an entry without properties changes the record and leaves the component
  as it was, against the docstring at 804. It also drops the properties given in
  code until the next restart. A put that is refused for its last name has applied
  the ones before; a rollback to a version that does not name a plugin leaves its
  override in force. A component that cannot be built with its new properties is
  dead and cannot be configured until a restart, for killing it again raises.
  Secrets are applied and not stored; the next edit drops them.
- *Command line.* `set`, `history` and `rollback` exist at the prompt only, where the
  README promises the same operations (`README.md:121`); `plugins config enable ...`
  from the shell prints the configuration.
- *Sessions.* Two requests that both find no connection leak one; a failed insert
  on it keeps the database locked until a restart.
- *Conversation.* A running call that has scrolled off the live frame never shows its
  output.
- *Agent loop.* A request that stores its graph after an event has overtaken it
  serves the services of before until the next event. Of llms of one scope with
  one ranking the loop prefers the first key and iPOPO the oldest service: with
  three of them the loop may rest on another than the first, if iPOPO delivers a
  departure to the list of llms before it replaces the best one
  (`agent_loop.py:291-298`, 316-319). In the run, llms differ in their scopes.
- *Contracts.* The check compares `Callable` parameter lists in the wrong direction;
  a plain class is refused where a generic of it is expected; an argument may be
  displaced by position (documented, `validation.py:307-313`); a default of the
  contract that the implementation does not have is not noticed, and neither is a
  contract of which only one of `*args` and `**kwargs` is absorbed.
- *Scopes.* A scope added below one that is being removed is saved as an orphan,
  and no server starts from then on (`plugin_manager.py:1036`). After a refused save
  a server's tree stays changed and its later saves are refused too.

## 7. Not modelled

- *Configs, authentication, rate limit, logging, SDK, discovery, template plugins*:
  little state, and none that others depend on; discovery appears by its result
  (`packaged`, `catalog`).
- *Layout of the terminal, history files, option parsing*: data without control.
- *The JSON encodings and the schema check of the state store, the history store*:
  nothing reads the history back into the program.
- *LangChain's graph and checkpointer, iPOPO, SQLite, Python's calls*: external;
  modelled by how the code uses them.
- *`PluginScopePolicy`'s methods*: nobody calls them; the loop uses the two functions
  that are modelled. *`SqliteScopeStore`*: not used by the manager.
- *Of the agent directory*: restarts over the manager's restored instances (each
  adds a default LLM), the loss of its scope service, which empties the
  dictionaries without killing anything, and plugins other than the llm in
  `ensure_plugin_instance`, which no route asks for. An llm whose replacement fails
  leaves the entry of the deleted one behind; the model has that (`CreateLlm`), and
  no property claims the contrary.
- *Compositions.* The agent loop over the directory's restarts, and the configuration
  routes over the whole manager, would multiply state spaces that are at their
  bounds now; each module has the effect of its neighbour as an action of its own.
- *Circles in the scope tree*, which appear when a removed scope is added again
  below its own orphan (`tree.py:71-87` accepts it, `descendants` then does not end):
  excluded by a guard of `AddScope`.
