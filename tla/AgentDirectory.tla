---------------------------- MODULE AgentDirectory ----------------------------
(***************************************************************************)
(* The agent directory: it keeps, for every enabled agent of the registry, *)
(* one set of plugin instances and one agent loop in the agent's scope,    *)
(* and changes them when the registry, a configuration or a request does.  *)
(*                                                                         *)
(* The directory has no lock and FastAPI runs its callers in a pool of     *)
(* threads. A step is one call of the plugin manager (atomic under the     *)
(* manager's lock), or one access to the registry's file, with the         *)
(* dictionary code around it; a look-up and the call it decides about are  *)
(* separate steps. One request alone is the directory as a sequential      *)
(* program.                                                                *)
(***************************************************************************)
EXTENDS Integers, FiniteSets

CONSTANTS
  Agents, DefaultAgent, \* agent ids, and the one a new registry file has
  Models,               \* model settings of an llm plugin
  Providers,            \* what providers.default may be (None: not configured)
  Configs,              \* agent configurations a client may apply
  Requests,             \* threads of the server
  Copies,               \* bound: live or remembered instances that are alike
  Faults,               \* {"create"}: create_instance may raise
  None

Plugins == {"tools", "llm"}           \* AGENT_PLUGIN_CATALOG, tools for name too
Kinds   == Plugins \union {"loop", "default"}
Bundles == {"agent", "llm"}           \* agent_required_modules() and llm's

ASSUME DirectoryAssumption ==
  /\ DefaultAgent \in Agents
  /\ Providers \subseteq Models \union {None}
  /\ Configs \subseteq [on: SUBSET Plugins, model: Models \union {None}]
  /\ None \notin Agents \union Models \union Configs
  /\ Copies \subseteq Nat
  /\ Faults \subseteq {"create"}

VARIABLES
  registry,    \* agents.json: "enabled", "disabled", or None
  provider,    \* providers.default, read once (_llm_default_properties)
  bundles,     \* installed_modules()
  live,        \* external: the manager's instances
  scopes,      \* external: the agents whose scope "agent:<id>" exists
  foreign,     \* external: scopes with dynamically installed instances
  configs,     \* _configs
  plugins,     \* _instances: the plugin instances of an agent, None: no entry
  loops,       \* _loops
  failed,      \* _failed
  default_llm, \* _default_llm
  frame        \* where each request stands, and its local variables

managerVars   == <<bundles, live, scopes, foreign>>
directoryVars == <<configs, plugins, loops, failed, default_llm>>
vars == <<registry, provider, managerVars, directoryVars, frame>>

\* A snapshot names an instance (copy: its UUID among those alike) and holds
\* the properties it was created with.
Snapshot == [agent: Agents \union {None}, kind: Kinds,
             model: Models \union {None}, copy: Copies]

\* None is a value of its own: no entry of agents.json, no instance, and no
\* set of plugin instances (one of each kind at most).
ASSUME NoneAssumption ==
  /\ None \notin {"enabled", "disabled"} \union Snapshot
  /\ None # {} /\ \A x, y \in Snapshot : None # {x, y}

Idle == [pc |-> "idle", op |-> None, agent |-> None, arg |-> None, seen |-> None,
         drop |-> {}, todo |-> {}, now |-> None, left |-> {}, held |-> {},
         after |-> None]

-----------------------------------------------------------------------------
(* Helpers *)

At(r, pc) == frame[r].pc = pc
AtRest    == \A r \in Requests : At(r, "idle")

\* The next value of frame, where request r gets the local variables f
Locals(r, f) == [frame EXCEPT ![r] = f]
Goto(r, pc)  == frame' = Locals(r, [frame[r] EXCEPT !.pc = pc])

\* The request returns, or raises to its route.
Return(r) == frame' = Locals(r, Idle)

Materialized == {a \in Agents : plugins[a] # None}
SetOf(a)     == IF plugins[a] = None THEN {} ELSE plugins[a]
LoopOf(a)    == {loops[a]} \ {None}
Owned(a)     == {x \in live : x.agent = a}
Enabled      == {a \in Agents : registry[a] = "enabled"}

\* remove_scope raises ScopeHasInstancesError
Occupied(a) == Owned(a) # {} \/ a \in foreign

\* uuid4: the new instance is neither live nor in any variable
Known == live \union UNION {SetOf(a) \union LoopOf(a) : a \in Agents}
         \union ({default_llm} \ {None}) \union UNION {frame[r].held : r \in Requests}

Alike(a, kind, model, n) ==
  [agent |-> a, kind |-> kind, model |-> model, copy |-> n]

New(a, kind, model) ==
  {Alike(a, kind, model, n) : n \in {c \in Copies :
     /\ Alike(a, kind, model, c) \notin Known
     /\ \A d \in Copies : d < c => Alike(a, kind, model, d) \in Known}}

\* create_instance: one more instance x, or an exception
Creates(ok, x) == live' = IF ok THEN live \union {x} ELSE live
May(ok) == ok \/ "create" \in Faults

First(m, n) == IF m # None THEN m ELSE n

\* binding_properties(a, "llm"), also when the binding is disabled
StoredModel(a) == IF configs[a] = None THEN None ELSE configs[a].model

\* _bindings: DEFAULT_AGENT_PLUGINS without a stored configuration
Bindings(a) == IF configs[a] = None THEN {"tools"} ELSE configs[a].on

\* _binding_properties: the stored model, else providers.default
ModelFor(a, p) == IF p = "llm" THEN First(StoredModel(a), provider) ELSE None

Missing(a) == "agent" \notin bundles \/ ("llm" \in Bindings(a) /\ "llm" \notin bundles)

-----------------------------------------------------------------------------
(* Requests *)

Call(r, op, a, arg, pc) ==
  frame' = Locals(r, [Idle EXCEPT !.op = op, !.agent = a, !.arg = arg, !.pc = pc])

\* GET /agents, GET /agents/{id}/tools and the bind callbacks: they all go
\* through _materialize_all
List(r) ==
  /\ At(r, "idle")
  /\ Call(r, "list", None, None, "all")
  /\ UNCHANGED <<registry, provider, managerVars, directoryVars>>

\* POST, PUT and DELETE /agents read the registry's file first, and raise
\* for an agent that exists already or is unknown; arg is what they write.
ChangeAgent(r, op, a, arg) ==
  /\ At(r, "idle")
  /\ (registry[a] = None) <=> (op = "create")
  /\ frame' = Locals(r, [Idle EXCEPT !.op = op, !.agent = a, !.arg = arg,
                                     !.pc = "write", !.seen = registry])
  /\ UNCHANGED <<registry, provider, managerVars, directoryVars>>

\* Mutant: a deleted agent is only taken out of the registry.
ToDropUnlessDeleted(f) == IF f.op = "delete" THEN {} ELSE {f.agent}

\* The agents a change of the registry tears down
ToDrop(f) == {f.agent}

\* AgentRegistryPlugin._write of the list read before, then reload(a) or
\* remove_agent(a)
Write(r) ==
  LET f == frame[r] IN
  /\ At(r, "write")
  /\ registry' = [f.seen EXCEPT ![f.agent] = f.arg]
  /\ frame' = Locals(r, [f EXCEPT !.pc = "drop", !.seen = None, !.drop = ToDrop(f)])
  /\ UNCHANGED <<provider, managerVars, directoryVars>>

\* Mutant: an agent that has its set keeps it.
ApplyConfigLazily(r, a, c) ==
  /\ At(r, "idle")
  /\ configs' = [configs EXCEPT ![a] = c]
  /\ IF a \in Materialized
       THEN UNCHANGED frame
       ELSE frame' = Locals(r, [Idle EXCEPT !.op = "config", !.agent = a,
                                            !.pc = "drop", !.drop = {a}])
  /\ UNCHANGED <<registry, provider, managerVars, plugins, loops, failed, default_llm>>

\* apply_agent_config, from PUT /plugins, a rollback or the start-up
ApplyConfig(r, a, c) ==
  /\ At(r, "idle")
  /\ configs' = [configs EXCEPT ![a] = c]
  /\ frame' = Locals(r, [Idle EXCEPT !.op = "config", !.agent = a, !.pc = "drop",
                                     !.drop = {a}])
  /\ UNCHANGED <<registry, provider, managerVars, plugins, loops, failed, default_llm>>

\* reload() without an agent: every materialized one, then _materialize_all
ReloadAll(r) ==
  /\ At(r, "idle")
  /\ frame' = Locals(r, [Idle EXCEPT !.op = "reload", !.pc = "drop",
                                     !.drop = Materialized])
  /\ UNCHANGED <<registry, provider, managerVars, directoryVars>>

\* POST /stream: a model is needed unless the agent's llm is configured, and
\* _require_agent refuses an agent that is not enabled. The route's
\* _configuration_lock admits one request until its llm is in place.
Stream(r, a, model) ==
  /\ At(r, "idle")
  /\ \A q \in Requests : frame[q].op # "stream"
  /\ model # None \/ StoredModel(a) # None
  /\ a \in Enabled
  /\ Call(r, "stream", a, model, "all")
  /\ UNCHANGED <<registry, provider, managerVars, directoryVars>>

-----------------------------------------------------------------------------
(* _teardown, in reload, apply_agent_config and remove_agent *)

\* Forget that a failed, kill its loop, take its instances out of the
\* directory; _safe_kill does not mind an instance that is gone.
Drop(r, a) ==
  /\ At(r, "drop") /\ a \in frame[r].drop
  /\ configs' = IF frame[r].op = "delete" THEN [configs EXCEPT ![a] = None] ELSE configs
  /\ failed'  = failed \ {a}
  /\ live'    = live \ LoopOf(a)
  /\ loops'   = [loops EXCEPT ![a] = None]
  /\ plugins' = [plugins EXCEPT ![a] = None]
  /\ frame'   = Locals(r, [frame[r] EXCEPT !.pc = "kill", !.drop = @ \ {a},
                                           !.held = SetOf(a)])
  /\ UNCHANGED <<registry, provider, bundles, scopes, foreign, default_llm>>

\* Mutant: an instance created in vain is only forgotten.
KillTornDown(r, x) ==
  /\ frame[r].pc \in {"kill", "undo"} /\ x \in frame[r].held
  /\ live'  = IF At(r, "undo") THEN live ELSE live \ {x}
  /\ frame' = Locals(r, [frame[r] EXCEPT !.held = @ \ {x}])
  /\ UNCHANGED <<registry, provider, bundles, scopes, foreign, directoryVars>>

\* _safe_kill of an instance taken out by Drop, or created in vain
Kill(r, x) ==
  /\ frame[r].pc \in {"kill", "undo"} /\ x \in frame[r].held
  /\ live'  = live \ {x}
  /\ frame' = Locals(r, [frame[r] EXCEPT !.held = @ \ {x}])
  /\ UNCHANGED <<registry, provider, bundles, scopes, foreign, directoryVars>>

\* The caller goes on: the next agent of reload(), remove_scope, or _lookup
\* and _materialize.
Dropped(r) ==
  LET f == frame[r] IN
  /\ f.pc \in {"kill", "drop"} /\ f.held = {}
  /\ f.pc = "drop" => f.drop = {}
  /\ CASE f.drop # {}       -> Goto(r, "drop")
       [] f.drop = {} /\ f.op = "delete" -> Goto(r, "unscope")
       [] f.drop = {} /\ f.op = "reload" -> Call(r, "list", None, None, "all")
       [] OTHER -> IF f.agent \in Enabled
                     THEN frame' = Locals(r, [f EXCEPT !.pc = "prepare", !.now = f.agent])
                     ELSE Return(r)
  /\ UNCHANGED <<registry, provider, managerVars, directoryVars>>

\* The end of remove_agent: a KeyError is caught, ScopeHasInstancesError is
\* raised to the route; the request ends either way.
RemoveAgentScope(r) ==
  /\ At(r, "unscope")
  /\ scopes' = IF Occupied(frame[r].agent) THEN scopes ELSE scopes \ {frame[r].agent}
  /\ Return(r)
  /\ UNCHANGED <<registry, provider, bundles, live, foreign, directoryVars>>

-----------------------------------------------------------------------------
(* _materialize_all and _materialize *)

NeedsDefault == default_llm = None /\ "llm" \in bundles /\ provider # None

\* The look-up of _ensure_default_llm; both methods begin with it.
CheckDefault(r) ==
  /\ frame[r].pc \in {"all", "prepare"}
  /\ LET next == IF At(r, "all") THEN "listing" ELSE "scope" IN
     IF NeedsDefault
       THEN frame' = Locals(r, [frame[r] EXCEPT !.pc = "default", !.after = next])
       ELSE Goto(r, next)
  /\ UNCHANGED <<registry, provider, managerVars, directoryVars>>

\* ... and its create_instance; an exception is logged.
CreateDefault(r, ok) ==
  /\ At(r, "default") /\ May(ok)
  /\ \E x \in New(None, "default", provider) :
       /\ Creates(ok, x)
       /\ default_llm' = IF ok THEN x ELSE default_llm
  /\ frame' = Locals(r, [frame[r] EXCEPT !.pc = frame[r].after, !.after = None])
  /\ UNCHANGED <<registry, provider, bundles, scopes, foreign,
                 configs, plugins, loops, failed>>

\* _materialize_all reads the registry's list.
Listing(r) ==
  /\ At(r, "listing")
  /\ frame' = Locals(r, [frame[r] EXCEPT !.pc = "next", !.todo = Enabled])
  /\ UNCHANGED <<registry, provider, managerVars, directoryVars>>

\* Mutant: failed agents are tried again.
Built(a) == a \in Materialized

\* Agents that have their set or could not get it are passed over.
Settled(a) == a \in Materialized \union failed

\* The loop of _materialize_all
Pick(r, a) ==
  LET f == [frame[r] EXCEPT !.todo = @ \ {a}] IN
  /\ At(r, "next") /\ a \in frame[r].todo
  /\ frame' = Locals(r, IF Settled(a)
                          THEN f ELSE [f EXCEPT !.pc = "prepare", !.now = a])
  /\ UNCHANGED <<registry, provider, managerVars, directoryVars>>

\* Mutant: the loop ends with the first agent it builds.
PassedLast(f) ==
  [f EXCEPT !.pc = "next", !.now = None, !.left = {}, !.held = {}, !.todo = {}]

\* The next agent of the loop
Passed(f) == [f EXCEPT !.pc = "next", !.now = None, !.left = {}, !.held = {}]

\* _materialize: an agent waits until its bundles are installed; else its
\* scope is added (if it is not there) and its bindings come next.
EnterScope(r) ==
  LET f == frame[r] IN
  /\ At(r, "scope")
  /\ IF Missing(f.now)
       THEN /\ frame' = Locals(r, Passed(f))
            /\ UNCHANGED scopes
       ELSE /\ frame' = Locals(r, [f EXCEPT !.pc = "bind", !.left = Bindings(f.now)])
            /\ scopes' = scopes \union {f.now}
  /\ UNCHANGED <<registry, provider, bundles, live, foreign, directoryVars>>

\* An llm binding without a model: the agent inherits the default.
Inherit(r) ==
  /\ At(r, "bind") /\ "llm" \in frame[r].left
  /\ ModelFor(frame[r].now, "llm") = None
  /\ frame' = Locals(r, [frame[r] EXCEPT !.left = @ \ {"llm"}])
  /\ UNCHANGED <<registry, provider, managerVars, directoryVars>>

\* create_instance for a binding; it raises when the scope is gone, too.
Bind(r, p, ok) ==
  LET f == frame[r] IN
  /\ At(r, "bind") /\ p \in f.left
  /\ p = "llm" => ModelFor(f.now, p) # None
  /\ May(ok) \/ f.now \notin scopes
  /\ ok => f.now \in scopes
  /\ \E x \in New(f.now, p, ModelFor(f.now, p)) :
       /\ Creates(ok, x)
       /\ frame' = Locals(r, IF ok
            THEN [f EXCEPT !.left = @ \ {p}, !.held = @ \union {x}]
            ELSE [f EXCEPT !.left = {}, !.pc = "undo"])
  /\ UNCHANGED <<registry, provider, bundles, scopes, foreign, directoryVars>>

\* Mutant: the set is published before the loop is there.
PublishFirst(r, ok) ==
  LET f == frame[r] IN
  /\ At(r, "bind") /\ f.left = {}
  /\ May(ok) \/ f.now \notin scopes
  /\ ok => f.now \in scopes
  /\ \E x \in New(f.now, "loop", None) :
       /\ Creates(ok, x)
       /\ plugins' = [plugins EXCEPT ![f.now] = f.held]
       /\ loops'   = IF ok THEN [loops EXCEPT ![f.now] = x] ELSE loops
  /\ failed' = failed \ {f.now}
  /\ frame'  = Locals(r, Passed(f))
  /\ UNCHANGED <<registry, provider, bundles, scopes, foreign, configs, default_llm>>

\* The loop comes last, and then the set is published.
CreateLoop(r, ok) ==
  LET f == frame[r] IN
  /\ At(r, "bind") /\ f.left = {}
  /\ May(ok) \/ f.now \notin scopes
  /\ ok => f.now \in scopes
  /\ \E x \in New(f.now, "loop", None) :
       /\ Creates(ok, x)
       /\ IF ok
            THEN /\ failed'  = failed \ {f.now}
                 /\ loops'   = [loops EXCEPT ![f.now] = x]
                 /\ plugins' = [plugins EXCEPT ![f.now] = f.held]
                 /\ frame'   = Locals(r, Passed(f))
            ELSE /\ Goto(r, "undo")
                 /\ UNCHANGED <<failed, loops, plugins>>
  /\ UNCHANGED <<registry, provider, bundles, scopes, foreign, configs, default_llm>>

\* The instances created are killed (Kill), the scope is removed, the agent
\* counts as failed. ScopeHasInstancesError is neither KeyError nor
\* ValueError: it leaves the handler, and the request ends with it.
Rollback(r) ==
  LET f == frame[r] IN
  /\ At(r, "undo") /\ f.held = {}
  /\ IF Occupied(f.now)
       THEN /\ Return(r)
            /\ UNCHANGED <<scopes, failed>>
       ELSE /\ scopes' = scopes \ {f.now}
            /\ failed' = failed \union {f.now}
            /\ frame'  = Locals(r, Passed(f))
  /\ UNCHANGED <<registry, provider, bundles, live, foreign,
                 configs, plugins, loops, default_llm>>

-----------------------------------------------------------------------------
(* ensure_plugin_instance(a, "llm", ...), after its _materialize_all *)

Llms(a)   == {x \in SetOf(a) : x.kind = "llm"}
Wanted(f) == First(f.arg, First(StoredModel(f.agent), provider))

\* The end of _materialize_all. A stream compares what it wants with what the
\* directory remembers; every other request is over.
Visited(r) ==
  LET f == frame[r]
      w == Wanted(f)
  IN
  /\ At(r, "next") /\ f.todo = {}
  /\ CASE f.op # "stream" -> Return(r)
       [] f.op = "stream" /\ (w = None \/ \E x \in Llms(f.agent) : x.model = w)
            -> Call(r, "list", None, None, "all")
       [] OTHER -> frame' = Locals(r, [f EXCEPT
            !.pc = IF Llms(f.agent) = {} THEN "create" ELSE "replace",
            !.arg = w, !.held = Llms(f.agent)])
  /\ UNCHANGED <<registry, provider, managerVars, directoryVars>>

\* delete_instance of the llm in place; it raises when that one is gone.
Replace(r) ==
  LET f == frame[r] IN
  /\ At(r, "replace")
  /\ IF f.held \subseteq live
       THEN frame' = Locals(r, [f EXCEPT !.pc = "create", !.held = {}])
       ELSE Return(r)
  /\ live' = live \ f.held
  /\ UNCHANGED <<registry, provider, bundles, scopes, foreign, directoryVars>>

\* create_instance and the entry for it; then the route's get_loop, which
\* visits the agents once more. An exception leaves the old entry behind.
CreateLlm(r, ok) ==
  LET f == frame[r]
      a == f.agent
      can == a \in scopes /\ "llm" \in bundles
  IN
  /\ At(r, "create")
  /\ May(ok) \/ ~can
  /\ ok => can
  /\ \E x \in New(a, "llm", f.arg) :
       /\ Creates(ok, x)
       /\ plugins' = IF ok
            THEN [plugins EXCEPT ![a] = (SetOf(a) \ Llms(a)) \union {x}] ELSE plugins
  /\ IF ok THEN Call(r, "list", None, None, "all") ELSE Return(r)
  /\ UNCHANGED <<registry, provider, bundles, scopes, foreign,
                 configs, loops, failed, default_llm>>

-----------------------------------------------------------------------------
(* The rest of the server *)

\* The assembly installs the bundles before requests are served.
InstallBundle(b) ==
  /\ AtRest
  /\ b \notin bundles
  /\ bundles' = bundles \union {b}
  /\ UNCHANGED <<registry, provider, live, scopes, foreign, directoryVars, frame>>

\* The coordinator installs dynamic plugins into an agent's scope, and
\* uninstalls them, at any time.
InstallForeign(a) ==
  /\ a \in scopes \ foreign
  /\ foreign' = foreign \union {a}
  /\ UNCHANGED <<registry, provider, bundles, live, scopes, directoryVars, frame>>

UninstallForeign(a) ==
  /\ a \in foreign
  /\ foreign' = foreign \ {a}
  /\ UNCHANGED <<registry, provider, bundles, live, scopes, directoryVars, frame>>

-----------------------------------------------------------------------------
(* Specification *)

Init ==
  /\ registry = [a \in Agents |-> IF a = DefaultAgent THEN "enabled" ELSE None]
  /\ provider \in Providers
  /\ bundles = {} /\ live = {} /\ scopes = {} /\ foreign = {}
  /\ configs = [a \in Agents |-> None]
  /\ plugins = [a \in Agents |-> None]
  /\ loops   = [a \in Agents |-> None]
  /\ failed = {} /\ default_llm = None
  /\ frame = [r \in Requests |-> Idle]

Begin(r) ==
  \/ List(r) \/ ReloadAll(r)
  \/ \E a \in Agents :
       \/ ChangeAgent(r, "create", a, "enabled")
       \/ \E e \in {"enabled", "disabled"} : ChangeAgent(r, "update", a, e)
       \/ ChangeAgent(r, "delete", a, None)
       \/ \E c \in Configs : ApplyConfig(r, a, c)
       \/ \E m \in Models \union {None} : Stream(r, a, m)

Work(r) ==
  \/ Write(r) \/ Dropped(r) \/ RemoveAgentScope(r)
  \/ \E a \in frame[r].drop : Drop(r, a)
  \/ \E x \in frame[r].held : Kill(r, x)
  \/ CheckDefault(r) \/ Listing(r) \/ EnterScope(r) \/ Inherit(r)
  \/ \E a \in frame[r].todo : Pick(r, a)
  \/ Rollback(r) \/ Visited(r) \/ Replace(r)
  \/ \E ok \in BOOLEAN :
       \/ CreateDefault(r, ok) \/ CreateLoop(r, ok) \/ CreateLlm(r, ok)
       \/ \E p \in frame[r].left : Bind(r, p, ok)

Next ==
  \/ \E r \in Requests : Begin(r) \/ Work(r)
  \/ \E b \in Bundles : InstallBundle(b)
  \/ \E a \in Agents : InstallForeign(a) \/ UninstallForeign(a)

Spec == Init /\ [][Next]_vars

-----------------------------------------------------------------------------
(* Properties *)

Frame == [pc: {"idle", "write", "drop", "kill", "undo", "unscope", "all", "prepare",
               "default", "listing", "next", "scope", "bind", "replace", "create"},
          op: {None, "list", "create", "update", "delete", "config", "reload", "stream"},
          agent: Agents \union {None},
          arg: Models \union {"enabled", "disabled", None},
          seen: [Agents -> {"enabled", "disabled", None}] \union {None},
          drop: SUBSET Agents, todo: SUBSET Agents, now: Agents \union {None},
          left: SUBSET Plugins, held: SUBSET Snapshot,
          after: {"listing", "scope", None}]

\* Types, and which local variables a request uses at which point of its way
\* through the directory: no agent, instance or binding is left over from the
\* one before (the locals of _materialize and _teardown).
TypeOK ==
  /\ registry \in [Agents -> {"enabled", "disabled", None}]
  /\ provider \in Providers /\ bundles \subseteq Bundles
  /\ live \subseteq Snapshot /\ scopes \subseteq Agents /\ foreign \subseteq scopes
  /\ configs \in [Agents -> Configs \union {None}]
  /\ \A a \in Agents : plugins[a] = None \/ plugins[a] \subseteq Snapshot
  /\ loops \in [Agents -> Snapshot \union {None}]
  /\ failed \subseteq Agents /\ default_llm \in Snapshot \union {None}
  /\ \A r \in Requests :
       LET f == frame[r] IN
       /\ f \in Frame
       /\ f.pc = "idle" <=> f = Idle
       /\ f.pc \in {"prepare", "scope", "bind", "undo"} => f.now # None
       /\ f.pc \in {"all", "listing", "next"} => f.now = None /\ f.held = {}
       /\ f.pc \notin {"next", "prepare", "scope", "bind", "undo", "default"} =>
            f.todo = {}

\* "One plugin set per agent" (directory.py): with no request under way, no
\* agent has two live instances of a kind, so not two loops, either.
OnePluginSet ==
  AtRest => \A a \in Agents : \A x, y \in Owned(a) : x.kind = y.kind => x = y

\* With no request under way, every instance that lives for an agent is one
\* the directory remembers, and would tear down: whatever failed on the way,
\* nothing is left behind by _teardown and by the rollback of _materialize.
NothingLeaks ==
  AtRest => \A a \in Agents : Owned(a) \subseteq SetOf(a) \union LoopOf(a)

\* An agent that is disabled or deleted has nothing running once the request
\* that changed it is over (reload and remove_agent after the registry).
GoneAgentsRunNothing ==
  AtRest => \A a \in Agents \ Enabled : Owned(a) = {} /\ a \notin Materialized

\* What list_agents calls materialized can be served: its loop lives, and it
\* does not count as failed.
MaterializedIsServed ==
  AtRest => \A a \in Materialized : loops[a] \in live /\ a \notin failed

\* A set has the bindings of the agent's current configuration, apart from
\* the llm, which streams add and inheritance takes away.
SetFollowsConfig ==
  AtRest => \A a \in Materialized :
    {x.kind : x \in SetOf(a)} \ {"llm"} = Bindings(a) \ {"llm"}

\* A visit of all agents that comes to its end has dealt with each: an
\* enabled agent whose bundles are installed has its set or counts as failed,
\* whichever other agents failed before it.
VisitCompletes ==
  [][\A r \in Requests :
       At(r, "next") /\ frame[r].op = "list" /\ frame'[r].pc = "idle" =>
         \A a \in Enabled : ~Missing(a) => a \in Materialized \union failed]_vars

\* An agent that failed is left alone until it is reloaded or configured
\* again: listings do not retry it, and a stream cannot give it an llm (it
\* has no scope).
FailedAgentsAreLeftAlone ==
  [][\A a \in failed \intersect failed' : Owned(a)' \subseteq Owned(a)]_vars
=============================================================================
