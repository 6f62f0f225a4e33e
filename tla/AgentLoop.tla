------------------------------ MODULE AgentLoop ------------------------------
(***************************************************************************)
(* The agent loop: an iPOPO component that keeps a compiled agent graph    *)
(* for the plugins injected into its fields, drops or rebuilds it when one *)
(* comes or goes, and builds it for the first request that needs it.       *)
(*                                                                         *)
(* Two threads act on it. The event thread holds the plugin manager's lock *)
(* and delivers one service event at a time, callback by callback; it has  *)
(* no asyncio loop. A request runs on the server's asyncio loop. Reading   *)
(* the inputs of a graph is one step and storing the compiled graph        *)
(* another: compiling takes long, and nothing is locked meanwhile.         *)
(*                                                                         *)
(* Fields of one kind are alike: "tools" stands for the six aggregates,    *)
(* "store" for the optional fields that need no asyncio loop. Providers    *)
(* are the services that pass the filter of their field.                   *)
(***************************************************************************)
EXTENDS ScopedResolution

CONSTANTS
  Providers,     \* services that may be registered
  FieldOf,       \* the field each is for: "llm", "tools", "checkpointer", "store"
  RankOf,        \* what the manager knows of each: a candidate, or None (raw)
  Violators,     \* those that do not conform to the contract of their field
  Broken,        \* those whose get_...() raises
  Chain,         \* the scope chain of the loop, its own scope first
  MaxServices,   \* bound: services registered at a time
  None

Aggregates == {"scoped", "tools"}       \* "scoped" is _scoped_llm_providers
Options    == {"checkpointer", "store"}
Threads    == {"event", "request"}

ASSUME LoopAssumption ==
  /\ Chain \in Seq(Range(Chain))
  /\ FieldOf \in [Providers -> {"llm", "tools"} \union Options]
  /\ \A p \in Providers : RankOf[p] # None =>
       RankOf[p] \in [scope: Range(Chain), key: Int, ranking: Int]
  /\ Violators \subseteq Providers /\ Broken \subseteq Providers
  /\ None \notin Providers /\ MaxServices \in Nat

\* A service event, with the fields it is still to be delivered for
Events == [op: {"arrive", "leave"}, provider: Providers,
           todo: SUBSET (Aggregates \union {"llm"} \union Options)]

ASSUME EventAssumption == None \notin Events

VARIABLES
  services, \* external: the service registry, in the order of registration
  tagged,   \* providers whose object has _plugin_scope_id, _plugin_key set
  ipopo,    \* external: the component's state and what each field is bound to
  loop,     \* the component's own attributes
  event,    \* the service event being delivered, None: none is
  build,    \* the graph each thread is compiling, NoGraph: none
  request,  \* where the request stands and (history) whether an event changed the
            \* component under way
  stale     \* history: _graph was stored after its inputs had changed

vars == <<services, tagged, ipopo, loop, event, build, request, stale>>

NoOption == [o \in Options |-> None]

\* A graph is what it was compiled from
NoGraph == [model |-> None, tools |-> <<>>, options |-> NoOption]

-----------------------------------------------------------------------------
(* What iPOPO injects *)

Dependencies(p) == IF FieldOf[p] = "llm" THEN {"llm", "scoped"} ELSE {FieldOf[p]}

\* service.ranking is the depth of the scope, then the plugin's own ranking; of
\* two alike the older service is better.
Better(p, q) ==
  \/ RankOf[p] # None /\ RankOf[q] # None
     /\ \/ Distance(Chain, RankOf[p].scope) < Distance(Chain, RankOf[q].scope)
        \/ RankOf[p].scope = RankOf[q].scope /\ RankOf[p].ranking > RankOf[q].ranking
  \/ RankOf[p] = None /\ RankOf[q] # None

Older(list, p, q) == \E i, j \in DOMAIN list : i < j /\ list[i] = p /\ list[j] = q

\* The service a best field gets when its own is gone
Replacement(field, rest) ==
  LET for == {p \in Range(rest) : field \in Dependencies(p)}
  IN  IF for = {} THEN None
      ELSE CHOOSE p \in for : \A q \in for \ {p} :
             Better(p, q) \/ (~Better(q, p) /\ Older(rest, p, q))

-----------------------------------------------------------------------------
(* The component's helpers, on its attributes l *)

\* ContractGuard.admit: a violator is taken out of the field it was put into.
Admits(p) == p \notin Violators

Quarantine(l, field, p) ==
  LET out == CASE field = "llm"         -> [l EXCEPT !.llm = None]
               [] field \in Options     -> [l EXCEPT !.options[field] = None]
               [] field \in Aggregates  -> [l EXCEPT !.lists[field] = RemoveFirst(@, p)]
  IN  [out EXCEPT !.rejected = @ \union {<<field, p>>}]

Release(l, field, p)  == [l EXCEPT !.rejected = @ \ {<<field, p>>}]
Remember(l, p) == [l EXCEPT !.remembered = @ \union ({p} \ {q \in Providers : RankOf[q] = None})]
Forget(l, p)   == [l EXCEPT !.remembered = @ \ {p}]
DropGraph(l)   == [l EXCEPT !.graph = NoGraph]

Known(l) == l.remembered \union tagged

Without(l, list) == RemoveFirst(l.lists[list], l.excluded)

Effective(l, list) ==
  ResolveInjected(Chain, Without(l, list), [p \in Known(l) |-> RankOf[p]])

\* Mutant: the order of iPOPO's list decides.
FirstScopedLlm(l) ==
  IF l.lists["scoped"] = <<>> THEN l ELSE [l EXCEPT !.llm = Head(l.lists["scoped"])]

ResolveScopedLlm(l) ==
  LET selected == ResolveInjectedBest(Chain, Without(l, "scoped"), [p \in Known(l) |-> RankOf[p]])
  IN  IF selected = {} THEN l ELSE [l EXCEPT !.llm = CHOOSE p \in selected : TRUE]

\* The arguments of create_agent
Inputs(l) == [model |-> l.llm, tools |-> Effective(l, "tools"), options |-> l.options]

Fails(inputs) ==
  Broken \intersect ({inputs.model} \union Range(inputs.tools)
                       \union {inputs.options[o] : o \in Options}) # {}

\* _rebuild up to create_agent, by a thread: either there is nothing to compile
\* and no graph, or the thread goes on to compile one.
Rebuild(l, thread) ==
  IF \/ l.llm = None
     \/ l.llm \in Broken
     \/ l.options["checkpointer"] # None /\ thread = "event"
    THEN [after |-> DropGraph(l), inputs |-> NoGraph]
    ELSE [after |-> l, inputs |-> Inputs(l)]

Only(l) == [after |-> l, inputs |-> NoGraph]

-----------------------------------------------------------------------------
(* The callbacks: each returns the attributes after it and what is to be    *)
(* compiled before the event thread goes on. iPOPO has set the field when a *)
(* bind callback runs, and not yet when an unbind callback does.            *)

OnValidate(l)   == Rebuild(ResolveScopedLlm(l), "event")
OnInvalidate(l) == DropGraph(l)

OnLlmBind(l, p) ==
  IF Admits(p) THEN Rebuild(l, "event") ELSE Only(DropGraph(Quarantine(l, "llm", p)))
OnLlmUnbind(l, p) == DropGraph(Release(l, "llm", p))

OnScopedLlmBind(l, p) ==
  IF Admits(p) THEN Rebuild(ResolveScopedLlm(Remember(l, p)), "event")
  ELSE Only(Quarantine(l, "scoped", p))
OnScopedLlmUnbind(l, p) ==
  Rebuild(ResolveScopedLlm(Forget(Release([l EXCEPT !.excluded = p], "scoped", p), p)), "event")

OnAggregateBind(l, p) ==
  IF Admits(p) THEN Rebuild(Remember(l, p), "event") ELSE Only(Quarantine(l, "tools", p))
\* Mutant: without _excluding_service, the field still holds what leaves.
OnAggregateUnbindLate(l, p) == Rebuild(Forget(Release(l, "tools", p), p), "event")

OnAggregateUnbind(l, p) ==
  Rebuild(Forget(Release([l EXCEPT !.excluded = p], "tools", p), p), "event")

OnOptionBind(l, o, p) ==
  IF Admits(p) THEN Rebuild(l, "event") ELSE Only(Quarantine(l, o, p))
OnOptionUnbind(l, o, p) == DropGraph(Release(l, o, p))

-----------------------------------------------------------------------------
(* The event thread *)

BestField(l, f) == IF f = "llm" THEN l.llm ELSE l.options[f]
SetBest(l, f, p) == IF f = "llm" THEN [l EXCEPT !.llm = p] ELSE [l EXCEPT !.options[f] = p]

\* Inject p into a best field: the callback runs in a valid component only. An
\* llm makes the component valid.
BestBound(l, f, p, valid) ==
  LET set == SetBest(l, f, p)
  IN  CASE valid /\ f = "llm" -> OnLlmBind(set, p)
        [] valid /\ f # "llm" -> OnOptionBind(set, f, p)
        [] ~valid /\ f = "llm" -> OnValidate(set)
        [] OTHER -> Only(set)

\* Take p out of a best field: a component without llm is invalidated first,
\* and only the callbacks of the optional fields run in an invalid one.
BestUnbound(l, f, p, valid) ==
  LET called == IF f = "llm" THEN (IF valid THEN OnLlmUnbind(l, p) ELSE OnInvalidate(l))
                ELSE OnOptionUnbind(l, f, p)
  IN  SetBest(called, f, None)

ListBound(l, list, p) ==
  IF list = "scoped" THEN OnScopedLlmBind(l, p) ELSE OnAggregateBind(l, p)
ListUnbound(l, list, p) ==
  IF list = "scoped" THEN OnScopedLlmUnbind(l, p) ELSE OnAggregateUnbind(l, p)

\* The event thread leaves a callback with the attributes of result, or goes on
\* to compile.
Settle(result) ==
  /\ loop' = [result.after EXCEPT !.excluded = None]
  /\ build' = [build EXCEPT !["event"] = result.inputs]
  /\ stale' = (stale /\ result.after.graph # NoGraph)

Delivering(op, d) ==
  /\ event # None /\ event.op = op /\ d \in event.todo
  /\ build["event"] = NoGraph
  /\ event' = [event EXCEPT !.todo = @ \ {d}]
  /\ request' = [request EXCEPT !.overtaken = (request.pc # "idle")]
  /\ UNCHANGED <<services, tagged>>

\* A plugin instance is created: its service is registered.
Register(p) ==
  /\ event = None /\ p \notin Range(services) /\ Len(services) < MaxServices
  /\ services' = Append(services, p)
  /\ event' = [op |-> "arrive", provider |-> p, todo |-> Dependencies(p)]
  /\ UNCHANGED <<tagged, ipopo, loop, build, request, stale>>

Unregister(p) ==
  /\ event = None /\ p \in Range(services)
  /\ services' = RemoveFirst(services, p)
  /\ event' = [op |-> "leave", provider |-> p, todo |-> Dependencies(p)]
  /\ UNCHANGED <<tagged, ipopo, loop, build, request, stale>>

\* A list gets every service bound to it, those taken out by a guard included.
ArriveInList(d) ==
  /\ Delivering("arrive", d) /\ d \in Aggregates
  /\ LET p == event.provider
         bound == Append(ipopo.lists[d], p)
         set == [loop EXCEPT !.lists[d] = bound]
     IN  /\ ipopo' = [ipopo EXCEPT !.lists[d] = bound]
         /\ Settle(IF ipopo.valid THEN ListBound(set, d, p) ELSE Only(set))

LeaveList(d) ==
  /\ Delivering("leave", d) /\ d \in Aggregates
  /\ LET p == event.provider
         bound == RemoveFirst(ipopo.lists[d], p)
         result == IF ipopo.valid THEN ListUnbound(loop, d, p) ELSE Only(loop)
     IN  /\ ipopo' = [ipopo EXCEPT !.lists[d] = bound]
         /\ Settle([result EXCEPT !.after.lists[d] = bound])

\* A best field that is empty gets the service; a better one replaces what is
\* bound (immediate_rebind).
ArriveInBest(d) ==
  /\ Delivering("arrive", d) /\ d \notin Aggregates
  /\ LET p == event.provider
         old == ipopo.best[d]
     IN  IF old # None /\ ~Better(p, old)
           THEN UNCHANGED <<ipopo, loop, build, stale>>
           ELSE LET freed == IF old = None THEN loop ELSE BestUnbound(loop, d, old, ipopo.valid)
                IN  /\ ipopo' = [ipopo EXCEPT !.best[d] = p, !.valid = @ \/ d = "llm"]
                    /\ Settle(BestBound(freed, d, p, ipopo.valid))

LeaveBest(d) ==
  /\ Delivering("leave", d) /\ d \notin Aggregates
  /\ LET p == event.provider
         next == Replacement(d, services)
         valid == ipopo.valid /\ (d # "llm" \/ next # None)
         freed == BestUnbound(loop, d, p, valid)
     IN  IF ipopo.best[d] # p THEN UNCHANGED <<ipopo, loop, build, stale>>
         ELSE /\ ipopo' = [ipopo EXCEPT !.best[d] = next, !.valid = valid]
              /\ Settle(IF next = None THEN Only(freed) ELSE BestBound(freed, d, next, valid))

\* The event thread stores the graph, or none when a provider raised.
EventStores ==
  /\ build["event"] # NoGraph
  /\ loop' = [loop EXCEPT !.graph = IF Fails(build["event"]) THEN NoGraph ELSE build["event"]]
  /\ build' = [build EXCEPT !["event"] = NoGraph]
  /\ stale' = FALSE
  /\ UNCHANGED <<services, tagged, ipopo, event, request>>

\* create_instance returns: the manager has tagged the new object.
EndEvent ==
  /\ event # None /\ event.todo = {} /\ build["event"] = NoGraph
  /\ event' = None
  /\ tagged' = IF event.op = "leave" THEN tagged \ {event.provider}
               ELSE tagged \union ({event.provider} \ {p \in Providers : RankOf[p] = None})
  /\ UNCHANGED <<services, ipopo, loop, build, request, stale>>

-----------------------------------------------------------------------------
(* The request: astream, by a route that found the loop as a service *)

Idle == [pc |-> "idle", overtaken |-> FALSE]

\* Mutant: no lazy rebuild.
AskForGraph ==
  /\ request.pc = "idle" /\ ipopo.valid
  /\ request' = [request EXCEPT !.pc = "use"]
  /\ UNCHANGED <<services, tagged, ipopo, loop, event, build, stale>>

Ask ==
  /\ request.pc = "idle" /\ ipopo.valid
  /\ request' = [request EXCEPT !.pc = IF loop.graph = NoGraph THEN "build" ELSE "use"]
  /\ UNCHANGED <<services, tagged, ipopo, loop, event, build, stale>>

\* _rebuild on the asyncio loop
RequestBuilds ==
  /\ request.pc = "build"
  /\ LET result == Rebuild(loop, "request")
     IN  /\ loop' = result.after
         /\ build' = [build EXCEPT !["request"] = result.inputs]
         /\ stale' = (stale /\ result.after.graph # NoGraph)
  /\ request' = [request EXCEPT !.pc = "built", !.overtaken = FALSE]
  /\ UNCHANGED <<services, tagged, ipopo, event>>

RequestStores ==
  /\ build["request"] # NoGraph
  /\ LET graph == IF Fails(build["request"]) THEN NoGraph ELSE build["request"]
     IN  /\ loop' = [loop EXCEPT !.graph = graph]
         /\ stale' = (graph # NoGraph /\ request.overtaken)
  /\ build' = [build EXCEPT !["request"] = NoGraph]
  /\ UNCHANGED <<services, tagged, ipopo, event, request>>

\* RuntimeError: Agent graph is not built
Refuse ==
  /\ request.pc = "built" /\ build["request"] = NoGraph /\ loop.graph = NoGraph
  /\ request' = Idle
  /\ UNCHANGED <<services, tagged, ipopo, loop, event, build, stale>>

Proceed ==
  /\ request.pc = "built" /\ build["request"] = NoGraph /\ loop.graph # NoGraph
  /\ request' = [request EXCEPT !.pc = "use"]
  /\ UNCHANGED <<services, tagged, ipopo, loop, event, build, stale>>

\* self._graph is read again: the event thread may have dropped it (the stream
\* ends with an AttributeError). A graph that is found is the stream's own from
\* now on: nothing that happens to the loop touches it.
Use ==
  /\ request.pc = "use"
  /\ request' = Idle
  /\ UNCHANGED <<services, tagged, ipopo, loop, event, build, stale>>

-----------------------------------------------------------------------------
(* The specification *)

Init ==
  /\ services = <<>> /\ tagged = {} /\ event = None /\ stale = FALSE
  /\ ipopo = [valid |-> FALSE, best |-> [f \in {"llm"} \union Options |-> None],
              lists |-> [f \in Aggregates |-> <<>>]]
  /\ loop = [llm |-> None, lists |-> [f \in Aggregates |-> <<>>], options |-> NoOption,
             excluded |-> None, rejected |-> {}, remembered |-> {}, graph |-> NoGraph]
  /\ build = [t \in Threads |-> NoGraph]
  /\ request = Idle

EventStep ==
  \/ \E d \in {"scoped", "tools"} : ArriveInList(d) \/ LeaveList(d)
  \/ \E d \in {"llm"} \union Options : ArriveInBest(d) \/ LeaveBest(d)
  \/ EventStores
  \/ EndEvent

RequestStep ==
  Ask \/ RequestBuilds \/ RequestStores \/ Refuse \/ Proceed \/ Use

Next ==
  \/ \E p \in Providers : Register(p) \/ Unregister(p)
  \/ EventStep
  \/ RequestStep

Spec == Init /\ [][Next]_vars

-----------------------------------------------------------------------------
(* Properties *)

Graphs == [model: Providers, tools: Seq(Providers), options: [Options -> Providers \union {None}]]

\* Type correctness of every variable.
TypeOK ==
  /\ services \in Seq(Providers) /\ tagged \subseteq Providers
  /\ ipopo.valid \in BOOLEAN
  /\ ipopo.best \in [{"llm"} \union Options -> Providers \union {None}]
  /\ ipopo.lists \in [Aggregates -> Seq(Providers)]
  /\ loop.llm \in Providers \union {None} /\ loop.lists \in [Aggregates -> Seq(Providers)]
  /\ loop.options \in [Options -> Providers \union {None}]
  /\ loop.rejected \subseteq ({"llm"} \union Aggregates \union Options) \X Providers
  /\ loop.remembered \subseteq Providers /\ loop.excluded = None
  /\ loop.graph \in Graphs \union {NoGraph}
  /\ event = None \/ (event \in Events /\ event.todo \subseteq Dependencies(event.provider))
  /\ build \in [Threads -> Graphs \union {NoGraph}]
  /\ request.pc \in {"idle", "build", "built", "use"} /\ request.overtaken \in BOOLEAN
  /\ stale \in BOOLEAN

Installed(field) == {p \in Range(services) : FieldOf[p] = field}

\* The services of a field, once each, in the order of the registry
InOrder(list, field) ==
  /\ Range(list) = Installed(field)
  /\ \A i, j \in DOMAIN list : i < j => Older(services, list[i], list[j])

\* The model of the scope policy: the llm that no other comes before
NearestLlm == CHOOSE p \in Installed("llm") :
                \A q \in Installed("llm") : ~Preferred(Chain, RankOf[q], RankOf[p])

\* At rest nothing is delivered and no guard keeps a service out.
AtRest == event = None /\ loop.rejected = {}

\* The llm field is written by two mechanisms, iPOPO's best service by ranking
\* and the loop's own choice by scope, in an order nobody fixes. At rest it
\* holds the llm of the nearest scope (agent_loop.py:291-298, 309-337).
LlmIsNearest == (AtRest /\ ipopo.valid) => loop.llm = NearestLlm

\* A graph that can be used is the graph of the plugins installed now: whatever
\* came and went, in whatever order, one that shadows another included. Only a
\* graph stored by a request that an event had overtaken is not.
GraphServesWhatIsInstalled ==
  (AtRest /\ ~stale /\ loop.graph # NoGraph) =>
    /\ InOrder(loop.lists["tools"], "tools")
    /\ loop.graph =
         [model |-> NearestLlm,
          tools |-> ResolveInjected(Chain, loop.lists["tools"],
                                    [p \in {q \in Providers : RankOf[q] # None} |-> RankOf[p]]),
          options |-> [o \in Options |-> Replacement(o, services)]]

\* What the loop would make a graph of
Bound(l) == {l.llm} \union Range(l.lists["tools"]) \union {l.options[o] : o \in Options}

\* A request is refused, or fails for want of a graph, only if it was overtaken by
\* an event, there is no llm, because none is installed or a guard keeps it out,
\* or a plugin the loop is bound to raises: a graph dropped by an unbind, a failure
\* or the missing asyncio loop of the event thread is always built again by the
\* next request (agent_loop.py:568-577, 628-631).
RefusedOnlyForCause ==
  [][(request.pc # "idle" /\ request'.pc = "idle" /\ loop.graph = NoGraph) =>
       \/ request.overtaken
       \/ loop.llm = None /\ (~ipopo.valid \/ <<"llm", ipopo.best["llm"]>> \in loop.rejected)
       \/ Broken \intersect Bound(loop) # {}]_vars
=============================================================================
