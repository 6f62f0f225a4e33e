------------------------- MODULE AgentDirectoryProofs -------------------------
(***************************************************************************)
(* The agent directory, for any agents, models, configurations and faults. *)
(* Types and local variables are right however many requests interleave.   *)
(* What the directory promises of its agents holds of one request at a     *)
(* time, since it has no lock: the invariant follows a request through its *)
(* methods, with what it holds in its hands.                               *)
(***************************************************************************)
EXTENDS AgentDirectory, TLAPS

\* A request at a point of its way, with the local variables it has there.
Located(f) ==
  /\ f \in Frame
  /\ f.pc = "idle" <=> f = Idle
  /\ f.pc \in {"prepare", "scope", "bind", "undo"} => f.now \in Agents
  /\ f.pc \in {"all", "listing", "next"} => f.now = None /\ f.held = {}
  /\ f.pc \notin {"next", "prepare", "scope", "bind", "undo", "default"} => f.todo = {}
  /\ f.pc = "default" =>
       \/ f.after = "listing" /\ f.now = None /\ f.held = {} /\ f.todo = {}
       \/ f.after = "scope" /\ f.now \in Agents
  /\ f.pc = "write" =>
       /\ f.agent \in Agents /\ f.arg \in {"enabled", "disabled", None}
       /\ f.seen \in [Agents -> {"enabled", "disabled", None}]
  /\ f.pc # "idle" /\ f.op = "stream" => f.agent \in Agents /\ f.arg \in Models \union {None}
  /\ f.pc \in {"create", "replace"} => f.op = "stream"

DirectoryTypes ==
  /\ registry \in [Agents -> {"enabled", "disabled", None}]
  /\ provider \in Providers /\ bundles \subseteq Bundles
  /\ live \subseteq Snapshot /\ scopes \subseteq Agents /\ foreign \subseteq scopes
  /\ configs \in [Agents -> Configs \union {None}]
  /\ plugins \in [Agents -> (SUBSET Snapshot) \union {None}]
  /\ loops \in [Agents -> Snapshot \union {None}]
  /\ failed \subseteq Agents /\ default_llm \in Snapshot \union {None}

TInv ==
  /\ DirectoryTypes
  /\ frame \in [Requests -> Frame]
  /\ \A r \in Requests : Located(frame[r])

-----------------------------------------------------------------------------
(* One request at a time *)

OneRequest == \E r \in Requests : Requests = {r}

\* The instances a request has in its hands: taken out of the directory and
\* not killed yet, or created and not published yet.
Hands(f) == IF f.pc \in {"kill", "bind", "undo"} THEN f.held ELSE {}

\* The agents whose sets it is about to tear down
Falling(f) == IF f.pc \in {"drop", "kill"} THEN f.drop ELSE {}

\* It is in _materialize, and has found that agent f.now needs a set.
Entered(f) ==
  f.pc \in {"prepare", "scope", "bind", "undo"} \/ (f.pc = "default" /\ f.after = "scope")

KindsOf(S) == {x.kind : x \in S}

\* Every instance that lives for an agent is in the directory or in hand.
Accounted(f) ==
  \A x \in live : x.agent \in Agents =>
    x \in SetOf(x.agent) \union LoopOf(x.agent) \union Hands(f)

\* Sets, loops and hands hold what they are for, a plugin of a kind once.
Shapes(f) ==
  /\ \A a \in Agents :
       /\ \A x \in SetOf(a) : x.agent = a /\ x.kind \in Plugins
       /\ \A x, y \in SetOf(a) : x.kind = y.kind => x = y
       /\ loops[a] # None => loops[a].agent = a /\ loops[a].kind = "loop"
  /\ \A x \in f.held : x.kind \in Plugins
  /\ Entered(f) => /\ \A x \in f.held : x.agent = f.now
                   /\ \A x, y \in f.held : x.kind = y.kind => x = y

\* An agent with a set has its loop, which lives, and one without has none;
\* one that failed has neither a set nor a scope.
Served ==
  /\ \A a \in Agents : IF a \in Materialized THEN loops[a] \in live ELSE loops[a] = None
  /\ \A a \in failed : a \notin scopes /\ a \notin Materialized
  /\ scopes # {} => "agent" \in bundles

\* The sets that are not about to go are those of enabled agents, as their
\* configuration is now.
Current(f) ==
  \A a \in Materialized \ Falling(f) :
    /\ a \in Enabled
    /\ KindsOf(SetOf(a)) \ {"llm"} = Bindings(a) \ {"llm"}

\* Where the request stands, and what it has found out on its way there
OnTheWay(f) ==
  /\ f.pc = "write" => f.seen = registry
  /\ f.pc \in {"write", "drop", "kill", "unscope"} => f.op \notin {"list", "stream"}
  /\ f.pc \in {"drop", "kill"} /\ f.op # "reload" =>
       \/ f.drop = {f.agent}
       \/ f.drop = {} /\ f.pc = "kill" /\ f.agent \notin Materialized \union failed
  /\ f.todo \subseteq Enabled
  /\ f.pc # "idle" /\ f.op = "stream" => f.agent \in Enabled
  /\ Entered(f) =>
       /\ f.now \in Enabled /\ f.now \notin Materialized \union failed
       /\ f.pc \notin {"bind", "undo"} => f.held = {}
  /\ f.pc = "bind" =>
       /\ (KindsOf(f.held) \union f.left) \ {"llm"} = Bindings(f.now) \ {"llm"}
       /\ \A x \in f.held : x.kind \notin f.left
  /\ f.pc = "replace" => f.held = Llms(f.agent)
  /\ f.pc = "create" => Llms(f.agent) \intersect live = {}

\* A visit of all agents has dealt with those it has passed.
Visiting(f) ==
  /\ f.op \in {"list", "stream"} /\ (f.pc \in {"next", "create", "replace"} \/ Entered(f)) =>
       \A a \in Enabled : \/ a \in f.todo \/ (Entered(f) /\ a = f.now)
                          \/ a \in Materialized \union failed \/ Missing(a)

Sequential(f) ==
  /\ Accounted(f) /\ Shapes(f) /\ Served /\ Current(f) /\ OnTheWay(f) /\ Visiting(f)

SInv == \A r \in Requests : Sequential(frame[r])

-----------------------------------------------------------------------------
(* Types and local variables, for any number of requests *)

\* A step of request r that leaves it at g: the other requests stand still.
LEMMA Moves ==
  ASSUME TInv, DirectoryTypes', NEW r \in Requests, NEW g, Located(g),
         frame' = Locals(r, g)
  PROVE  TInv'
  BY DEF TInv, Locals, Located

\* A step that moves no request.
LEMMA NobodyMoves ==
  ASSUME TInv, DirectoryTypes', frame' = frame
  PROVE  TInv'
  BY DEF TInv

LEMMA IdleIsLocated == Located(Idle) /\ Idle \in Frame
  BY DEF Located, Idle, Frame

\* create_instance makes an instance that is not there yet.
LEMMA NewIsNew ==
  ASSUME NEW a \in Agents \union {None}, NEW kind \in Kinds,
         NEW model \in Models \union {None}, NEW x \in New(a, kind, model)
  PROVE  /\ x \in Snapshot /\ x # None /\ x \notin Known
         /\ x.agent = a /\ x.kind = kind /\ x.model = model
<1>1. PICK n \in Copies : x = Alike(a, kind, model, n) /\ Alike(a, kind, model, n) \notin Known
  BY DEF New
<1>2. x \in Snapshot /\ x.agent = a /\ x.kind = kind /\ x.model = model
  BY <1>1 DEF Alike, Snapshot
<1> QED
  BY <1>1, <1>2, NoneAssumption

LEMMA StoredModelType ==
  ASSUME DirectoryTypes, NEW a \in Agents
  PROVE  /\ StoredModel(a) \in Models \union {None} /\ Bindings(a) \subseteq Plugins
         /\ \A p : ModelFor(a, p) \in Models \union {None}
         /\ provider \in Models \union {None}
<1>1. configs[a] # None => configs[a] \in [on: SUBSET Plugins, model: Models \union {None}]
  BY DirectoryAssumption DEF DirectoryTypes
<1>2. StoredModel(a) \in Models \union {None} /\ Bindings(a) \subseteq Plugins
  BY <1>1 DEF StoredModel, Bindings, Plugins
<1>3. provider \in Models \union {None}
  BY DirectoryAssumption DEF DirectoryTypes
<1> QED
  BY <1>2, <1>3 DEF ModelFor, First

LEMMA EnabledAreAgents == Enabled \subseteq Agents /\ Materialized \subseteq Agents
  BY DEF Enabled, Materialized

-----------------------------------------------------------------------------
LEMMA BeginTyped ==
  ASSUME TInv, NEW r \in Requests, Begin(r)
  PROVE  TInv'
<1> USE DEF Frame, Idle
<1>1. CASE List(r)
  <2> DEFINE g == [Idle EXCEPT !.op = "list", !.agent = None, !.arg = None, !.pc = "all"]
  <2>1. Located(g)
    BY DEF Located
  <2>2. DirectoryTypes' /\ frame' = Locals(r, g)
    BY <1>1 DEF List, Call, TInv, DirectoryTypes, managerVars, directoryVars
  <2> QED
    BY <2>1, <2>2, Moves
<1>2. ASSUME NEW op \in {"create", "update", "delete"}, NEW a \in Agents,
             NEW arg \in {"enabled", "disabled", None}, ChangeAgent(r, op, a, arg)
      PROVE  TInv'
  <2> DEFINE g == [Idle EXCEPT !.op = op, !.agent = a, !.arg = arg, !.pc = "write",
                               !.seen = registry]
  <2>1. Located(g)
    BY ZenonT(30) DEF Located, TInv, DirectoryTypes
  <2>2. DirectoryTypes' /\ frame' = Locals(r, g)
    BY <1>2 DEF ChangeAgent, TInv, DirectoryTypes, managerVars, directoryVars
  <2> QED
    BY <2>1, <2>2, Moves
<1>3. ASSUME NEW a \in Agents, NEW c \in Configs, ApplyConfig(r, a, c)
      PROVE  TInv'
  <2> DEFINE g == [Idle EXCEPT !.op = "config", !.agent = a, !.pc = "drop", !.drop = {a}]
  <2>1. Located(g)
    BY DEF Located
  <2>2. DirectoryTypes' /\ frame' = Locals(r, g)
    BY <1>3 DEF ApplyConfig, TInv, DirectoryTypes, managerVars
  <2> QED
    BY <2>1, <2>2, Moves
<1>4. CASE ReloadAll(r)
  <2> DEFINE g == [Idle EXCEPT !.op = "reload", !.pc = "drop", !.drop = Materialized]
  <2>1. Located(g)
    BY EnabledAreAgents DEF Located
  <2>2. DirectoryTypes' /\ frame' = Locals(r, g)
    BY <1>4 DEF ReloadAll, TInv, DirectoryTypes, managerVars, directoryVars
  <2> QED
    BY <2>1, <2>2, Moves
<1>5. ASSUME NEW a \in Agents, NEW m \in Models \union {None}, Stream(r, a, m)
      PROVE  TInv'
  <2> DEFINE g == [Idle EXCEPT !.op = "stream", !.agent = a, !.arg = m, !.pc = "all"]
  <2>1. Located(g)
    BY DEF Located
  <2>2. DirectoryTypes' /\ frame' = Locals(r, g)
    BY <1>5 DEF Stream, Call, TInv, DirectoryTypes, managerVars, directoryVars
  <2> QED
    BY <2>1, <2>2, Moves
<1> QED
  BY <1>1, <1>2, <1>3, <1>4, <1>5 DEF Begin

\* Tearing down: Write, Drop, Kill, Dropped, RemoveAgentScope
LEMMA TeardownTyped ==
  ASSUME TInv, NEW r \in Requests,
         \/ Write(r) \/ Dropped(r) \/ RemoveAgentScope(r)
         \/ \E a \in frame[r].drop : Drop(r, a)
         \/ \E x \in frame[r].held : Kill(r, x)
  PROVE  TInv'
<1> DEFINE f == frame[r]
<1>0. f \in Frame /\ Located(f) /\ DirectoryTypes
  BY DEF TInv
<1>1. CASE Write(r)
  <2> DEFINE g == [f EXCEPT !.pc = "drop", !.seen = None, !.drop = ToDrop(f)]
  <2>1. Located(g)
    BY <1>0, <1>1, ZenonT(30) DEF Located, Frame, Idle, Write, At, ToDrop
  <2>2. DirectoryTypes' /\ frame' = Locals(r, g)
    BY <1>0, <1>1 DEF Write, At, Located, DirectoryTypes, managerVars, directoryVars
  <2> QED
    BY <2>1, <2>2, Moves
<1>2. ASSUME NEW a \in f.drop, Drop(r, a)
      PROVE  TInv'
  <2> DEFINE g == [f EXCEPT !.pc = "kill", !.drop = @ \ {a}, !.held = SetOf(a)]
  <2>0. a \in Agents /\ SetOf(a) \subseteq Snapshot
    BY <1>0, <1>2 DEF Frame, SetOf, DirectoryTypes
  <2>1. Located(g)
    BY <1>0, <1>2, <2>0 DEF Located, Frame, Idle, Drop, At
  <2>2. DirectoryTypes' /\ frame' = Locals(r, g)
    BY <1>0, <1>2, <2>0 DEF Drop, DirectoryTypes
  <2> QED
    BY <2>1, <2>2, Moves
<1>3. ASSUME NEW x \in f.held, Kill(r, x)
      PROVE  TInv'
  <2> DEFINE g == [f EXCEPT !.held = @ \ {x}]
  <2>1. Located(g)
    BY <1>0, <1>3 DEF Located, Frame, Idle, Kill
  <2>2. DirectoryTypes' /\ frame' = Locals(r, g)
    BY <1>0, <1>3 DEF Kill, DirectoryTypes, directoryVars
  <2> QED
    BY <2>1, <2>2, Moves
<1>4. CASE Dropped(r)
  <2>1. DirectoryTypes' /\ f.pc \in {"kill", "drop"}
    BY <1>0, <1>4 DEF Dropped, DirectoryTypes, managerVars, directoryVars
  <2>2. PICK g : Located(g) /\ frame' = Locals(r, g)
    <3>1. CASE f.drop # {}
      <4>1. Located([f EXCEPT !.pc = "drop"])
        BY <1>0, <2>1 DEF Located, Frame, Idle
      <4> QED
        BY <1>4, <3>1, <4>1 DEF Dropped, Goto
    <3>2. CASE f.drop = {} /\ f.op = "delete"
      <4>1. Located([f EXCEPT !.pc = "unscope"])
        BY <1>0, <2>1 DEF Located, Frame, Idle
      <4> QED
        BY <1>4, <3>2, <4>1 DEF Dropped, Goto
    <3>3. CASE f.drop = {} /\ f.op = "reload"
      <4>1. Located([Idle EXCEPT !.op = "list", !.agent = None, !.arg = None, !.pc = "all"])
        BY DEF Located, Frame, Idle
      <4> QED
        BY <1>4, <3>3, <4>1 DEF Dropped, Call
    <3>4. CASE f.drop = {} /\ f.op \notin {"delete", "reload"} /\ f.agent \in Enabled
      <4>1. Located([f EXCEPT !.pc = "prepare", !.now = f.agent])
        BY <1>0, <2>1, <3>4, EnabledAreAgents, ZenonT(30) DEF Located, Frame, Idle
      <4> QED
        BY <1>4, <3>4, <4>1 DEF Dropped
    <3>5. CASE f.drop = {} /\ f.op \notin {"delete", "reload"} /\ f.agent \notin Enabled
      BY <1>4, <3>5, IdleIsLocated DEF Dropped, Return
    <3> QED
      BY <3>1, <3>2, <3>3, <3>4, <3>5
  <2> QED
    BY <2>1, <2>2, Moves
<1>5. CASE RemoveAgentScope(r)
  <2>1. DirectoryTypes' /\ frame' = Locals(r, Idle)
    BY <1>0, <1>5 DEF RemoveAgentScope, Return, Occupied, DirectoryTypes, directoryVars
  <2> QED
    BY <2>1, IdleIsLocated, Moves
<1> QED
  BY <1>1, <1>2, <1>3, <1>4, <1>5

\* A visit before it builds anything: CheckDefault, CreateDefault, Listing,
\* Pick and EnterScope
LEMMA VisitTyped ==
  ASSUME TInv, NEW r \in Requests,
         \/ CheckDefault(r) \/ Listing(r) \/ EnterScope(r)
         \/ \E ok \in BOOLEAN : CreateDefault(r, ok)
         \/ \E a \in frame[r].todo : Pick(r, a)
  PROVE  TInv'
<1> DEFINE f == frame[r]
<1>0. f \in Frame /\ Located(f) /\ DirectoryTypes
  BY DEF TInv
<1>1. CASE CheckDefault(r)
  <2>1. DirectoryTypes' /\ f.pc \in {"all", "prepare"}
    BY <1>0, <1>1 DEF CheckDefault, DirectoryTypes, managerVars, directoryVars
  <2> DEFINE next == IF At(r, "all") THEN "listing" ELSE "scope"
             g == IF NeedsDefault THEN [f EXCEPT !.pc = "default", !.after = next]
                                  ELSE [f EXCEPT !.pc = next]
  <2>2. Located(g)
    <3>1. CASE f.pc = "all"
      <4>1. next = "listing"
        BY <3>1 DEF At
      <4> HIDE DEF next
      <4> QED
        BY <1>0, <3>1, <4>1, ZenonT(30) DEF Located, Frame, Idle
    <3>2. CASE f.pc = "prepare"
      <4>1. next = "scope"
        BY <3>2 DEF At
      <4> HIDE DEF next
      <4> QED
        BY <1>0, <3>2, <4>1, ZenonT(30) DEF Located, Frame, Idle
    <3> QED
      BY <2>1, <3>1, <3>2
  <2>3. frame' = Locals(r, g)
    BY <1>1 DEF CheckDefault, Goto
  <2> QED
    BY <2>1, <2>2, <2>3, Moves
<1>2. ASSUME NEW ok \in BOOLEAN, CreateDefault(r, ok)
      PROVE  TInv'
  <2> DEFINE g == [f EXCEPT !.pc = f.after, !.after = None]
  <2>1. Located(g)
    BY <1>0, <1>2, ZenonT(30) DEF CreateDefault, At, Located, Frame, Idle
  <2>2. provider \in Models \union {None}
    BY <1>0, DirectoryAssumption DEF DirectoryTypes
  <2>3. PICK x \in New(None, "default", provider) :
          /\ Creates(ok, x)
          /\ default_llm' = IF ok THEN x ELSE default_llm
    BY <1>2 DEF CreateDefault
  <2>4. x \in Snapshot
    BY <2>2, <2>3, NewIsNew DEF Kinds
  <2>5. DirectoryTypes' /\ frame' = Locals(r, g)
    BY <1>0, <1>2, <2>3, <2>4 DEF CreateDefault, Creates, DirectoryTypes
  <2> QED
    BY <2>1, <2>5, Moves
<1>3. CASE Listing(r)
  <2> DEFINE g == [f EXCEPT !.pc = "next", !.todo = Enabled]
  <2>1. Located(g)
    BY <1>0, <1>3, EnabledAreAgents DEF Listing, At, Located, Frame, Idle
  <2>2. DirectoryTypes' /\ frame' = Locals(r, g)
    BY <1>0, <1>3 DEF Listing, DirectoryTypes, managerVars, directoryVars
  <2> QED
    BY <2>1, <2>2, Moves
<1>4. ASSUME NEW a \in f.todo, Pick(r, a)
      PROVE  TInv'
  <2> DEFINE g == [f EXCEPT !.todo = @ \ {a}]
  <2>1. Located(g) /\ Located([g EXCEPT !.pc = "prepare", !.now = a])
    BY <1>0, <1>4, ZenonT(30) DEF Pick, At, Located, Frame, Idle
  <2>2. DirectoryTypes'
    BY <1>0, <1>4 DEF Pick, DirectoryTypes, managerVars, directoryVars
  <2>3. frame' = Locals(r, g) \/ frame' = Locals(r, [g EXCEPT !.pc = "prepare", !.now = a])
    BY <1>4 DEF Pick
  <2> QED
    BY <2>1, <2>2, <2>3, Moves
<1>5. CASE EnterScope(r)
  <2>0. f.pc = "scope" /\ f.now \in Agents
    BY <1>0, <1>5 DEF EnterScope, At, Located
  <2>1. Bindings(f.now) \subseteq Plugins
    BY <1>0, <2>0, StoredModelType
  <2>2. Located(Passed(f)) /\ Located([f EXCEPT !.pc = "bind", !.left = Bindings(f.now)])
    BY <1>0, <2>0, <2>1, ZenonT(30) DEF Located, Frame, Idle, Passed
  <2>3. DirectoryTypes'
    BY <1>0, <1>5, <2>0 DEF EnterScope, DirectoryTypes, directoryVars
  <2>4. \/ frame' = Locals(r, Passed(f))
        \/ frame' = Locals(r, [f EXCEPT !.pc = "bind", !.left = Bindings(f.now)])
    BY <1>5 DEF EnterScope
  <2> QED
    BY <2>2, <2>3, <2>4, Moves
<1> QED
  BY <1>1, <1>2, <1>3, <1>4, <1>5

\* Building a set: Inherit, Bind, CreateLoop and Rollback
LEMMA BuildTyped ==
  ASSUME TInv, NEW r \in Requests,
         \/ Inherit(r) \/ Rollback(r)
         \/ \E ok \in BOOLEAN : CreateLoop(r, ok) \/ \E p \in frame[r].left : Bind(r, p, ok)
  PROVE  TInv'
<1> DEFINE f == frame[r]
<1>0. f \in Frame /\ Located(f) /\ DirectoryTypes
  BY DEF TInv
<1>1. CASE Inherit(r)
  <2> DEFINE g == [f EXCEPT !.left = @ \ {"llm"}]
  <2>1. Located(g)
    BY <1>0, <1>1 DEF Inherit, At, Located, Frame, Idle
  <2>2. DirectoryTypes' /\ frame' = Locals(r, g)
    BY <1>0, <1>1 DEF Inherit, DirectoryTypes, managerVars, directoryVars
  <2> QED
    BY <2>1, <2>2, Moves
<1>2. ASSUME NEW ok \in BOOLEAN, NEW p \in f.left, Bind(r, p, ok)
      PROVE  TInv'
  <2>0. f.pc = "bind" /\ f.now \in Agents /\ p \in Plugins
    BY <1>0, <1>2 DEF Bind, At, Located, Frame
  <2>1. PICK x \in New(f.now, p, ModelFor(f.now, p)) :
          /\ Creates(ok, x)
          /\ frame' = Locals(r, IF ok
               THEN [f EXCEPT !.left = @ \ {p}, !.held = @ \union {x}]
               ELSE [f EXCEPT !.left = {}, !.pc = "undo"])
    BY <1>2 DEF Bind
  <2>2. ModelFor(f.now, p) \in Models \union {None}
    BY <1>0, <2>0, StoredModelType
  <2>3. x \in Snapshot
    BY <2>0, <2>1, <2>2, NewIsNew DEF Kinds
  <2>4. /\ Located([f EXCEPT !.left = @ \ {p}, !.held = @ \union {x}])
        /\ Located([f EXCEPT !.left = {}, !.pc = "undo"])
    BY <1>0, <2>0, <2>3, ZenonT(30) DEF Located, Frame, Idle
  <2>5. DirectoryTypes'
    BY <1>0, <1>2, <2>1, <2>3 DEF Bind, Creates, DirectoryTypes, directoryVars
  <2> QED
    BY <2>1, <2>4, <2>5, Moves
<1>3. ASSUME NEW ok \in BOOLEAN, CreateLoop(r, ok)
      PROVE  TInv'
  <2>0. f.pc = "bind" /\ f.now \in Agents /\ f.held \subseteq Snapshot
    BY <1>0, <1>3 DEF CreateLoop, At, Located, Frame
  <2>1. PICK x \in New(f.now, "loop", None) :
       /\ Creates(ok, x)
       /\ IF ok
            THEN /\ failed'  = failed \ {f.now}
                 /\ loops'   = [loops EXCEPT ![f.now] = x]
                 /\ plugins' = [plugins EXCEPT ![f.now] = f.held]
                 /\ frame'   = Locals(r, Passed(f))
            ELSE /\ Goto(r, "undo")
                 /\ UNCHANGED <<failed, loops, plugins>>
    BY <1>3 DEF CreateLoop
  <2>2. x \in Snapshot
    BY <2>0, <2>1, NewIsNew DEF Kinds
  <2>3. Located(Passed(f)) /\ Located([f EXCEPT !.pc = "undo"])
    BY <1>0, <2>0, ZenonT(30) DEF Located, Frame, Idle, Passed
  <2>4. DirectoryTypes'
    BY <1>0, <1>3, <2>0, <2>1, <2>2 DEF CreateLoop, Creates, DirectoryTypes
  <2> QED
    BY <2>1, <2>3, <2>4, Moves DEF Goto
<1>4. CASE Rollback(r)
  <2>0. f.pc = "undo" /\ f.now \in Agents
    BY <1>0, <1>4 DEF Rollback, At, Located
  <2>1. Located(Passed(f))
    BY <1>0, <2>0, ZenonT(30) DEF Located, Frame, Idle, Passed
  <2>2. DirectoryTypes'
    BY <1>0, <1>4, <2>0 DEF Rollback, Occupied, DirectoryTypes
  <2>3. frame' = Locals(r, Idle) \/ frame' = Locals(r, Passed(f))
    BY <1>4 DEF Rollback, Return
  <2> QED
    BY <2>1, <2>2, <2>3, IdleIsLocated, Moves
<1> QED
  BY <1>1, <1>2, <1>3, <1>4

\* The end of a visit: Visited, Replace and CreateLlm
LEMMA StreamTyped ==
  ASSUME TInv, NEW r \in Requests,
         Visited(r) \/ Replace(r) \/ \E ok \in BOOLEAN : CreateLlm(r, ok)
  PROVE  TInv'
<1> DEFINE f == frame[r]
           again == [Idle EXCEPT !.op = "list", !.agent = None, !.arg = None, !.pc = "all"]
<1>0. f \in Frame /\ Located(f) /\ DirectoryTypes
  BY DEF TInv
<1>a. Located(again)
  BY DEF Located, Frame, Idle
<1>1. CASE Visited(r)
  <2>0. f.pc = "next" /\ f.todo = {}
    BY <1>1 DEF Visited, At
  <2>1. DirectoryTypes'
    BY <1>0, <1>1 DEF Visited, DirectoryTypes, managerVars, directoryVars
  <2>2. CASE f.op # "stream"
    BY <1>1, <2>1, <2>2, IdleIsLocated, Moves DEF Visited, Return
  <2>3. CASE f.op = "stream"
    <3> DEFINE w == Wanted(f)
               g == [f EXCEPT !.pc = IF Llms(f.agent) = {} THEN "create" ELSE "replace",
                              !.arg = w, !.held = Llms(f.agent)]
    <3>1. frame' = Locals(r, again) \/ frame' = Locals(r, g)
      BY <1>1, <2>3 DEF Visited, Call
    <3>2. f.agent \in Agents /\ f.arg \in Models \union {None}
      BY <1>0, <2>0, <2>3 DEF Located
    <3>3. w \in Models \union {None} /\ Llms(f.agent) \subseteq Snapshot
      BY <1>0, <3>2, StoredModelType DEF Wanted, First, Llms, SetOf, DirectoryTypes
    <3>4. Located(g)
      BY <1>0, <2>0, <2>3, <3>2, <3>3, ZenonT(30) DEF Located, Frame, Idle
    <3> QED
      BY <1>a, <2>1, <3>1, <3>4, Moves
  <2> QED
    BY <2>2, <2>3
<1>2. CASE Replace(r)
  <2>0. f.pc = "replace"
    BY <1>2 DEF Replace, At
  <2>1. DirectoryTypes'
    BY <1>0, <1>2 DEF Replace, DirectoryTypes, directoryVars
  <2>2. Located([f EXCEPT !.pc = "create", !.held = {}])
    BY <1>0, <2>0 DEF Located, Frame, Idle
  <2>3. frame' = Locals(r, Idle) \/ frame' = Locals(r, [f EXCEPT !.pc = "create", !.held = {}])
    BY <1>2 DEF Replace, Return
  <2> QED
    BY <2>1, <2>2, <2>3, IdleIsLocated, Moves
<1>3. ASSUME NEW ok \in BOOLEAN, CreateLlm(r, ok)
      PROVE  TInv'
  <2>0. f.pc = "create" /\ f.agent \in Agents /\ f.arg \in Models \union {None}
    BY <1>0, <1>3 DEF CreateLlm, At, Located
  <2>1. PICK x \in New(f.agent, "llm", f.arg) :
         /\ Creates(ok, x)
         /\ plugins' = IF ok
              THEN [plugins EXCEPT ![f.agent] = (SetOf(f.agent) \ Llms(f.agent)) \union {x}]
              ELSE plugins
    BY <1>3 DEF CreateLlm
  <2>2. x \in Snapshot
    BY <2>0, <2>1, NewIsNew DEF Kinds, Plugins
  <2>3. SetOf(f.agent) \subseteq Snapshot
    BY <1>0, <2>0 DEF SetOf, DirectoryTypes
  <2>4. DirectoryTypes'
    BY <1>0, <1>3, <2>0, <2>1, <2>2, <2>3 DEF CreateLlm, Creates, DirectoryTypes
  <2>5. frame' = Locals(r, Idle) \/ frame' = Locals(r, again)
    BY <1>3 DEF CreateLlm, Return, Call
  <2> QED
    BY <1>a, <2>4, <2>5, IdleIsLocated, Moves
<1> QED
  BY <1>1, <1>2, <1>3

LEMMA ServerTyped ==
  ASSUME TInv,
         \/ \E b \in Bundles : InstallBundle(b)
         \/ \E a \in Agents : InstallForeign(a) \/ UninstallForeign(a)
         \/ UNCHANGED vars
  PROVE  TInv'
<1>1. DirectoryTypes' /\ frame' = frame
  <2>1. CASE \E b \in Bundles : InstallBundle(b)
    BY <2>1 DEF TInv, InstallBundle, DirectoryTypes, directoryVars
  <2>2. CASE \E a \in Agents : InstallForeign(a) \/ UninstallForeign(a)
    BY <2>2 DEF TInv, InstallForeign, UninstallForeign, DirectoryTypes, directoryVars
  <2>3. CASE UNCHANGED vars
    BY <2>3 DEF TInv, vars, managerVars, directoryVars, DirectoryTypes
  <2> QED
    BY <2>1, <2>2, <2>3
<1> QED
  BY <1>1, NobodyMoves

LEMMA InitTyped == Init => TInv
<1> SUFFICES ASSUME Init PROVE TInv
  OBVIOUS
<1>1. DirectoryTypes
  BY DirectoryAssumption DEF Init, DirectoryTypes
<1> QED
  BY <1>1, IdleIsLocated DEF Init, TInv

LEMMA NextTyped == TInv /\ [Next]_vars => TInv'
<1> SUFFICES ASSUME TInv, [Next]_vars PROVE TInv'
  OBVIOUS
<1>1. ASSUME NEW r \in Requests, Work(r) PROVE TInv'
  BY <1>1, TeardownTyped, VisitTyped, BuildTyped, StreamTyped DEF Work
<1> QED
  BY <1>1, BeginTyped, ServerTyped DEF Next

\* A request finds its local variables as the last method left them, whoever
\* else changes the directory's dictionaries meanwhile (the locals of
\* _materialize, _teardown and ensure_plugin_instance).
THEOREM TypeCorrect == Spec => []TypeOK
<1>1. TInv => TypeOK
  <2> SUFFICES ASSUME TInv PROVE TypeOK
    OBVIOUS
  <2>1. \A a \in Agents : a # None
    BY DirectoryAssumption
  <2>2. ASSUME NEW r \in Requests
        PROVE  LET f == frame[r] IN
               /\ f \in Frame
               /\ f.pc = "idle" <=> f = Idle
               /\ f.pc \in {"prepare", "scope", "bind", "undo"} => f.now # None
               /\ f.pc \in {"all", "listing", "next"} => f.now = None /\ f.held = {}
               /\ f.pc \notin {"next", "prepare", "scope", "bind", "undo", "default"} =>
                    f.todo = {}
    BY <2>1 DEF TInv, Located
  <2>3. \A a \in Agents : plugins[a] = None \/ plugins[a] \subseteq Snapshot
    BY DEF TInv, DirectoryTypes
  <2> QED
    BY <2>2, <2>3 DEF TypeOK, TInv, DirectoryTypes
<1> QED
  BY <1>1, InitTyped, NextTyped, PTL DEF Spec

-----------------------------------------------------------------------------
(* One request: steps that change only where it stands *)

LEMMA Steady ==
  ASSUME TInv, NEW r \in Requests, NEW g, frame' = Locals(r, g), Sequential(g),
         UNCHANGED <<registry, provider, bundles, live, scopes,
                     configs, plugins, loops, failed>>
  PROVE  Sequential(frame[r])'
<1>0. frame'[r] = g
  BY DEF TInv, Locals
<1> QED
  BY <1>0 DEF Sequential, Accounted, Shapes, Served, Current, OnTheWay, Visiting, SetOf,
              LoopOf, Hands, Falling, Entered, Materialized, Enabled, Bindings, Missing,
              StoredModel, Llms, KindsOf

\* A request at rest, or at the begin of a visit
LEMMA Fresh ==
  ASSUME NEW f, Sequential(f), NEW g, Hands(f) = {}, Falling(f) = {},
         g.pc \in {"idle", "all"}, g.todo = {}, g.held = {},
         g.pc = "all" /\ g.op = "stream" => g.agent \in Enabled
  PROVE  Sequential(g)
<1>1. Hands(g) = {} /\ Falling(g) = {} /\ ~Entered(g)
  BY DEF Hands, Falling, Entered
<1>2. Accounted(g) /\ Served /\ Current(g)
  BY <1>1 DEF Sequential, Accounted, Current
<1>3. Shapes(g)
  BY <1>1 DEF Sequential, Shapes
<1>4. OnTheWay(g) /\ Visiting(g)
  BY <1>1 DEF OnTheWay, Visiting
<1> QED
  BY <1>2, <1>3, <1>4 DEF Sequential

LEMMA BeginKeeps ==
  ASSUME TInv, NEW r \in Requests, Sequential(frame[r]), Begin(r)
  PROVE  Sequential(frame[r])'
<1> DEFINE f == frame[r]
<1>0. f \in Frame /\ frame \in [Requests -> Frame]
  BY DEF TInv
<1>i. f.pc = "idle" /\ f = Idle
  BY DEF Begin, List, ReloadAll, ChangeAgent, ApplyConfig, Stream, At, TInv, Located
<1>h. Hands(f) = {} /\ Falling(f) = {}
  BY <1>i DEF Hands, Falling
<1>1. CASE List(r)
  <2> DEFINE g == [Idle EXCEPT !.op = "list", !.agent = None, !.arg = None, !.pc = "all"]
  <2>1. Sequential(g)
    BY <1>h, Fresh DEF Idle
  <2>2. frame' = Locals(r, g)
    BY <1>1 DEF List, Call
  <2> QED
    BY <1>1, <2>1, <2>2, Steady DEF List, managerVars, directoryVars
<1>2. ASSUME NEW op \in {"create", "update", "delete"}, NEW a \in Agents,
             NEW arg \in {"enabled", "disabled", None}, ChangeAgent(r, op, a, arg)
      PROVE  Sequential(frame[r])'
  <2> DEFINE g == [Idle EXCEPT !.op = op, !.agent = a, !.arg = arg, !.pc = "write",
                               !.seen = registry]
  <2>0. g.pc = "write" /\ g.op = op /\ g.seen = registry /\ g.todo = {} /\ g.held = {}
    BY DEF Idle
  <2>1. Hands(g) = {} /\ Falling(g) = {} /\ ~Entered(g)
    BY <2>0 DEF Hands, Falling, Entered
  <2>2. Accounted(g) /\ Served /\ Current(g)
    BY <1>h, <2>1 DEF Sequential, Accounted, Current
  <2>3. Shapes(g)
    BY <2>0, <2>1 DEF Sequential, Shapes
  <2>4. OnTheWay(g) /\ Visiting(g)
    BY <2>0, <2>1 DEF OnTheWay, Visiting
  <2>5. frame' = Locals(r, g)
    BY <1>2 DEF ChangeAgent
  <2> QED
    BY <1>2, <2>2, <2>3, <2>4, <2>5, Steady DEF ChangeAgent, Sequential, managerVars, directoryVars
<1>3. ASSUME NEW a \in Agents, NEW c \in Configs, ApplyConfig(r, a, c)
      PROVE  Sequential(frame[r])'
  <2> DEFINE g == [Idle EXCEPT !.op = "config", !.agent = a, !.pc = "drop", !.drop = {a}]
  <2>0. /\ g.pc = "drop" /\ g.op = "config" /\ g.agent = a /\ g.drop = {a}
        /\ g.todo = {} /\ g.held = {}
    BY DEF Idle
  <2>1. Hands(g) = {} /\ Falling(g) = {a} /\ ~Entered(g)
    BY <2>0 DEF Hands, Falling, Entered
  <2>2. frame'[r] = g
    BY <1>0, <1>3 DEF ApplyConfig, Locals
  <2> HIDE DEF g
  <2>3. /\ UNCHANGED <<registry, provider, bundles, live, scopes, plugins, loops, failed>>
        /\ configs' = [configs EXCEPT ![a] = c]
    BY <1>3 DEF ApplyConfig, managerVars
  <2>4. Accounted(frame[r])' /\ Served'
    BY <1>h, <2>1, <2>2, <2>3
       DEF Sequential, Accounted, Served, SetOf, LoopOf, Hands, Materialized
  <2>5. Shapes(frame[r])'
    BY <2>0, <2>1, <2>2, <2>3 DEF Sequential, Shapes, SetOf, Entered
  <2>6. Current(frame[r])'
    <3>1. \A b \in Agents \ {a} : Bindings(b)' = Bindings(b)
      BY <2>3 DEF Bindings, TInv, DirectoryTypes
    <3> QED
      BY <1>h, <2>1, <2>2, <2>3, <3>1
         DEF Sequential, Current, KindsOf, SetOf, Materialized, Enabled, Falling
  <2>7. OnTheWay(frame[r])' /\ Visiting(frame[r])'
    BY <2>0, <2>1, <2>2 DEF OnTheWay, Visiting, Entered
  <2> QED
    BY <2>4, <2>5, <2>6, <2>7 DEF Sequential
<1>4. CASE ReloadAll(r)
  <2> DEFINE g == [Idle EXCEPT !.op = "reload", !.pc = "drop", !.drop = Materialized]
  <2>0. /\ g.pc = "drop" /\ g.op = "reload" /\ g.drop = Materialized
        /\ g.todo = {} /\ g.held = {}
    BY DEF Idle
  <2>1. Hands(g) = {} /\ Falling(g) = Materialized /\ ~Entered(g)
    BY <2>0 DEF Hands, Falling, Entered
  <2>2. Accounted(g) /\ Served /\ Current(g)
    BY <1>h, <2>1 DEF Sequential, Accounted, Current
  <2>3. Shapes(g)
    BY <2>0, <2>1 DEF Sequential, Shapes
  <2>4. OnTheWay(g) /\ Visiting(g)
    BY <2>0, <2>1 DEF OnTheWay, Visiting
  <2>5. frame' = Locals(r, g)
    BY <1>4 DEF ReloadAll
  <2> QED
    BY <1>4, <2>2, <2>3, <2>4, <2>5, Steady DEF ReloadAll, Sequential, managerVars, directoryVars
<1>5. ASSUME NEW a \in Agents, NEW m \in Models \union {None}, Stream(r, a, m)
      PROVE  Sequential(frame[r])'
  <2> DEFINE g == [Idle EXCEPT !.op = "stream", !.agent = a, !.arg = m, !.pc = "all"]
  <2>1. Sequential(g)
    BY <1>h, <1>5, Fresh DEF Idle, Stream
  <2>2. frame' = Locals(r, g)
    BY <1>5 DEF Stream, Call
  <2> QED
    BY <1>5, <2>1, <2>2, Steady DEF Stream, managerVars, directoryVars
<1> QED
  BY <1>1, <1>2, <1>3, <1>4, <1>5 DEF Begin

\* Where the request goes after a teardown
LEMMA DroppedKeeps ==
  ASSUME TInv, NEW r \in Requests, Sequential(frame[r]), Dropped(r)
  PROVE  Sequential(frame[r])'
<1> DEFINE f == frame[r]
<1>0. f \in Frame /\ Located(f)
  BY DEF TInv
<1>1. /\ f.pc \in {"kill", "drop"} /\ f.held = {} /\ f.todo = {} /\ Hands(f) = {}
      /\ f.pc = "drop" => f.drop = {}
      /\ Falling(f) = f.drop
      /\ UNCHANGED <<registry, provider, bundles, live, scopes,
                     configs, plugins, loops, failed>>
  BY <1>0 DEF Dropped, Located, Hands, Falling, managerVars, directoryVars
<1>2. CASE f.drop # {}
  <2> DEFINE g == [f EXCEPT !.pc = "drop"]
  <2>0. /\ g.pc = "drop" /\ g.op = f.op /\ g.agent = f.agent /\ g.drop = f.drop
        /\ g.held = {} /\ g.todo = {}
    BY <1>0, <1>1 DEF Frame
  <2>1. Hands(g) = {} /\ Falling(g) = f.drop /\ ~Entered(g)
    BY <2>0 DEF Hands, Falling, Entered
  <2>2. Accounted(g) /\ Served /\ Current(g)
    BY <1>1, <2>1 DEF Sequential, Accounted, Current
  <2>3. Shapes(g)
    BY <2>0, <2>1 DEF Sequential, Shapes
  <2>4. OnTheWay(g) /\ Visiting(g)
    BY <1>1, <1>2, <2>0, <2>1 DEF Sequential, OnTheWay, Visiting
  <2>5. frame' = Locals(r, g)
    BY <1>2 DEF Dropped, Goto
  <2> QED
    BY <1>1, <2>2, <2>3, <2>4, <2>5, Steady DEF Sequential
<1>3. CASE f.drop = {} /\ f.op = "delete"
  <2> DEFINE g == [f EXCEPT !.pc = "unscope"]
  <2>0. g.pc = "unscope" /\ g.op = "delete" /\ g.held = {} /\ g.todo = {}
    BY <1>0, <1>1, <1>3 DEF Frame
  <2>1. Hands(g) = {} /\ Falling(g) = {} /\ ~Entered(g)
    BY <2>0 DEF Hands, Falling, Entered
  <2>2. Accounted(g) /\ Served /\ Current(g)
    BY <1>1, <1>3, <2>1 DEF Sequential, Accounted, Current
  <2>3. Shapes(g)
    BY <2>0, <2>1 DEF Sequential, Shapes
  <2>4. OnTheWay(g) /\ Visiting(g)
    BY <2>0, <2>1 DEF OnTheWay, Visiting
  <2>5. frame' = Locals(r, g)
    BY <1>3 DEF Dropped, Goto
  <2> QED
    BY <1>1, <2>2, <2>3, <2>4, <2>5, Steady DEF Sequential
<1>4. CASE f.drop = {} /\ f.op = "reload"
  <2> DEFINE g == [Idle EXCEPT !.op = "list", !.agent = None, !.arg = None, !.pc = "all"]
  <2>1. Sequential(g)
    BY <1>1, <1>4, Fresh DEF Idle
  <2>2. frame' = Locals(r, g)
    BY <1>4 DEF Dropped, Call
  <2> QED
    BY <1>1, <2>1, <2>2, Steady
<1>5. CASE f.drop = {} /\ f.op \notin {"delete", "reload"} /\ f.agent \in Enabled
  <2> DEFINE g == [f EXCEPT !.pc = "prepare", !.now = f.agent]
  <2>0. /\ g.pc = "prepare" /\ g.op = f.op /\ g.agent = f.agent /\ g.now = f.agent
        /\ g.held = {} /\ g.todo = {}
    BY <1>0, <1>1 DEF Frame
  <2>1. Hands(g) = {} /\ Falling(g) = {}
    BY <2>0 DEF Hands, Falling
  <2>2. Accounted(g) /\ Served /\ Current(g)
    BY <1>1, <1>5, <2>1 DEF Sequential, Accounted, Current
  <2>3. Shapes(g)
    BY <2>0 DEF Sequential, Shapes
  <2>4. f.agent \notin Materialized \union failed /\ f.op \notin {"list", "stream"}
    BY <1>1, <1>5 DEF Sequential, OnTheWay
  <2>5. OnTheWay(g) /\ Visiting(g)
    BY <1>5, <2>0, <2>4 DEF OnTheWay, Visiting
  <2>6. frame' = Locals(r, g)
    BY <1>5 DEF Dropped
  <2> QED
    BY <1>1, <2>2, <2>3, <2>5, <2>6, Steady DEF Sequential
<1>6. CASE f.drop = {} /\ f.op \notin {"delete", "reload"} /\ f.agent \notin Enabled
  <2>1. Sequential(Idle)
    BY <1>1, <1>6, Fresh DEF Idle
  <2>2. frame' = Locals(r, Idle)
    BY <1>6 DEF Dropped, Return
  <2> QED
    BY <1>1, <2>1, <2>2, Steady
<1> QED
  BY <1>2, <1>3, <1>4, <1>5, <1>6

-----------------------------------------------------------------------------
(* One request: the teardown *)

LEMMA WriteKeeps ==
  ASSUME TInv, NEW r \in Requests, Sequential(frame[r]), Write(r)
  PROVE  Sequential(frame[r])'
<1> DEFINE f == frame[r]
           g == [f EXCEPT !.pc = "drop", !.seen = None, !.drop = ToDrop(f)]
<1>0. f \in Frame /\ Located(f) /\ frame \in [Requests -> Frame] /\ DirectoryTypes
  BY DEF TInv
<1>1. f.pc = "write" /\ f.todo = {} /\ f.agent \in Agents /\ f.seen = registry
  BY <1>0 DEF Write, At, Located, Sequential, OnTheWay
<1>2. /\ g.pc = "drop" /\ g.op = f.op /\ g.agent = f.agent /\ g.drop = {f.agent}
      /\ g.todo = {} /\ g.held = f.held
  BY <1>0, <1>1 DEF Frame, ToDrop
<1>3. frame'[r] = g
  BY <1>0 DEF Write, Locals
<1> HIDE DEF g
<1>4. /\ UNCHANGED <<bundles, live, scopes, configs, plugins, loops, failed>>
      /\ \A a \in Agents \ {f.agent} : registry'[a] = registry[a]
  BY <1>0, <1>1 DEF Write, managerVars, directoryVars, DirectoryTypes
<1>5. /\ Hands(f) = {} /\ Falling(f) = {} /\ Hands(g) = {} /\ Falling(g) = {f.agent}
      /\ ~Entered(g)
  BY <1>1, <1>2 DEF Hands, Falling, Entered
<1>6. Accounted(frame[r])' /\ Served'
  BY <1>3, <1>4, <1>5 DEF Sequential, Accounted, Served, SetOf, LoopOf, Hands, Materialized
<1>7. Shapes(frame[r])'
  BY <1>2, <1>3, <1>4, <1>5 DEF Sequential, Shapes, SetOf, Entered
<1>8. Current(frame[r])'
  BY <1>3, <1>4, <1>5
     DEF Sequential, Current, KindsOf, SetOf, Materialized, Enabled, Falling, Bindings
<1>9. OnTheWay(frame[r])' /\ Visiting(frame[r])'
  BY <1>1, <1>2, <1>3, <1>5 DEF Sequential, OnTheWay, Visiting, Entered
<1> QED
  BY <1>6, <1>7, <1>8, <1>9 DEF Sequential

\* Drop moves the set of an agent into the hands of the request.
LEMMA DropKeeps ==
  ASSUME TInv, NEW r \in Requests, Sequential(frame[r]), NEW a \in frame[r].drop, Drop(r, a)
  PROVE  Sequential(frame[r])'
<1> DEFINE f == frame[r]
           g == [f EXCEPT !.pc = "kill", !.drop = @ \ {a}, !.held = SetOf(a)]
<1>0. f \in Frame /\ Located(f) /\ frame \in [Requests -> Frame] /\ DirectoryTypes
  BY DEF TInv
<1>1. f.pc = "drop" /\ f.todo = {} /\ a \in Agents
  BY <1>0 DEF Drop, At, Located, Frame
<1>2. /\ g.pc = "kill" /\ g.op = f.op /\ g.agent = f.agent /\ g.drop = f.drop \ {a}
      /\ g.todo = {} /\ g.held = SetOf(a)
  BY <1>0, <1>1 DEF Frame
<1>3. frame'[r] = g
  BY <1>0 DEF Drop, Locals
<1> HIDE DEF g
<1>4. /\ UNCHANGED <<registry, bundles, scopes>>
      /\ failed' = failed \ {a} /\ live' = live \ LoopOf(a)
      /\ \A b \in Agents : loops'[b] = IF b = a THEN None ELSE loops[b]
      /\ \A b \in Agents : plugins'[b] = IF b = a THEN None ELSE plugins[b]
      /\ \A b \in Agents \ {a} : configs'[b] = configs[b]
  BY <1>0, <1>1 DEF Drop, DirectoryTypes
<1>5. /\ Hands(f) = {} /\ Falling(f) = f.drop /\ Hands(g) = SetOf(a) /\ Falling(g) = f.drop \ {a}
      /\ ~Entered(g)
  BY <1>1, <1>2 DEF Hands, Falling, Entered
<1>6. Accounted(frame[r])'
  <2> SUFFICES ASSUME NEW x \in live', x.agent \in Agents
               PROVE  x \in SetOf(x.agent)' \union LoopOf(x.agent)' \union Hands(frame[r])'
    BY DEF Accounted
  <2>1. Hands(frame[r])' = SetOf(a)
    BY <1>3, <1>5 DEF Hands
  <2>2. x \in SetOf(x.agent) \union LoopOf(x.agent) /\ x \notin LoopOf(a)
    BY <1>4, <1>5 DEF Sequential, Accounted
  <2> QED
    BY <1>4, <2>1, <2>2 DEF SetOf, LoopOf
<1>7. Served'
  <2>1. \A b \in Agents : b \in Materialized' <=> b # a /\ b \in Materialized
    BY <1>4 DEF Materialized
  <2>2. \A b \in Agents : b \in Materialized' => loops[b] \in live'
    <3> SUFFICES ASSUME NEW b \in Agents, b \in Materialized' PROVE loops[b] \in live'
      OBVIOUS
    <3>1. b # a /\ loops[b] \in live
      BY <2>1 DEF Sequential, Served
    <3>2. loops[b] # None
      BY <1>0, <3>1, NoneAssumption DEF DirectoryTypes
    <3>3. loops[b] \notin LoopOf(a)
      BY <3>1, <3>2, <1>1 DEF LoopOf, Sequential, Shapes
    <3> QED
      BY <1>4, <3>1, <3>3
  <2>3. ASSUME NEW b \in Agents
        PROVE  IF b \in Materialized' THEN loops'[b] \in live' ELSE loops'[b] = None
    <3>1. CASE b = a
      BY <1>4, <2>1, <3>1
    <3>2. CASE b # a
      BY <1>4, <2>1, <2>2, <3>2 DEF Sequential, Served
    <3> QED
      BY <3>1, <3>2
  <2>4. \A b \in failed' : b \notin scopes' /\ b \notin Materialized'
    BY <1>0, <1>4, <2>1 DEF Sequential, Served, DirectoryTypes
  <2> QED
    BY <1>4, <2>3, <2>4 DEF Sequential, Served
<1>8. Shapes(frame[r])'
  BY <1>1, <1>2, <1>3, <1>4, <1>5 DEF Sequential, Shapes, SetOf, Entered
<1>9. Current(frame[r])'
  <2> SUFFICES ASSUME NEW b \in (Materialized \ Falling(frame[r]))'
               PROVE  b \in Enabled' /\ KindsOf(SetOf(b))' \ {"llm"} = Bindings(b)' \ {"llm"}
    BY DEF Current
  <2>1. Falling(frame[r])' = f.drop \ {a}
    BY <1>3, <1>5 DEF Falling
  <2>2. b \in Agents /\ b # a /\ b \in Materialized \ Falling(f)
    BY <1>4, <1>5, <2>1 DEF Materialized
  <2>3. b \in Enabled /\ KindsOf(SetOf(b)) \ {"llm"} = Bindings(b) \ {"llm"}
    BY <2>2 DEF Sequential, Current
  <2> QED
    BY <1>4, <2>2, <2>3 DEF Enabled, KindsOf, SetOf, Bindings
<1>10. OnTheWay(frame[r])' /\ Visiting(frame[r])'
  <2>1. a \notin Materialized' \union failed'
    BY <1>4 DEF Materialized
  <2>2. f.op \notin {"list", "stream"} /\ (f.op # "reload" => f.drop = {f.agent})
    BY <1>1 DEF Sequential, OnTheWay
  <2> QED
    BY <1>1, <1>2, <1>3, <1>5, <2>1, <2>2 DEF OnTheWay, Visiting, Entered
<1> QED
  BY <1>6, <1>7, <1>8, <1>9, <1>10 DEF Sequential

\* Kill takes an instance out of the hands.
LEMMA KillKeeps ==
  ASSUME TInv, NEW r \in Requests, Sequential(frame[r]), NEW x \in frame[r].held, Kill(r, x)
  PROVE  Sequential(frame[r])'
<1> DEFINE f == frame[r]
           g == [f EXCEPT !.held = @ \ {x}]
<1>0. f \in Frame /\ Located(f) /\ frame \in [Requests -> Frame] /\ DirectoryTypes
  BY DEF TInv
<1>1. f.pc \in {"kill", "undo"}
  BY DEF Kill
<1>2. /\ g.pc = f.pc /\ g.op = f.op /\ g.agent = f.agent /\ g.drop = f.drop
      /\ g.todo = f.todo /\ g.held = f.held \ {x} /\ g.now = f.now
  BY <1>0 DEF Frame
<1>3. frame'[r] = g
  BY <1>0 DEF Kill, Locals
<1> HIDE DEF g
<1>4. /\ UNCHANGED <<registry, bundles, scopes, configs, plugins, loops, failed>>
      /\ live' = live \ {x}
  BY DEF Kill, directoryVars
<1>5. /\ Hands(f) = f.held /\ Hands(g) = f.held \ {x} /\ Falling(g) = Falling(f)
      /\ Entered(g) <=> Entered(f)
  BY <1>1, <1>2 DEF Hands, Falling, Entered
<1>6. Accounted(frame[r])'
  BY <1>3, <1>4, <1>5 DEF Sequential, Accounted, SetOf, LoopOf, Hands
<1>7. Served'
  <2>1. \A a \in Agents : loops[a] # None => loops[a] # x
    BY DEF Sequential, Shapes, Plugins
  <2>2. \A a \in Agents : a \in Materialized => loops[a] # None
    BY <1>0, NoneAssumption DEF Sequential, Served, DirectoryTypes
  <2>3. \A a \in Materialized : loops[a] \in live'
    BY <1>4, <2>1, <2>2 DEF Sequential, Served, Materialized
  <2> QED
    BY <1>4, <2>3 DEF Sequential, Served, Materialized
<1>8. Shapes(frame[r])'
  BY <1>2, <1>3, <1>4, <1>5 DEF Sequential, Shapes, SetOf, Entered
<1>9. Current(frame[r])'
  BY <1>3, <1>4, <1>5
     DEF Sequential, Current, KindsOf, SetOf, Materialized, Enabled, Falling, Bindings
<1>10. OnTheWay(frame[r])'
  <2>1. f.pc = "kill" => f.op \notin {"list", "stream"}
    BY DEF Sequential, OnTheWay
  <2> QED
    BY <1>1, <1>2, <1>3, <1>4, <1>5, <2>1
       DEF Sequential, OnTheWay, Entered, Enabled, Materialized
<1>11. Visiting(frame[r])'
  BY <1>1, <1>2, <1>3, <1>4, <1>5
     DEF Sequential, Visiting, Entered, Enabled, Materialized, Missing, Bindings
<1> QED
  BY <1>6, <1>7, <1>8, <1>9, <1>10, <1>11 DEF Sequential

LEMMA RemoveAgentScopeKeeps ==
  ASSUME TInv, NEW r \in Requests, Sequential(frame[r]), RemoveAgentScope(r)
  PROVE  Sequential(frame[r])'
<1>0. frame \in [Requests -> Frame] /\ Located(frame[r])
  BY DEF TInv
<1>1. frame[r].pc = "unscope" /\ frame'[r] = Idle
  BY <1>0 DEF RemoveAgentScope, At, Return, Locals
<1>2. /\ UNCHANGED <<registry, bundles, live, configs, plugins, loops, failed>>
      /\ scopes' \subseteq scopes
  BY DEF RemoveAgentScope, directoryVars
<1>3. Hands(frame[r]) = {} /\ Falling(frame[r]) = {}
  BY <1>1 DEF Hands, Falling
<1>4. Hands(Idle) = {} /\ Falling(Idle) = {} /\ ~Entered(Idle)
  BY DEF Hands, Falling, Entered, Idle
<1>5. Accounted(frame[r])' /\ Served'
  BY <1>1, <1>2, <1>3, <1>4
     DEF Sequential, Accounted, Served, SetOf, LoopOf, Hands, Materialized
<1>6. Shapes(frame[r])'
  BY <1>1, <1>2, <1>4 DEF Sequential, Shapes, SetOf, Entered, Idle
<1>7. Current(frame[r])'
  BY <1>1, <1>2, <1>3, <1>4
     DEF Sequential, Current, KindsOf, SetOf, Materialized, Enabled, Falling, Bindings
<1>8. OnTheWay(frame[r])' /\ Visiting(frame[r])'
  BY <1>1, <1>4 DEF OnTheWay, Visiting, Idle, Entered
<1> QED
  BY <1>5, <1>6, <1>7, <1>8 DEF Sequential

-----------------------------------------------------------------------------
(* One request: the visit *)

LEMMA CheckDefaultKeeps ==
  ASSUME TInv, NEW r \in Requests, Sequential(frame[r]), CheckDefault(r)
  PROVE  Sequential(frame[r])'
<1> DEFINE f == frame[r]
           next == IF At(r, "all") THEN "listing" ELSE "scope"
           g == IF NeedsDefault THEN [f EXCEPT !.pc = "default", !.after = next]
                                ELSE [f EXCEPT !.pc = next]
<1>0. f \in Frame /\ Located(f)
  BY DEF TInv
<1>1. /\ (f.pc = "all" /\ next = "listing") \/ (f.pc = "prepare" /\ next = "scope")
      /\ f.pc = "all" => f.held = {} /\ f.todo = {}
      /\ Hands(f) = {} /\ Falling(f) = {}
  <2>1. f.pc \in {"all", "prepare"}
    BY DEF CheckDefault
  <2>2. CASE f.pc = "all"
    BY <1>0, <2>2 DEF At, Located, Hands, Falling
  <2>3. CASE f.pc = "prepare"
    BY <2>3 DEF At, Hands, Falling
  <2> QED
    BY <2>1, <2>2, <2>3
<1>2. /\ g.op = f.op /\ g.agent = f.agent /\ g.now = f.now /\ g.todo = f.todo /\ g.held = f.held
      /\ g.pc = next \/ (g.pc = "default" /\ g.after = next)
  <2> HIDE DEF next
  <2> QED
    BY <1>0 DEF Frame
<1>3. frame' = Locals(r, g)
  BY DEF CheckDefault, Goto
<1> HIDE DEF g, next
<1>4. Hands(g) = {} /\ Falling(g) = {} /\ (Entered(g) <=> Entered(f))
  BY <1>1, <1>2 DEF Hands, Falling, Entered
<1>5. Accounted(g) /\ Served /\ Current(g)
  BY <1>1, <1>4 DEF Sequential, Accounted, Current
<1>6. Shapes(g)
  BY <1>2, <1>4 DEF Sequential, Shapes
<1>7. OnTheWay(g) /\ Visiting(g)
  BY <1>1, <1>2, <1>4 DEF Sequential, OnTheWay, Visiting, Entered
<1> QED
  BY <1>3, <1>5, <1>6, <1>7, Steady DEF Sequential, CheckDefault, managerVars, directoryVars

\* The default LLM belongs to no agent.
LEMMA CreateDefaultKeeps ==
  ASSUME TInv, NEW r \in Requests, Sequential(frame[r]), NEW ok \in BOOLEAN, CreateDefault(r, ok)
  PROVE  Sequential(frame[r])'
<1> DEFINE f == frame[r]
           g == [f EXCEPT !.pc = f.after, !.after = None]
<1>0. f \in Frame /\ Located(f) /\ DirectoryTypes /\ frame \in [Requests -> Frame]
  BY DEF TInv
<1>1. /\ f.pc = "default" /\ f.after \in {"listing", "scope"}
      /\ Hands(f) = {} /\ Falling(f) = {}
      /\ f.after = "listing" => f.held = {} /\ f.todo = {}
  BY <1>0 DEF CreateDefault, At, Located, Hands, Falling
<1>2. /\ g.op = f.op /\ g.agent = f.agent /\ g.now = f.now /\ g.todo = f.todo /\ g.held = f.held
      /\ g.pc = f.after
  BY <1>0 DEF Frame
<1>3. frame'[r] = g
  BY <1>0 DEF CreateDefault, Locals
<1> HIDE DEF g
<1>4. Hands(g) = {} /\ Falling(g) = {} /\ (Entered(g) <=> Entered(f))
  BY <1>1, <1>2 DEF Hands, Falling, Entered
<1>5. /\ UNCHANGED <<registry, provider, bundles, scopes, configs, plugins, loops, failed>>
      /\ live \subseteq live' /\ \A x \in live' : x \in live \/ x.agent = None
  <2>1. PICK x \in New(None, "default", provider) : Creates(ok, x)
    BY DEF CreateDefault
  <2>2. provider \in Models \union {None}
    BY <1>0, DirectoryAssumption DEF DirectoryTypes
  <2>3. x.agent = None
    BY <2>1, <2>2, NewIsNew DEF Kinds
  <2> QED
    BY <2>1, <2>3 DEF CreateDefault, Creates
<1>6. Accounted(frame[r])'
  BY <1>1, <1>3, <1>4, <1>5, DirectoryAssumption
     DEF Sequential, Accounted, SetOf, LoopOf, Hands
<1>7. Served'
  BY <1>5 DEF Sequential, Served, Materialized
<1>8. Shapes(frame[r])' /\ Current(frame[r])'
  BY <1>1, <1>2, <1>3, <1>4, <1>5
     DEF Sequential, Shapes, SetOf, Entered, Current, KindsOf, Materialized, Enabled, Falling,
         Bindings
<1>9. OnTheWay(frame[r])' /\ Visiting(frame[r])'
  <2>1. OnTheWay(g) /\ Visiting(g)
    BY <1>1, <1>2, <1>4 DEF Sequential, OnTheWay, Visiting, Entered
  <2>2. g.pc # "create"
    BY <1>1, <1>2
  <2> QED
    BY <1>3, <1>5, <2>1, <2>2
       DEF OnTheWay, Visiting, Entered, Enabled, Materialized, Missing, Bindings, KindsOf, Llms,
           SetOf
<1> QED
  BY <1>6, <1>7, <1>8, <1>9 DEF Sequential

LEMMA ListingKeeps ==
  ASSUME TInv, NEW r \in Requests, Sequential(frame[r]), Listing(r)
  PROVE  Sequential(frame[r])'
<1> DEFINE f == frame[r]
           g == [f EXCEPT !.pc = "next", !.todo = Enabled]
<1>0. f \in Frame /\ Located(f)
  BY DEF TInv
<1>1. f.pc = "listing" /\ f.held = {} /\ Hands(f) = {} /\ Falling(f) = {}
  BY <1>0 DEF Listing, At, Located, Hands, Falling
<1>2. /\ g.op = f.op /\ g.agent = f.agent /\ g.todo = Enabled /\ g.held = {}
      /\ g.pc = "next"
  BY <1>0, <1>1 DEF Frame
<1>3. frame' = Locals(r, g)
  BY DEF Listing
<1> HIDE DEF g
<1>4. Hands(g) = {} /\ Falling(g) = {} /\ ~Entered(g)
  BY <1>2 DEF Hands, Falling, Entered
<1>5. Accounted(g) /\ Served /\ Current(g)
  BY <1>1, <1>4 DEF Sequential, Accounted, Current
<1>6. Shapes(g)
  BY <1>2, <1>4 DEF Sequential, Shapes
<1>7. OnTheWay(g) /\ Visiting(g)
  BY <1>1, <1>2, <1>4 DEF Sequential, OnTheWay, Visiting
<1> QED
  BY <1>3, <1>5, <1>6, <1>7, Steady DEF Sequential, Listing, managerVars, directoryVars

LEMMA PickKeeps ==
  ASSUME TInv, NEW r \in Requests, Sequential(frame[r]), NEW a \in frame[r].todo, Pick(r, a)
  PROVE  Sequential(frame[r])'
<1> DEFINE f == frame[r]
           h == [f EXCEPT !.todo = @ \ {a}]
           g == IF Settled(a) THEN h ELSE [h EXCEPT !.pc = "prepare", !.now = a]
<1>0. f \in Frame /\ Located(f)
  BY DEF TInv
<1>1. f.pc = "next" /\ f.held = {} /\ Hands(f) = {} /\ Falling(f) = {} /\ ~Entered(f)
  BY <1>0 DEF Pick, At, Located, Hands, Falling, Entered
<1>2. /\ g.op = f.op /\ g.agent = f.agent /\ g.todo = f.todo \ {a} /\ g.held = {}
      /\ IF Settled(a) THEN g.pc = "next" ELSE g.pc = "prepare" /\ g.now = a
  BY <1>0, <1>1 DEF Frame
<1>3. frame' = Locals(r, g)
  BY DEF Pick
<1> HIDE DEF g, h
<1>4. Hands(g) = {} /\ Falling(g) = {} /\ (Entered(g) <=> ~Settled(a))
  BY <1>2 DEF Hands, Falling, Entered
<1>5. Accounted(g) /\ Served /\ Current(g)
  BY <1>1, <1>4 DEF Sequential, Accounted, Current
<1>6. Shapes(g)
  BY <1>2, <1>4 DEF Sequential, Shapes
<1>7. OnTheWay(g)
  BY <1>1, <1>2, <1>4 DEF Sequential, OnTheWay, Settled
<1>8. Visiting(g)
  BY <1>1, <1>2, <1>4 DEF Sequential, Visiting, Settled
<1> QED
  BY <1>3, <1>5, <1>6, <1>7, <1>8, Steady DEF Sequential, Pick, managerVars, directoryVars

LEMMA EnterScopeKeeps ==
  ASSUME TInv, NEW r \in Requests, Sequential(frame[r]), EnterScope(r)
  PROVE  Sequential(frame[r])'
<1> DEFINE f == frame[r]
<1>0. f \in Frame /\ Located(f) /\ frame \in [Requests -> Frame] /\ DirectoryTypes
  BY DEF TInv
<1>1. f.pc = "scope" /\ Entered(f) /\ Hands(f) = {} /\ Falling(f) = {} /\ f.held = {}
  BY DEF EnterScope, At, Hands, Falling, Entered, Sequential, OnTheWay
<1>2. CASE Missing(f.now)
  <2> DEFINE g == Passed(f)
  <2>1. /\ g.op = f.op /\ g.agent = f.agent /\ g.todo = f.todo /\ g.held = {} /\ g.pc = "next"
    BY <1>0 DEF Frame, Passed
  <2>2. Hands(g) = {} /\ Falling(g) = {} /\ ~Entered(g)
    BY <2>1 DEF Hands, Falling, Entered
  <2>3. frame' = Locals(r, g) /\ UNCHANGED scopes
    BY <1>2 DEF EnterScope
  <2> HIDE DEF g
  <2>4. Accounted(g) /\ Served /\ Current(g)
    BY <1>1, <2>2 DEF Sequential, Accounted, Current
  <2>5. Shapes(g)
    BY <2>1, <2>2 DEF Sequential, Shapes
  <2>6. OnTheWay(g) /\ Visiting(g)
    BY <1>1, <1>2, <2>1, <2>2 DEF Sequential, OnTheWay, Visiting
  <2> QED
    BY <2>3, <2>4, <2>5, <2>6, Steady DEF Sequential, EnterScope, directoryVars
<1>3. CASE ~Missing(f.now)
  <2> DEFINE g == [f EXCEPT !.pc = "bind", !.left = Bindings(f.now)]
  <2>1. /\ g.op = f.op /\ g.agent = f.agent /\ g.todo = f.todo /\ g.held = {} /\ g.pc = "bind"
        /\ g.now = f.now /\ g.left = Bindings(f.now)
    BY <1>0, <1>1 DEF Frame
  <2>2. Hands(g) = {} /\ Falling(g) = {} /\ Entered(g)
    BY <2>1 DEF Hands, Falling, Entered
  <2>3. /\ frame'[r] = g /\ scopes' = scopes \union {f.now}
        /\ UNCHANGED <<registry, provider, bundles, live, configs, plugins, loops, failed>>
    BY <1>0, <1>3 DEF EnterScope, Locals, directoryVars
  <2> HIDE DEF g
  <2>4. f.now \in Enabled /\ f.now \notin Materialized \union failed /\ "agent" \in bundles
    BY <1>1, <1>3 DEF Sequential, OnTheWay, Missing
  <2>5. Accounted(frame[r])' /\ Served'
    BY <1>1, <2>2, <2>3, <2>4
       DEF Sequential, Accounted, Served, SetOf, LoopOf, Hands, Materialized
  <2>6. Shapes(frame[r])' /\ Current(frame[r])'
    BY <1>1, <2>1, <2>2, <2>3
       DEF Sequential, Shapes, SetOf, Entered, Current, KindsOf, Materialized, Enabled, Falling,
           Bindings
  <2>7. OnTheWay(g) /\ Visiting(g)
    BY <1>1, <2>1, <2>2, <2>4 DEF Sequential, OnTheWay, Visiting, KindsOf
  <2>8. OnTheWay(frame[r])' /\ Visiting(frame[r])'
    BY <2>1, <2>3, <2>7
       DEF OnTheWay, Visiting, Entered, Enabled, Materialized, Missing, Bindings, KindsOf, Llms,
           SetOf
  <2> QED
    BY <2>5, <2>6, <2>8 DEF Sequential
<1> QED
  BY <1>2, <1>3

-----------------------------------------------------------------------------
(* One request: building a set *)

\* A set of plugin instances has one of each kind at most, and is not None.
LEMMA SetsAreNotNone ==
  ASSUME NEW S \in SUBSET Snapshot, \A x \in S : x.kind \in Plugins,
         \A x, y \in S : x.kind = y.kind => x = y
  PROVE  S # None
<1>1. CASE S = {}
  BY <1>1, NoneAssumption
<1>2. CASE \E x \in S : x.kind = "tools"
  <2>1. PICK x \in S : x.kind = "tools"
    BY <1>2
  <2>2. CASE \E y \in S : y.kind = "llm"
    <3>1. PICK y \in S : y.kind = "llm"
      BY <2>2
    <3>2. S = {x, y}
      BY <2>1, <3>1 DEF Plugins
    <3> QED
      BY <3>2, NoneAssumption
  <2>3. CASE ~ \E y \in S : y.kind = "llm"
    <3>1. S = {x, x}
      BY <2>1, <2>3 DEF Plugins
    <3> QED
      BY <3>1, NoneAssumption
  <2> QED
    BY <2>2, <2>3
<1>3. CASE S # {} /\ ~ \E x \in S : x.kind = "tools"
  <2>1. PICK x \in S : x.kind = "llm"
    BY <1>3 DEF Plugins
  <2>2. S = {x, x}
    BY <1>3, <2>1 DEF Plugins
  <2> QED
    BY <2>2, NoneAssumption
<1> QED
  BY <1>1, <1>2, <1>3

LEMMA InheritKeeps ==
  ASSUME TInv, NEW r \in Requests, Sequential(frame[r]), Inherit(r)
  PROVE  Sequential(frame[r])'
<1> DEFINE f == frame[r]
           g == [f EXCEPT !.left = @ \ {"llm"}]
<1>0. f \in Frame /\ Located(f)
  BY DEF TInv
<1>1. f.pc = "bind"
  BY DEF Inherit, At
<1>2. /\ g.op = f.op /\ g.agent = f.agent /\ g.todo = f.todo /\ g.held = f.held
      /\ g.pc = "bind" /\ g.now = f.now /\ g.left = f.left \ {"llm"}
  BY <1>0, <1>1 DEF Frame
<1>3. frame' = Locals(r, g)
  BY DEF Inherit
<1> HIDE DEF g
<1>4. Hands(g) = Hands(f) /\ Falling(g) = Falling(f) /\ Entered(g) /\ Entered(f)
  BY <1>1, <1>2 DEF Hands, Falling, Entered
<1>5. Accounted(g) /\ Served /\ Current(g)
  BY <1>1, <1>4 DEF Sequential, Accounted, Current
<1>6. Shapes(g)
  BY <1>2, <1>4 DEF Sequential, Shapes
<1>7. OnTheWay(g) /\ Visiting(g)
  <2>1. (KindsOf(f.held) \union f.left) \ {"llm"} = Bindings(f.now) \ {"llm"}
    BY <1>1 DEF Sequential, OnTheWay
  <2>2. (KindsOf(g.held) \union g.left) \ {"llm"} = Bindings(g.now) \ {"llm"}
    BY <1>2, <2>1
  <2> QED
    BY <1>1, <1>2, <1>4, <2>2 DEF Sequential, OnTheWay, Visiting
<1> QED
  BY <1>3, <1>5, <1>6, <1>7, Steady DEF Sequential, Inherit, managerVars, directoryVars

LEMMA BindKeeps ==
  ASSUME TInv, NEW r \in Requests, Sequential(frame[r]),
         NEW ok \in BOOLEAN, NEW p \in frame[r].left, Bind(r, p, ok)
  PROVE  Sequential(frame[r])'
<1> DEFINE f == frame[r]
<1>0. f \in Frame /\ Located(f) /\ frame \in [Requests -> Frame] /\ DirectoryTypes
  BY DEF TInv
<1>1. /\ f.pc = "bind" /\ f.now \in Agents /\ p \in Plugins
      /\ Hands(f) = f.held /\ Falling(f) = {} /\ Entered(f)
  BY <1>0 DEF Bind, At, Located, Frame, Hands, Falling, Entered
<1>2. /\ (KindsOf(f.held) \union f.left) \ {"llm"} = Bindings(f.now) \ {"llm"}
      /\ \A x \in f.held : x.kind \notin f.left
  BY <1>1 DEF Sequential, OnTheWay
<1>u. UNCHANGED <<registry, provider, bundles, scopes, configs, plugins, loops, failed>>
  BY DEF Bind, directoryVars
<1>3. PICK x \in New(f.now, p, ModelFor(f.now, p)) :
        /\ Creates(ok, x)
        /\ frame' = Locals(r, IF ok
             THEN [f EXCEPT !.left = @ \ {p}, !.held = @ \union {x}]
             ELSE [f EXCEPT !.left = {}, !.pc = "undo"])
  BY DEF Bind
<1>4. x.agent = f.now /\ x.kind = p
  BY <1>0, <1>1, <1>3, NewIsNew, StoredModelType DEF Kinds
<1>5. CASE ok
  <2> DEFINE g == [f EXCEPT !.left = @ \ {p}, !.held = @ \union {x}]
  <2>1. /\ g.op = f.op /\ g.agent = f.agent /\ g.todo = f.todo /\ g.held = f.held \union {x}
        /\ g.pc = "bind" /\ g.now = f.now /\ g.left = f.left \ {p}
    BY <1>0, <1>1 DEF Frame
  <2>2. frame'[r] = g /\ live' = live \union {x}
    BY <1>0, <1>3, <1>5 DEF Locals, Creates
  <2> HIDE DEF g
  <2>3. Hands(g) = f.held \union {x} /\ Falling(g) = {} /\ Entered(g)
    BY <2>1 DEF Hands, Falling, Entered
  <2>4. Accounted(frame[r])' /\ Served'
    BY <1>u, <1>1, <2>2, <2>3
       DEF Sequential, Accounted, Served, SetOf, LoopOf, Hands, Materialized
  <2>5. Shapes(frame[r])'
    <3>1. \A y, z \in g.held : y.kind = z.kind => y = z
      BY <1>1, <1>2, <1>4, <2>1 DEF Sequential, Shapes
    <3>2. \A y \in g.held : y.kind \in Plugins /\ y.agent = g.now
      BY <1>1, <1>4, <2>1 DEF Sequential, Shapes
    <3> QED
      BY <1>u, <2>2, <2>3, <3>1, <3>2 DEF Sequential, Shapes, SetOf, Entered
  <2>6. Current(frame[r])'
    BY <1>u, <1>1, <2>2, <2>3
       DEF Sequential, Current, KindsOf, SetOf, Materialized, Enabled, Falling, Bindings
  <2>7. OnTheWay(g) /\ Visiting(g)
    <3>1. KindsOf(g.held) = KindsOf(f.held) \union {p}
      BY <1>4, <2>1 DEF KindsOf
    <3>2. (KindsOf(g.held) \union g.left) \ {"llm"} = Bindings(g.now) \ {"llm"}
      BY <1>2, <2>1, <3>1, ZenonT(30)
    <3>3. \A y \in g.held : y.kind \notin g.left
      BY <1>2, <1>4, <2>1
    <3> QED
      BY <1>1, <2>1, <2>3, <3>2, <3>3 DEF Sequential, OnTheWay, Visiting
  <2>8. OnTheWay(frame[r])' /\ Visiting(frame[r])'
    BY <1>u, <2>1, <2>2, <2>7
       DEF OnTheWay, Visiting, Entered, Enabled, Materialized, Missing, Bindings, KindsOf, Llms,
           SetOf
  <2> QED
    BY <2>4, <2>5, <2>6, <2>8 DEF Sequential
<1>6. CASE ~ok
  <2> DEFINE g == [f EXCEPT !.left = {}, !.pc = "undo"]
  <2>1. /\ g.op = f.op /\ g.agent = f.agent /\ g.todo = f.todo /\ g.held = f.held
        /\ g.pc = "undo" /\ g.now = f.now
    BY <1>0, <1>1 DEF Frame
  <2>2. frame' = Locals(r, g) /\ UNCHANGED live
    BY <1>3, <1>6 DEF Creates
  <2> HIDE DEF g
  <2>3. Hands(g) = Hands(f) /\ Falling(g) = {} /\ Entered(g)
    BY <1>1, <2>1 DEF Hands, Falling, Entered
  <2>4. Accounted(g) /\ Served /\ Current(g)
    BY <1>1, <2>3 DEF Sequential, Accounted, Current
  <2>5. Shapes(g)
    BY <1>1, <2>1, <2>3 DEF Sequential, Shapes
  <2>6. OnTheWay(g) /\ Visiting(g)
    BY <1>1, <2>1, <2>3 DEF Sequential, OnTheWay, Visiting
  <2> QED
    BY <1>u, <2>2, <2>4, <2>5, <2>6, Steady DEF Sequential
<1> QED
  BY <1>5, <1>6

\* CreateLoop publishes what it holds.
LEMMA CreateLoopKeeps ==
  ASSUME TInv, NEW r \in Requests, Sequential(frame[r]), NEW ok \in BOOLEAN, CreateLoop(r, ok)
  PROVE  Sequential(frame[r])'
<1> DEFINE f == frame[r]
           a == f.now
<1>0. f \in Frame /\ Located(f) /\ frame \in [Requests -> Frame] /\ DirectoryTypes
  BY DEF TInv
<1>1. /\ f.pc = "bind" /\ a \in Agents /\ f.left = {} /\ f.held \subseteq Snapshot
      /\ Hands(f) = f.held /\ Falling(f) = {} /\ Entered(f)
  BY <1>0 DEF CreateLoop, At, Located, Frame, Hands, Falling, Entered
<1>2. /\ KindsOf(f.held) \ {"llm"} = Bindings(a) \ {"llm"}
      /\ a \in Enabled /\ a \notin Materialized \union failed
      /\ \A x \in f.held : x.agent = a /\ x.kind \in Plugins
      /\ \A x, y \in f.held : x.kind = y.kind => x = y
  BY <1>1 DEF Sequential, OnTheWay, Shapes
<1>u. UNCHANGED <<registry, provider, bundles, scopes, configs>>
  BY DEF CreateLoop
<1>3. PICK x \in New(a, "loop", None) :
       /\ Creates(ok, x)
       /\ IF ok
            THEN /\ failed'  = failed \ {a}
                 /\ loops'   = [loops EXCEPT ![a] = x]
                 /\ plugins' = [plugins EXCEPT ![a] = f.held]
                 /\ frame'   = Locals(r, Passed(f))
            ELSE /\ Goto(r, "undo")
                 /\ UNCHANGED <<failed, loops, plugins>>
  BY DEF CreateLoop
<1>4. x.agent = a /\ x.kind = "loop" /\ x # None
  BY <1>1, <1>3, NewIsNew DEF Kinds
<1>5. CASE ok
  <2> DEFINE g == Passed(f)
  <2>1. /\ g.op = f.op /\ g.agent = f.agent /\ g.todo = f.todo /\ g.held = {} /\ g.pc = "next"
    BY <1>0 DEF Frame, Passed
  <2>2. /\ frame'[r] = g /\ live' = live \union {x} /\ failed' = failed
        /\ \A b \in Agents : loops'[b] = IF b = a THEN x ELSE loops[b]
        /\ \A b \in Agents : plugins'[b] = IF b = a THEN f.held ELSE plugins[b]
    <3>1. frame'[r] = g
      BY <1>0, <1>3, <1>5 DEF Locals
    <3>2. live' = live \union {x} /\ failed' = failed
      BY <1>2, <1>3, <1>5 DEF Creates
    <3>3. loops' = [loops EXCEPT ![a] = x] /\ plugins' = [plugins EXCEPT ![a] = f.held]
      BY <1>3, <1>5
    <3> QED
      BY <1>0, <1>1, <3>1, <3>2, <3>3 DEF DirectoryTypes
  <2> HIDE DEF g
  <2>3. Hands(g) = {} /\ Falling(g) = {} /\ ~Entered(g)
    BY <2>1 DEF Hands, Falling, Entered
  <2>4. f.held # None
    BY <1>1, <1>2, SetsAreNotNone
  <2>5. /\ \A b \in Agents : b \in Materialized' <=> b = a \/ b \in Materialized
        /\ \A b \in Agents : SetOf(b)' = IF b = a THEN f.held ELSE SetOf(b)
        /\ \A b \in Agents : LoopOf(b)' = IF b = a THEN {x} ELSE LoopOf(b)
    BY <1>4, <2>2, <2>4 DEF Materialized, SetOf, LoopOf
  <2>6. Accounted(frame[r])'
    <3> SUFFICES ASSUME NEW y \in live', y.agent \in Agents
                 PROVE  y \in SetOf(y.agent)' \union LoopOf(y.agent)' \union Hands(frame[r])'
      BY DEF Accounted
    <3>1. CASE y = x
      BY <1>1, <1>4, <2>5, <3>1
    <3>2. CASE y # x
      <4>1. y \in SetOf(y.agent) \union LoopOf(y.agent) \union f.held
        BY <1>1, <2>2, <3>2 DEF Sequential, Accounted
      <4>2. SetOf(a) = {} /\ LoopOf(a) = {}
        BY <1>1, <1>2 DEF Sequential, Served, Materialized, SetOf, LoopOf
      <4> QED
        BY <1>2, <2>5, <4>1, <4>2
    <3> QED
      BY <3>1, <3>2
  <2>7. Served'
    <3>1. ASSUME NEW b \in Agents
          PROVE  IF b \in Materialized' THEN loops'[b] \in live' ELSE loops'[b] = None
      BY <1>u, <1>2, <2>2, <2>5 DEF Sequential, Served
    <3>2. \A b \in failed' : b \notin scopes' /\ b \notin Materialized'
      BY <1>0, <1>u, <1>2, <2>2, <2>5 DEF Sequential, Served, DirectoryTypes
    <3>3. scopes' # {} => "agent" \in bundles'
      BY <1>u DEF Sequential, Served
    <3> QED
      BY <3>1, <3>2, <3>3 DEF Served
  <2>8. Shapes(frame[r])'
    BY <1>2, <1>4, <2>1, <2>2, <2>3, <2>5 DEF Sequential, Shapes, Entered
  <2>9. Current(frame[r])'
    <3> SUFFICES ASSUME NEW b \in (Materialized \ Falling(frame[r]))'
                 PROVE  b \in Enabled' /\ KindsOf(SetOf(b))' \ {"llm"} = Bindings(b)' \ {"llm"}
      BY DEF Current
    <3>1. b \in Agents /\ (b = a \/ b \in Materialized \ Falling(f))
      BY <1>1, <2>5 DEF Materialized
    <3>2. KindsOf(SetOf(b))' = KindsOf(IF b = a THEN f.held ELSE SetOf(b))
      BY <2>5, <3>1 DEF KindsOf
    <3> QED
      BY <1>u, <1>2, <3>1, <3>2 DEF Sequential, Current, Enabled, Bindings
  <2>10. OnTheWay(frame[r])'
    BY <1>u, <1>1, <2>1, <2>2, <2>3 DEF Sequential, OnTheWay, Entered, Enabled
  <2>11. Visiting(frame[r])'
    <3>1. \A b \in Agents : Missing(b)' <=> Missing(b)
      BY <1>u DEF Missing, Bindings
    <3>2. Enabled' = Enabled /\ Enabled \subseteq Agents
      BY <1>u DEF Enabled
    <3>3. ASSUME f.op \in {"list", "stream"}, NEW b \in Enabled
          PROVE  b \in f.todo \/ b = a \/ b \in Materialized \union failed \/ Missing(b)
      BY <1>1, <3>3 DEF Sequential, Visiting
    <3>4. ASSUME f.op \in {"list", "stream"}, NEW b \in Enabled
          PROVE  b \in f.todo \/ b \in Materialized' \union failed' \/ Missing(b)'
      BY <2>2, <2>5, <3>1, <3>2, <3>3, <3>4
    <3> QED
      BY <2>1, <2>2, <3>2, <3>4 DEF Visiting
  <2> QED
    BY <2>6, <2>7, <2>8, <2>9, <2>10, <2>11 DEF Sequential
<1>6. CASE ~ok
  <2> DEFINE g == [f EXCEPT !.pc = "undo"]
  <2>1. /\ g.op = f.op /\ g.agent = f.agent /\ g.todo = f.todo /\ g.held = f.held
        /\ g.pc = "undo" /\ g.now = f.now
    BY <1>0, <1>1 DEF Frame
  <2>2. frame' = Locals(r, g) /\ UNCHANGED <<live, failed, loops, plugins>>
    BY <1>3, <1>6 DEF Creates, Goto
  <2> HIDE DEF g
  <2>3. Hands(g) = Hands(f) /\ Falling(g) = {} /\ Entered(g)
    BY <1>1, <2>1 DEF Hands, Falling, Entered
  <2>4. Accounted(g) /\ Served /\ Current(g)
    BY <1>1, <2>3 DEF Sequential, Accounted, Current
  <2>5. Shapes(g)
    BY <1>1, <2>1, <2>3 DEF Sequential, Shapes
  <2>6. OnTheWay(g) /\ Visiting(g)
    BY <1>1, <2>1, <2>3 DEF Sequential, OnTheWay, Visiting
  <2> QED
    BY <1>u, <2>2, <2>4, <2>5, <2>6, Steady DEF Sequential
<1> QED
  BY <1>5, <1>6

LEMMA RollbackKeeps ==
  ASSUME TInv, NEW r \in Requests, Sequential(frame[r]), Rollback(r)
  PROVE  Sequential(frame[r])'
<1> DEFINE f == frame[r]
           a == f.now
<1>0. f \in Frame /\ Located(f) /\ frame \in [Requests -> Frame] /\ DirectoryTypes
  BY DEF TInv
<1>1. /\ f.pc = "undo" /\ a \in Agents /\ f.held = {}
      /\ Hands(f) = {} /\ Falling(f) = {} /\ Entered(f)
  BY <1>0 DEF Rollback, At, Located, Hands, Falling, Entered
<1>2. a \in Enabled /\ a \notin Materialized \union failed
  BY <1>1 DEF Sequential, OnTheWay
<1>u. UNCHANGED <<registry, provider, bundles, live, configs, plugins, loops, default_llm>>
  BY DEF Rollback
<1>3. CASE Occupied(a)
  <2>1. Sequential(Idle)
    BY <1>1, Fresh DEF Idle
  <2>2. frame' = Locals(r, Idle) /\ UNCHANGED <<scopes, failed>>
    BY <1>3 DEF Rollback, Return
  <2> QED
    BY <1>u, <2>1, <2>2, Steady
<1>4. CASE ~Occupied(a)
  <2> DEFINE g == Passed(f)
  <2>1. /\ g.op = f.op /\ g.agent = f.agent /\ g.todo = f.todo /\ g.held = {} /\ g.pc = "next"
    BY <1>0 DEF Frame, Passed
  <2>2. /\ frame'[r] = g /\ scopes' = scopes \ {a} /\ failed' = failed \union {a}
    BY <1>0, <1>4 DEF Rollback, Locals
  <2> HIDE DEF g
  <2>3. Hands(g) = {} /\ Falling(g) = {} /\ ~Entered(g)
    BY <2>1 DEF Hands, Falling, Entered
  <2>4. Materialized' = Materialized
    BY <1>u DEF Materialized
  <2>5. Accounted(frame[r])'
    BY <1>u, <1>1, <2>2, <2>3 DEF Sequential, Accounted, SetOf, LoopOf, Hands
  <2>6. Served'
    BY <1>u, <1>2, <2>2, <2>4 DEF Sequential, Served
  <2>7. Shapes(frame[r])' /\ Current(frame[r])'
    BY <1>u, <1>1, <2>1, <2>2, <2>3
       DEF Sequential, Shapes, SetOf, Entered, Current, KindsOf, Materialized, Enabled, Falling,
           Bindings
  <2>8. OnTheWay(frame[r])'
    BY <1>u, <1>1, <2>1, <2>2, <2>3 DEF Sequential, OnTheWay, Entered, Enabled
  <2>9. Visiting(frame[r])'
    <3>1. \A b \in Agents : Missing(b)' <=> Missing(b)
      BY <1>u DEF Missing, Bindings
    <3>2. Enabled' = Enabled /\ Enabled \subseteq Agents
      BY <1>u DEF Enabled
    <3>3. ASSUME f.op \in {"list", "stream"}, NEW b \in Enabled
          PROVE  b \in f.todo \/ b = a \/ b \in Materialized \union failed \/ Missing(b)
      BY <1>1, <3>3 DEF Sequential, Visiting
    <3>4. ASSUME f.op \in {"list", "stream"}, NEW b \in Enabled
          PROVE  b \in f.todo \/ b \in Materialized' \union failed' \/ Missing(b)'
      BY <2>2, <2>4, <3>1, <3>2, <3>3, <3>4
    <3> QED
      BY <2>1, <2>2, <3>2, <3>4 DEF Visiting
  <2> QED
    BY <2>5, <2>6, <2>7, <2>8, <2>9 DEF Sequential
<1> QED
  BY <1>3, <1>4

-----------------------------------------------------------------------------
(* One request: the end of a visit *)

LEMMA VisitedKeeps ==
  ASSUME TInv, NEW r \in Requests, Sequential(frame[r]), Visited(r)
  PROVE  Sequential(frame[r])'
<1> DEFINE f == frame[r]
           again == [Idle EXCEPT !.op = "list", !.agent = None, !.arg = None, !.pc = "all"]
<1>0. f \in Frame /\ Located(f)
  BY DEF TInv
<1>1. f.pc = "next" /\ f.todo = {} /\ f.held = {} /\ Hands(f) = {} /\ Falling(f) = {}
  BY <1>0 DEF Visited, At, Located, Hands, Falling
<1>u. UNCHANGED <<registry, provider, bundles, live, scopes, configs, plugins, loops, failed>>
  BY DEF Visited, managerVars, directoryVars
<1>2. CASE frame' = Locals(r, Idle)
  <2>1. Sequential(Idle)
    BY <1>1, Fresh DEF Idle
  <2> QED
    BY <1>u, <1>2, <2>1, Steady
<1>3. CASE frame' = Locals(r, again)
  <2>1. Sequential(again)
    BY <1>1, Fresh DEF Idle
  <2> QED
    BY <1>u, <1>3, <2>1, Steady
<1>4. ASSUME f.op = "stream", NEW w,
             frame' = Locals(r, [f EXCEPT
               !.pc = IF Llms(f.agent) = {} THEN "create" ELSE "replace",
               !.arg = w, !.held = Llms(f.agent)])
      PROVE  Sequential(frame[r])'
  <2> DEFINE g == [f EXCEPT !.pc = IF Llms(f.agent) = {} THEN "create" ELSE "replace",
                            !.arg = w, !.held = Llms(f.agent)]
  <2>1. /\ g.op = "stream" /\ g.agent = f.agent /\ g.todo = {} /\ g.held = Llms(f.agent)
        /\ g.pc = IF Llms(f.agent) = {} THEN "create" ELSE "replace"
    BY <1>0, <1>1, <1>4 DEF Frame
  <2>2. frame' = Locals(r, g)
    BY <1>4
  <2> HIDE DEF g
  <2>3. Hands(g) = {} /\ Falling(g) = {} /\ ~Entered(g)
    BY <2>1 DEF Hands, Falling, Entered
  <2>4. Accounted(g) /\ Served /\ Current(g)
    BY <1>1, <2>3 DEF Sequential, Accounted, Current
  <2>5. Shapes(g)
    BY <2>1, <2>3 DEF Sequential, Shapes, Llms, Plugins
  <2>6. f.agent \in Enabled
    BY <1>1, <1>4 DEF Sequential, OnTheWay
  <2>7. OnTheWay(g) /\ Visiting(g)
    BY <1>1, <1>4, <2>1, <2>3, <2>6 DEF Sequential, OnTheWay, Visiting, Entered
  <2> QED
    BY <1>u, <2>2, <2>4, <2>5, <2>7, Steady DEF Sequential
<1>5. \/ frame' = Locals(r, Idle) \/ frame' = Locals(r, again)
      \/ /\ f.op = "stream"
         /\ \E w : frame' = Locals(r, [f EXCEPT
               !.pc = IF Llms(f.agent) = {} THEN "create" ELSE "replace",
               !.arg = w, !.held = Llms(f.agent)])
  <2>1. CASE f.op # "stream"
    BY <2>1 DEF Visited, Return
  <2>2. CASE f.op = "stream" /\ (Wanted(f) = None \/ \E x \in Llms(f.agent) : x.model = Wanted(f))
    BY <2>2 DEF Visited, Call
  <2>3. CASE f.op = "stream"
             /\ ~(Wanted(f) = None \/ \E x \in Llms(f.agent) : x.model = Wanted(f))
    <3>1. frame' = Locals(r, [f EXCEPT
               !.pc = IF Llms(f.agent) = {} THEN "create" ELSE "replace",
               !.arg = Wanted(f), !.held = Llms(f.agent)])
      BY <2>3 DEF Visited
    <3> QED
      BY <2>3, <3>1
  <2> QED
    BY <2>1, <2>2, <2>3
<1> QED
  BY <1>2, <1>3, <1>4, <1>5

LEMMA ReplaceKeeps ==
  ASSUME TInv, NEW r \in Requests, Sequential(frame[r]), Replace(r)
  PROVE  Sequential(frame[r])'
<1> DEFINE f == frame[r]
           g == IF f.held \subseteq live THEN [f EXCEPT !.pc = "create", !.held = {}] ELSE Idle
<1>0. f \in Frame /\ Located(f) /\ frame \in [Requests -> Frame] /\ DirectoryTypes
  BY DEF TInv
<1>1. /\ f.pc = "replace" /\ f.op = "stream" /\ f.todo = {} /\ f.held = Llms(f.agent)
      /\ f.agent \in Agents
      /\ Hands(f) = {} /\ Falling(f) = {}
  BY <1>0 DEF Replace, At, Located, Hands, Falling, Sequential, OnTheWay
<1>2. /\ g.todo = {} /\ g.held = {}
      /\ \/ g.pc = "idle"
         \/ g.pc = "create" /\ g.op = "stream" /\ g.agent = f.agent
  BY <1>0, <1>1 DEF Frame, Idle
<1>3. frame'[r] = g
  BY <1>0 DEF Replace, Return, Locals
<1> HIDE DEF g
<1>4. /\ UNCHANGED <<registry, bundles, scopes, configs, plugins, loops, failed>>
      /\ live' = live \ Llms(f.agent)
  BY <1>1 DEF Replace, directoryVars
<1>5. Hands(g) = {} /\ Falling(g) = {} /\ ~Entered(g)
  BY <1>2 DEF Hands, Falling, Entered
<1>6. Accounted(frame[r])'
  BY <1>1, <1>3, <1>4, <1>5 DEF Sequential, Accounted, SetOf, LoopOf, Hands
<1>7. Served'
  <2>1. \A a \in Agents : a \in Materialized => loops[a] # None
    BY <1>0, NoneAssumption DEF Sequential, Served, DirectoryTypes
  <2>2. \A a \in Agents : loops[a] # None => loops[a] \notin Llms(f.agent)
    BY DEF Sequential, Shapes, Llms
  <2>3. \A a \in Materialized : loops[a] \in live'
    BY <1>4, <2>1, <2>2 DEF Sequential, Served, Materialized
  <2> QED
    BY <1>4, <2>3 DEF Sequential, Served, Materialized
<1>8. Shapes(frame[r])' /\ Current(frame[r])'
  BY <1>1, <1>2, <1>3, <1>4, <1>5
     DEF Sequential, Shapes, SetOf, Entered, Current, KindsOf, Materialized, Enabled, Falling,
         Bindings
<1>9. OnTheWay(frame[r])'
  BY <1>1, <1>2, <1>3, <1>4, <1>5
     DEF Sequential, OnTheWay, Entered, Enabled, Llms, SetOf
<1>10. Visiting(frame[r])'
  <2>1. ASSUME NEW b \in Enabled
        PROVE  b \in Materialized \union failed \/ Missing(b)
    BY <1>1 DEF Sequential, Visiting, Entered
  <2> QED
    BY <1>2, <1>3, <1>4, <1>5, <2>1
       DEF Visiting, Entered, Enabled, Missing, Bindings, Materialized
<1> QED
  BY <1>6, <1>7, <1>8, <1>9, <1>10 DEF Sequential

\* The agent of a stream that creates an llm has its set: the visit before
\* dealt with it, its scope says that it did not fail, and both of its
\* bundles are installed.
LEMMA CreateLlmKeeps ==
  ASSUME TInv, NEW r \in Requests, Sequential(frame[r]), NEW ok \in BOOLEAN, CreateLlm(r, ok)
  PROVE  Sequential(frame[r])'
<1> DEFINE f == frame[r]
           a == f.agent
           again == [Idle EXCEPT !.op = "list", !.agent = None, !.arg = None, !.pc = "all"]
<1>0. f \in Frame /\ Located(f) /\ frame \in [Requests -> Frame] /\ DirectoryTypes
  BY DEF TInv
<1>1. /\ f.pc = "create" /\ f.op = "stream" /\ f.todo = {} /\ a \in Agents
      /\ f.arg \in Models \union {None}
      /\ Hands(f) = {} /\ Falling(f) = {} /\ ~Entered(f)
  BY <1>0 DEF CreateLlm, At, Located, Hands, Falling, Entered
<1>2. Llms(a) \intersect live = {} /\ a \in Enabled
  BY <1>1 DEF Sequential, OnTheWay
<1>u. UNCHANGED <<registry, provider, bundles, scopes, configs, loops, failed>>
  BY DEF CreateLlm
<1>3. PICK x \in New(a, "llm", f.arg) :
       /\ Creates(ok, x)
       /\ plugins' = IF ok THEN [plugins EXCEPT ![a] = (SetOf(a) \ Llms(a)) \union {x}]
                     ELSE plugins
  BY DEF CreateLlm
<1>4. x \in Snapshot /\ x.agent = a /\ x.kind = "llm"
  BY <1>1, <1>3, NewIsNew DEF Kinds, Plugins
<1>5. CASE ok
  <2> DEFINE S == (SetOf(a) \ Llms(a)) \union {x}
  <2>1. a \in scopes /\ "llm" \in bundles
    BY <1>5 DEF CreateLlm
  <2>2. a \in Materialized
    <3>1. "agent" \in bundles /\ a \notin failed
      BY <2>1 DEF Sequential, Served
    <3>2. ~Missing(a)
      BY <2>1, <3>1 DEF Missing
    <3> QED
      BY <1>1, <1>2, <3>1, <3>2 DEF Sequential, Visiting
  <2>3. frame'[r] = again
    BY <1>0, <1>5 DEF CreateLlm, Call, Locals
  <2>4. /\ live' = live \union {x}
        /\ \A b \in Agents : plugins'[b] = IF b = a THEN S ELSE plugins[b]
    BY <1>0, <1>1, <1>3, <1>5 DEF Creates, DirectoryTypes
  <2>5. /\ \A y \in SetOf(a) : y.agent = a /\ y.kind \in Plugins
        /\ \A y, z \in SetOf(a) : y.kind = z.kind => y = z
    BY <1>1 DEF Sequential, Shapes
  <2>6. /\ \A y \in S : y.agent = a /\ y.kind \in Plugins
        /\ \A y, z \in S : y.kind = z.kind => y = z
    BY <1>4, <2>5 DEF Llms, Plugins
  <2>7. S \subseteq Snapshot
    BY <1>0, <1>1, <1>4 DEF SetOf, DirectoryTypes
  <2>8. S # None
    BY <2>6, <2>7, SetsAreNotNone
  <2> HIDE DEF S
  <2>9. /\ Materialized' = Materialized
        /\ \A b \in Agents : SetOf(b)' = IF b = a THEN S ELSE SetOf(b)
        /\ \A b \in Agents : LoopOf(b)' = LoopOf(b)
    BY <1>u, <2>2, <2>4, <2>8 DEF Materialized, SetOf, LoopOf
  <2>10. /\ again.pc = "all" /\ again.op = "list" /\ again.held = {} /\ again.todo = {}
    BY DEF Idle
  <2> HIDE DEF again
  <2>11. Hands(again) = {} /\ Falling(again) = {} /\ ~Entered(again)
    BY <2>10 DEF Hands, Falling, Entered
  <2>12. Accounted(frame[r])'
    <3> SUFFICES ASSUME NEW y \in live', y.agent \in Agents
                 PROVE  y \in SetOf(y.agent)' \union LoopOf(y.agent)'
      BY DEF Accounted
    <3>1. CASE y = x
      BY <1>1, <1>4, <2>9, <3>1 DEF S
    <3>2. CASE y # x
      <4>1. y \in live /\ y \in SetOf(y.agent) \union LoopOf(y.agent)
        BY <1>1, <2>4, <3>2 DEF Sequential, Accounted
      <4> QED
        BY <1>2, <2>9, <4>1 DEF S
    <3> QED
      BY <3>1, <3>2
  <2>13. Served'
    BY <1>u, <2>4, <2>9 DEF Sequential, Served
  <2>14. Shapes(frame[r])'
    BY <1>u, <2>3, <2>6, <2>9, <2>10, <2>11 DEF Sequential, Shapes, Entered
  <2>15. Current(frame[r])'
    <3> SUFFICES ASSUME NEW b \in Materialized'
                 PROVE  b \in Enabled' /\ KindsOf(SetOf(b))' \ {"llm"} = Bindings(b)' \ {"llm"}
      BY DEF Current
    <3>1. /\ b \in Agents /\ b \in Enabled
          /\ KindsOf(SetOf(b)) \ {"llm"} = Bindings(b) \ {"llm"}
      BY <1>1, <2>9 DEF Sequential, Current, Materialized
    <3>2. KindsOf(S) \ {"llm"} = KindsOf(SetOf(a)) \ {"llm"}
      BY <1>4 DEF S, KindsOf, Llms
    <3>3. KindsOf(SetOf(b))' = KindsOf(IF b = a THEN S ELSE SetOf(b))
      BY <2>9, <3>1 DEF KindsOf
    <3> QED
      BY <1>u, <3>1, <3>2, <3>3 DEF Enabled, Bindings
  <2>16. OnTheWay(frame[r])' /\ Visiting(frame[r])'
    BY <2>3, <2>10, <2>11 DEF OnTheWay, Visiting, Entered
  <2> QED
    BY <2>12, <2>13, <2>14, <2>15, <2>16 DEF Sequential
<1>6. CASE ~ok
  <2>1. Sequential(Idle)
    BY <1>1, Fresh DEF Idle
  <2>2. frame' = Locals(r, Idle)
    BY <1>6 DEF CreateLlm, Return
  <2>3. UNCHANGED <<live, plugins>>
    BY <1>3, <1>6 DEF Creates
  <2> QED
    BY <1>u, <2>1, <2>2, <2>3, Steady
<1> QED
  BY <1>5, <1>6

LEMMA ServerKeeps ==
  ASSUME TInv, OneRequest, SInv,
         \/ \E b \in Bundles : InstallBundle(b)
         \/ \E a \in Agents : InstallForeign(a) \/ UninstallForeign(a)
         \/ UNCHANGED vars
  PROVE  SInv'
<1> SUFFICES ASSUME NEW r \in Requests PROVE Sequential(frame[r])'
  BY DEF SInv
<1>0. Sequential(frame[r])
  BY DEF SInv
<1>1. ASSUME UNCHANGED <<registry, provider, bundles, live, scopes, configs, plugins, loops,
                         failed, frame>>
      PROVE  Sequential(frame[r])'
  BY <1>0, <1>1
     DEF Sequential, Accounted, Shapes, Served, Current, OnTheWay, Visiting, SetOf,
         LoopOf, Hands, Falling, Entered, Materialized, Enabled, Bindings, Missing,
         StoredModel, Llms, KindsOf
<1>2. ASSUME NEW b \in Bundles, InstallBundle(b)
      PROVE  Sequential(frame[r])'
  <2>1. /\ frame' = frame /\ bundles \subseteq bundles' /\ frame[r].pc = "idle"
        /\ UNCHANGED <<registry, provider, live, scopes, configs, plugins, loops, failed>>
    BY <1>2 DEF InstallBundle, AtRest, At, directoryVars
  <2>2. ~Entered(frame[r])
    BY <2>1 DEF Entered
  <2>3. Accounted(frame[r])' /\ Served'
    BY <1>0, <2>1 DEF Sequential, Accounted, Served, SetOf, LoopOf, Hands, Materialized
  <2>4. Shapes(frame[r])' /\ Current(frame[r])'
    BY <1>0, <2>1
       DEF Sequential, Shapes, SetOf, Entered, Current, KindsOf, Materialized, Enabled, Falling,
           Bindings
  <2>5. OnTheWay(frame[r])' /\ Visiting(frame[r])'
    BY <1>0, <2>1, <2>2 DEF Sequential, OnTheWay, Visiting, Entered, Enabled
  <2> QED
    BY <2>3, <2>4, <2>5 DEF Sequential
<1>3. ASSUME NEW a \in Agents, InstallForeign(a) \/ UninstallForeign(a)
      PROVE  Sequential(frame[r])'
  BY <1>1, <1>3 DEF InstallForeign, UninstallForeign, directoryVars
<1>4. CASE UNCHANGED vars
  BY <1>1, <1>4 DEF vars, managerVars, directoryVars
<1> QED
  BY <1>2, <1>3, <1>4

LEMMA NextKeeps ==
  ASSUME OneRequest
  PROVE  TInv /\ SInv /\ [Next]_vars => SInv'
<1> SUFFICES ASSUME TInv, SInv, [Next]_vars PROVE SInv'
  OBVIOUS
<1>1. ASSUME NEW r \in Requests, Begin(r) \/ Work(r) PROVE SInv'
  <2>1. Requests = {r}
    BY DEF OneRequest
  <2>2. Sequential(frame[r])
    BY DEF SInv
  <2>3. Sequential(frame[r])'
    BY <1>1, <2>2, BeginKeeps, WriteKeeps, DroppedKeeps, RemoveAgentScopeKeeps, DropKeeps,
       KillKeeps, CheckDefaultKeeps, ListingKeeps, EnterScopeKeeps, InheritKeeps, PickKeeps,
       RollbackKeeps, VisitedKeeps, ReplaceKeeps, CreateDefaultKeeps, CreateLoopKeeps,
       CreateLlmKeeps, BindKeeps
       DEF Work
  <2> QED
    BY <2>1, <2>3 DEF SInv
<1> QED
  BY <1>1, ServerKeeps DEF Next

LEMMA InitHolds == Init => SInv
<1> SUFFICES ASSUME Init, NEW r \in Requests PROVE Sequential(frame[r])
  BY DEF SInv
<1>1. frame[r] = Idle
  BY DEF Init
<1>2. Hands(Idle) = {} /\ Falling(Idle) = {} /\ ~Entered(Idle)
  BY DEF Hands, Falling, Entered, Idle
<1>3. Materialized = {} /\ failed = {} /\ scopes = {} /\ live = {}
  BY DEF Init, Materialized
<1>4. \A a \in Agents : SetOf(a) = {} /\ loops[a] = None
  BY DEF Init, SetOf
<1>5. Accounted(Idle) /\ Served /\ Current(Idle)
  BY <1>3, <1>4 DEF Accounted, Served, Current
<1>6. Shapes(Idle)
  BY <1>2, <1>4 DEF Shapes, Idle
<1>7. OnTheWay(Idle) /\ Visiting(Idle)
  BY <1>2 DEF OnTheWay, Visiting, Idle
<1> QED
  BY <1>1, <1>5, <1>6, <1>7 DEF Sequential

-----------------------------------------------------------------------------
(* What the directory promises *)

\* At rest a request has nothing in its hands and nothing about to fall.
LEMMA RestIsClear ==
  ASSUME OneRequest, TInv, SInv, AtRest
  PROVE  /\ Served
         /\ \A a \in Agents : Owned(a) \subseteq SetOf(a) \union LoopOf(a)
         /\ \A a \in Materialized : /\ a \in Enabled
                                    /\ KindsOf(SetOf(a)) \ {"llm"} = Bindings(a) \ {"llm"}
         /\ \A a \in Agents :
              /\ \A x \in SetOf(a) : x.agent = a /\ x.kind \in Plugins
              /\ \A x, y \in SetOf(a) : x.kind = y.kind => x = y
              /\ loops[a] # None => loops[a].agent = a /\ loops[a].kind = "loop"
<1>1. PICK r \in Requests : Requests = {r}
  BY DEF OneRequest
<1>2. Sequential(frame[r]) /\ frame[r].pc = "idle"
  BY DEF SInv, AtRest, At
<1>3. Hands(frame[r]) = {} /\ Falling(frame[r]) = {}
  BY <1>2 DEF Hands, Falling
<1>4. \A a \in Agents : Owned(a) \subseteq SetOf(a) \union LoopOf(a)
  BY <1>2, <1>3 DEF Sequential, Accounted, Owned
<1>5. \A a \in Materialized : /\ a \in Enabled
                              /\ KindsOf(SetOf(a)) \ {"llm"} = Bindings(a) \ {"llm"}
  BY <1>2, <1>3 DEF Sequential, Current
<1> QED
  BY <1>2, <1>4, <1>5 DEF Sequential, Shapes

\* The invariant of one request: where every live instance is, what the sets
\* are for, and what the request knows about them on its way.
THEOREM SequentialInvariance ==
  ASSUME OneRequest
  PROVE  Spec => [](TInv /\ SInv)
<1> QED
  BY InitTyped, NextTyped, InitHolds, NextKeeps, PTL DEF Spec

\* Whatever failed on the way, a request leaves no instance behind that the
\* directory does not remember (_teardown, and the rollback of _materialize).
THEOREM NothingEverLeaks ==
  ASSUME OneRequest
  PROVE  Spec => []NothingLeaks
<1>1. TInv /\ SInv => NothingLeaks
  BY RestIsClear DEF NothingLeaks
<1> QED
  BY <1>1, SequentialInvariance, PTL

\* A disabled or deleted agent has nothing running once the request that
\* changed it is over (reload and remove_agent, after the registry).
THEOREM GoneAgentsNeverRun ==
  ASSUME OneRequest
  PROVE  Spec => []GoneAgentsRunNothing
<1>1. TInv /\ SInv => GoneAgentsRunNothing
  <2> SUFFICES ASSUME TInv, SInv, AtRest, NEW a \in Agents \ Enabled
               PROVE  Owned(a) = {} /\ a \notin Materialized
    BY DEF GoneAgentsRunNothing
  <2>1. a \notin Materialized
    BY RestIsClear
  <2>2. SetOf(a) = {} /\ LoopOf(a) = {}
    BY <2>1, RestIsClear DEF Served, Materialized, SetOf, LoopOf
  <2> QED
    BY <2>1, <2>2, RestIsClear
<1> QED
  BY <1>1, SequentialInvariance, PTL

\* What list_agents calls materialized has a live loop, and is not counted as
\* failed.
THEOREM MaterializedAlwaysServed ==
  ASSUME OneRequest
  PROVE  Spec => []MaterializedIsServed
<1>1. TInv /\ SInv => MaterializedIsServed
  BY RestIsClear DEF MaterializedIsServed, Served, Materialized
<1> QED
  BY <1>1, SequentialInvariance, PTL

\* The set of an agent follows its configuration (apply_agent_config tears
\* the old one down), the llm of a stream apart.
THEOREM SetsFollowConfigs ==
  ASSUME OneRequest
  PROVE  Spec => []SetFollowsConfig
<1>1. TInv /\ SInv => SetFollowsConfig
  BY RestIsClear DEF SetFollowsConfig, KindsOf
<1> QED
  BY <1>1, SequentialInvariance, PTL

\* "One plugin set per agent" (directory.py): no two live instances of a kind.
THEOREM OneSetPerAgent ==
  ASSUME OneRequest
  PROVE  Spec => []OnePluginSet
<1>1. TInv /\ SInv => OnePluginSet
  <2> SUFFICES ASSUME TInv, SInv, AtRest, NEW a \in Agents,
                      NEW x \in Owned(a), NEW y \in Owned(a), x.kind = y.kind
               PROVE  x = y
    BY DEF OnePluginSet
  <2>1. x \in SetOf(a) \union LoopOf(a) /\ y \in SetOf(a) \union LoopOf(a)
    BY RestIsClear
  <2>2. \A z \in LoopOf(a) : z = loops[a] /\ z.kind = "loop"
    BY RestIsClear DEF LoopOf
  <2>3. /\ \A z \in SetOf(a) : z.kind \in Plugins
        /\ \A u, z \in SetOf(a) : u.kind = z.kind => u = z
    BY RestIsClear
  <2> QED
    BY <2>1, <2>2, <2>3 DEF Plugins
<1> QED
  BY <1>1, SequentialInvariance, PTL

\* A visit that comes to its end has dealt with every enabled agent, whichever
\* failed before it (the loop of _materialize_all catches what _materialize
\* raises).
THEOREM VisitsComplete ==
  ASSUME OneRequest
  PROVE  Spec => VisitCompletes
<1>1. ASSUME TInv, SInv, [Next]_vars, NEW r \in Requests,
             At(r, "next"), frame[r].op = "list", frame'[r].pc = "idle",
             NEW a \in Enabled, ~Missing(a)
      PROVE  a \in Materialized \union failed
  <2>1. Requests = {r} /\ Sequential(frame[r]) /\ frame[r].pc = "next"
    BY <1>1 DEF OneRequest, SInv, At
  <2>2. frame' # frame
    BY <1>1, <2>1
  <2>3. Begin(r) \/ Work(r)
    BY <1>1, <2>1, <2>2
       DEF Next, InstallBundle, InstallForeign, UninstallForeign, vars
  <2>4. ~Begin(r)
    BY <2>1 DEF Begin, List, ReloadAll, ChangeAgent, ApplyConfig, Stream, At
  <2>5. Visited(r) \/ \E b \in frame[r].todo : Pick(r, b)
    BY <2>1, <2>3, <2>4
       DEF Work, Write, Dropped, RemoveAgentScope, Drop, Kill, CheckDefault, Listing, EnterScope,
           Inherit, Rollback, Replace, CreateDefault, CreateLoop, CreateLlm, Bind, At
  <2>6. ASSUME NEW b \in frame[r].todo, Pick(r, b) PROVE FALSE
    <3>1. frame[r] \in Frame /\ frame \in [Requests -> Frame]
      BY <1>1 DEF TInv
    <3>2. frame'[r] = IF Settled(b) THEN [frame[r] EXCEPT !.todo = @ \ {b}]
                      ELSE [[frame[r] EXCEPT !.todo = @ \ {b}] EXCEPT !.pc = "prepare", !.now = b]
      BY <2>6, <3>1 DEF Pick, Locals
    <3>3. frame'[r].pc \in {"next", "prepare"}
      BY <2>1, <3>1, <3>2 DEF Frame
    <3> QED
      BY <1>1, <3>3
  <2>7. frame[r].todo = {}
    BY <2>5, <2>6 DEF Visited
  <2> QED
    BY <1>1, <2>1, <2>7 DEF Sequential, Visiting, Entered
<1>2. TInv /\ SInv /\ [Next]_vars =>
        [\A r \in Requests :
           At(r, "next") /\ frame[r].op = "list" /\ frame'[r].pc = "idle" =>
             \A a \in Enabled : ~Missing(a) => a \in Materialized \union failed]_vars
  BY <1>1
<1> QED
  BY <1>2, SequentialInvariance, PTL DEF Spec, VisitCompletes

\* An agent that failed gets no instance until it is reloaded or configured
\* again (_failed in _materialize_all; a stream finds no scope).
THEOREM FailedAgentsStayAlone ==
  ASSUME OneRequest
  PROVE  Spec => FailedAgentsAreLeftAlone
<1>1. ASSUME TInv, SInv, [Next]_vars, NEW a \in failed \intersect failed'
      PROVE  Owned(a)' \subseteq Owned(a)
  <2> SUFFICES ASSUME NEW x \in live', x \notin live
               PROVE  x.agent # a
    BY DEF Owned
  <2>1. PICK r \in Requests : Requests = {r}
    BY DEF OneRequest
  <2>2. Sequential(frame[r]) /\ Located(frame[r]) /\ DirectoryTypes /\ a \in Agents
    BY <1>1 DEF SInv, TInv, DirectoryTypes
  <2>3. Begin(r) \/ Work(r)
    BY <1>1, <2>1 DEF Next, InstallBundle, InstallForeign, UninstallForeign, vars, managerVars
  <2>4. \E ok \in BOOLEAN : \/ CreateDefault(r, ok) \/ CreateLoop(r, ok) \/ CreateLlm(r, ok)
                            \/ \E p \in frame[r].left : Bind(r, p, ok)
    <3>1. ~Begin(r)
      BY DEF Begin, List, ReloadAll, ChangeAgent, ApplyConfig, Stream, managerVars
    <3>2. /\ ~Write(r) /\ ~Dropped(r) /\ ~RemoveAgentScope(r) /\ ~CheckDefault(r) /\ ~Listing(r)
          /\ ~EnterScope(r) /\ ~Inherit(r) /\ ~Rollback(r) /\ ~Visited(r)
          /\ ~ \E b \in frame[r].todo : Pick(r, b)
      BY DEF Write, Dropped, RemoveAgentScope, CheckDefault, Listing, EnterScope, Inherit,
             Rollback, Visited, Pick, managerVars
    <3>3. /\ ~Replace(r) /\ ~ \E b \in frame[r].drop : Drop(r, b)
          /\ ~ \E b \in frame[r].held : Kill(r, b)
      BY DEF Replace, Drop, Kill
    <3> QED
      BY <2>3, <3>1, <3>2, <3>3 DEF Work
  <2>5. ASSUME NEW ok \in BOOLEAN, CreateDefault(r, ok)
        PROVE  x.agent # a
    <3>1. PICK y \in New(None, "default", provider) : Creates(ok, y)
      BY <2>5 DEF CreateDefault
    <3>2. provider \in Models \union {None}
      BY <2>2, DirectoryAssumption DEF DirectoryTypes
    <3>3. y.agent = None
      BY <3>1, <3>2, NewIsNew DEF Kinds
    <3> QED
      BY <2>2, <3>1, <3>3, DirectoryAssumption DEF Creates
  <2>6. ASSUME NEW ok \in BOOLEAN, CreateLoop(r, ok) \/ \E p \in frame[r].left : Bind(r, p, ok)
        PROVE  x.agent # a
    <3>0. frame[r].pc = "bind" /\ frame[r].now \in Agents /\ frame[r].left \subseteq Plugins
      BY <2>2, <2>6 DEF CreateLoop, Bind, At, Located, Frame
    <3>1. PICK kind \in Plugins \union {"loop"}, model \in Models \union {None} :
            \E y \in New(frame[r].now, kind, model) : Creates(ok, y)
      <4>1. CASE CreateLoop(r, ok)
        BY <4>1 DEF CreateLoop
      <4>2. CASE \E p \in frame[r].left : Bind(r, p, ok)
        <5>1. PICK p \in frame[r].left : Bind(r, p, ok)
          BY <4>2
        <5>2. ModelFor(frame[r].now, p) \in Models \union {None}
          BY <2>2, <3>0, StoredModelType
        <5> QED
          BY <3>0, <5>1, <5>2 DEF Bind
      <4> QED
        BY <2>6, <4>1, <4>2
    <3>2. x.agent = frame[r].now
      BY <3>0, <3>1, NewIsNew DEF Creates, Kinds
    <3> QED
      BY <2>2, <3>0, <3>2 DEF Sequential, OnTheWay, Entered
  <2>7. ASSUME NEW ok \in BOOLEAN, CreateLlm(r, ok)
        PROVE  x.agent # a
    <3>0. frame[r].agent \in Agents /\ frame[r].arg \in Models \union {None}
      BY <2>2, <2>7 DEF CreateLlm, At, Located
    <3>1. PICK y \in New(frame[r].agent, "llm", frame[r].arg) : Creates(ok, y)
      BY <2>7 DEF CreateLlm
    <3>2. x.agent = frame[r].agent /\ ok
      BY <3>0, <3>1, NewIsNew DEF Creates, Kinds, Plugins
    <3>3. frame[r].agent \in scopes
      BY <2>7, <3>2 DEF CreateLlm
    <3> QED
      BY <2>2, <3>2, <3>3 DEF Sequential, Served
  <2> QED
    BY <2>4, <2>5, <2>6, <2>7
<1>2. TInv /\ SInv /\ [Next]_vars =>
        [\A a \in failed \intersect failed' : Owned(a)' \subseteq Owned(a)]_vars
  BY <1>1
<1> QED
  BY <1>2, SequentialInvariance, PTL DEF Spec, FailedAgentsAreLeftAlone
==============================================================================
