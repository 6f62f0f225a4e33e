---------------------------- MODULE Configuration ----------------------------
(***************************************************************************)
(* The configuration of plugins: one file per scope with all its versions, *)
(* the routes that apply a configuration and then append it to the file,   *)
(* the CLIs that read, change and write it back over these routes, and     *)
(* what the server makes of the files when it starts.                      *)
(*                                                                         *)
(* The handlers are plain functions and run in FastAPI's thread pool: two  *)
(* of them interleave at every access to a file. A file is replaced by     *)
(* opening, which empties it, and writing. A CLI waits ten seconds; its    *)
(* request goes on.                                                        *)
(*                                                                         *)
(* The scope "api" is the plugin manager's: one instance for each known    *)
(* plugin. An agent's scope is the directory's. The scope "cli" has no     *)
(* effect before a CLI starts.                                             *)
(***************************************************************************)
EXTENDS PluginCommands, FiniteSetsExt

CONSTANTS
  Clients, Requests,
  Known,       \* plugins of the assembly, each with one instance
  Keys,        \* properties
  Secrets,     \* those whose name ends like a credential's
  Built,       \* [Known -> SUBSET Keys]: properties the assembly gives
  Broken,      \* pairs <<plugin, key>> no component can be built with
  KeyOf,       \* [Pairs -> Keys]
  NumberOf,    \* [Numbers -> Nat]
  Words,       \* words typed where the palette does not offer them
  MaxWords,    \* bound: words of such a line
  Lines,       \* lines entered without it
  MaxAsked,    \* bound: lines that reach the files
  MaxCrashes,  \* bound: crashes
  Torn         \* content of a file that is opened and not written

ASSUME ConfigurationAssumption ==
  /\ Secrets \subseteq Keys /\ Built \in [Known -> SUBSET Keys]
  /\ KeyOf \in [Pairs -> Keys] /\ NumberOf \in [Numbers -> Nat]
  /\ MaxAsked \in Nat /\ MaxCrashes \in Nat
  /\ IsFiniteSet(AgentScopes) /\ AgentScopes \intersect ConfigScopes = {}

Scopes == ConfigScopes \union AgentScopes

VARIABLES
  file,       \* [Scopes -> versions]: <<>> without a file, or Torn
  record,     \* api: [enabled, props] of each instance, also in the state store
  running,    \* api: the properties its component was built with, or Nobody
  bindings,   \* _configs of the agent directory
  up,
  req,        \* threads of the server
  cli,        \* each CLI: its request, and the body it is about to PUT
  said,       \* the line at the prompt
  asked, crashes,
  answered,   \* history: versions a CLI was told of
  disturbed   \* history: scopes where requests overlapped or were cut off, see Enters,
              \* HalfApplied and Crash

manager == <<record, running>>
server == <<manager, bindings, up>>
vars == <<file, server, req, cli, said, asked, crashes, answered, disturbed>>

(***************************************************************************)
(* Configurations: the entries in the order of the JSON object.            *)
(***************************************************************************)
Entry(name, enabled, props) == [name |-> name, enabled |-> enabled, props |-> props]

Names(config) == {config[i].name : i \in DOMAIN config}
Find(config, name) == CHOOSE i \in DOMAIN config : config[i].name = name

\* clean_config, strip_secrets
Clean(config) == [i \in DOMAIN config |-> [config[i] EXCEPT !.props = @ \ Secrets]]

\* _update of the CLI: one entry of what it read, changed or appended
Changed(config, name, words) ==
  LET old == IF name \in Names(config) THEN config[Find(config, name)] ELSE Entry(name, TRUE, {})
      new == CASE words = <<"enable">> -> [old EXCEPT !.enabled = TRUE]
               [] words = <<"disable">> -> [old EXCEPT !.enabled = FALSE]
               [] OTHER -> [old EXCEPT !.props = @ \union {KeyOf[words[i]] : i \in DOMAIN words}]
  IN IF name \in Names(config) THEN [config EXCEPT ![Find(config, name)] = new] ELSE Append(config, new)

Version(action, config, target) == [action |-> action, config |-> config, target |-> target]
InitVersion == Version("init", <<>>, 0)

\* plugins(): `current` is always the last version
Current(versions) == IF versions = <<>> THEN <<>> ELSE Last(versions).config

\* Mutant: a rollback drops the versions after its target
AppendedToTarget(versions, version) ==
  Append(IF version.target = 0 THEN versions ELSE SubSeq(versions, 1, version.target), version)

\* _append
Appended(versions, version) == Append(versions, version)

(***************************************************************************)
(* apply_config of the plugin manager.                                     *)
(***************************************************************************)
\* Where each property of an instance comes from
Props(set, built) ==
  [k \in Keys |-> IF k \in set THEN "set" ELSE IF k \in built THEN "built" ELSE "none"]

Buildable(name, props) == \A k \in Keys : props[k] = "set" => <<name, k>> \notin Broken

\* Mutant: the properties of the instance are not emptied first
PropsOnTop(old, entry) == [k \in Keys |-> IF k \in entry.props THEN "set" ELSE old[k]]

\* The user properties are emptied, then those of the entry are put in
Replaced(old, entry) == Props(entry.props, {})

\* update_instance: what was emptied is what the new properties are compared
\* with, so that a component is rebuilt when there are any and not otherwise
Rebuilds(entry) == record[entry.name].enabled /\ entry.enabled /\ entry.props # {}

Refuses(entry) ==
  \/ entry.name \notin Known
  \/ /\ entry.enabled
     /\ ~record[entry.name].enabled \/ Rebuilds(entry)
     /\ ~Buildable(entry.name, Replaced(record[entry.name].props, entry))
  \/ /\ record[entry.name].enabled /\ running[entry.name] = Nobody  \* kill raises
     /\ ~entry.enabled \/ Rebuilds(entry)

UpdateRecord(entry) ==
  [enabled |-> entry.enabled, props |-> Replaced(record[entry.name].props, entry)]

UpdateRunning(entry) ==
  CASE ~entry.enabled -> Nobody
    [] entry.enabled /\ (~record[entry.name].enabled \/ Rebuilds(entry)) ->
         UpdateRecord(entry).props
    [] OTHER -> running[entry.name]

\* The entries in order up to the first that is refused; the component of
\* that one is killed before the new one is built, and not rebuilt
ApplyConfig(config) ==
  LET refused == {i \in DOMAIN config : Refuses(config[i])}
      stop == IF refused = {} THEN Len(config) + 1 ELSE Min(refused)
      done == SubSeq(config, 1, stop - 1)
  IN /\ record' = [p \in Known |->
          IF p \in Names(done) THEN UpdateRecord(done[Find(done, p)]) ELSE record[p]]
     /\ running' = [p \in Known |->
          IF p \in Names(done) THEN UpdateRunning(done[Find(done, p)])
          ELSE IF refused # {} /\ config[stop].name = p THEN Nobody
          ELSE running[p]]

Applies(config) == \A i \in DOMAIN config : ~Refuses(config[i])

\* A refused configuration has taken effect in part, with an entry that is not
\* the stored one: what the CLI read was outdated when it wrote it back
HalfApplied(config, versions) ==
  \E i \in DOMAIN config :
    /\ \A j \in 1 .. i : ~Refuses(config[j])
    /\ Clean(config)[i] \notin Range(Current(versions))

(***************************************************************************)
(* Requests.                                                               *)
(***************************************************************************)
Free == [pc |-> "free", op |-> Nobody, scopes |-> <<>>, body |-> <<>>, target |-> 0, payload |-> <<>>]

Handler(op, scopes, body, target) ==
  [Free EXCEPT !.pc = "load", !.op = op, !.scopes = scopes, !.body = body, !.target = target]

ScopeOf(r) == req[r].scopes[1]

\* From the look at the file to the end of the write
Busy(r) == req[r].pc \in {"apply", "open", "fill"}
Writing(s) == \E r \in Requests : Busy(r) /\ ScopeOf(r) = s

\* A request that starts to work on a file somebody else is working on
Enters(r) ==
  disturbed' = IF \E o \in Requests \ {r} : Busy(o) /\ ScopeOf(o) = ScopeOf(r)
               THEN disturbed \union {ScopeOf(r)} ELSE disturbed

\* The end of a request: its CLI goes on, if it still waits
Ends(r, body) ==
  /\ req' = [req EXCEPT ![r] = Free]
  /\ cli' = [c \in Clients |-> IF cli[c].request = r THEN [request |-> Nobody, body |-> body] ELSE cli[c]]

NoBody == [scope |-> Nobody, config |-> <<>>]

\* The CLI's change of what it was told, for a request that reads for it
ToPut(r, config) ==
  IF req[r].op = "update"
  THEN [scope |-> ScopeOf(r), config |-> Changed(config, req[r].body[1], Tail(req[r].body))]
  ELSE NoBody

\* What a handler does with the versions it has loaded
Loaded(r, versions) ==
  LET q == req[r] IN
  CASE q.op = "put" ->
         /\ req' = [req EXCEPT ![r] = [q EXCEPT !.pc = "apply", !.payload = versions]]
         /\ Enters(r) /\ UNCHANGED cli
    [] q.op = "rollback" /\ q.target \in DOMAIN versions ->
         /\ req' = [req EXCEPT ![r] =
                     [q EXCEPT !.pc = "apply", !.payload = versions, !.body = versions[q.target].config]]
         /\ Enters(r) /\ UNCHANGED cli
    [] q.op \notin {"put", "rollback"} /\ Len(q.scopes) > 1 ->
         /\ req' = [req EXCEPT ![r] = [q EXCEPT !.pc = "load", !.scopes = Tail(@)]]
         /\ UNCHANGED <<cli, disturbed>>
    [] OTHER -> Ends(r, ToPut(r, Current(versions))) /\ UNCHANGED disturbed

\* PluginConfigStore.load of a file that exists; a damaged one is an error
Load(r) ==
  /\ req[r].pc = "load" /\ file[ScopeOf(r)] # <<>>
  /\ disturbed = {}  \* bound
  /\ IF file[ScopeOf(r)] = Torn
     THEN Ends(r, NoBody) /\ UNCHANGED disturbed
     ELSE Loaded(r, file[ScopeOf(r)])
  /\ UNCHANGED <<file, server, said, asked, crashes, answered>>

\* ... of one that does not: the first version is written by whoever looks
LoadMissing(r) ==
  /\ req[r].pc = "load" /\ file[ScopeOf(r)] = <<>>
  /\ disturbed = {}  \* bound
  /\ req' = [req EXCEPT ![r] = [@ EXCEPT !.pc = "open", !.payload = <<InitVersion>>]]
  /\ Enters(r)
  /\ UNCHANGED <<file, server, cli, said, asked, crashes, answered>>

\* _apply: the configuration takes effect, or the request is refused. The
\* loop over the plugins is one step
Apply(r) ==
  LET q == req[r]
      s == ScopeOf(r)
      version == IF q.op = "rollback" THEN Version("rollback", q.body, q.target)
                 ELSE Version("set", Clean(q.body), 0)
  IN /\ q.pc = "apply"
     /\ IF s = "api" THEN ApplyConfig(q.body) ELSE UNCHANGED manager
     /\ bindings' = IF s \in AgentScopes THEN [bindings EXCEPT ![s] = q.body] ELSE bindings
     /\ IF s = "api" /\ ~Applies(q.body)
        THEN /\ Ends(r, NoBody)
             /\ disturbed' = IF HalfApplied(q.body, q.payload) THEN disturbed \union {s} ELSE disturbed
        ELSE /\ req' = [req EXCEPT ![r] = [q EXCEPT !.pc = "open", !.payload = Appended(q.payload, version)]]
             /\ UNCHANGED <<cli, disturbed>>
     /\ UNCHANGED <<file, up, said, asked, crashes, answered>>

\* _write: write_text opens the file, which empties it ...
OpenFile(r) ==
  /\ req[r].pc = "open"
  /\ file' = [file EXCEPT ![ScopeOf(r)] = Torn]
  /\ req' = [req EXCEPT ![r].pc = "fill"]
  /\ UNCHANGED <<server, cli, said, asked, crashes, answered, disturbed>>

\* ... and writes what this request has in its hands
FillFile(r) ==
  LET q == req[r]
      s == ScopeOf(r)
  IN /\ q.pc = "fill"
     /\ file' = [file EXCEPT ![s] = q.payload]
     /\ IF q.payload = <<InitVersion>>
        THEN Loaded(r, q.payload) /\ UNCHANGED answered
        ELSE /\ Ends(r, NoBody)
             /\ answered' = IF \E c \in Clients : cli[c].request = r
                            THEN answered \union {<<s, Len(q.payload), Last(q.payload)>>} ELSE answered
             /\ UNCHANGED disturbed
     /\ UNCHANGED <<server, said, asked, crashes>>

(***************************************************************************)
(* The CLIs.                                                               *)
(***************************************************************************)
Idle(c) == cli[c] = [request |-> Nobody, body |-> NoBody]

\* The palette. Lines that reach no file are entered first: they change nothing
Type ==
  /\ asked = 0 /\ \A c \in Clients : Idle(c)
  /\ Len(said) < MaxWords
  /\ \E word \in Words \union Complete(said) :
       /\ Guided(Append(said, word))
       /\ said' = Append(said, word)
  /\ UNCHANGED <<file, server, req, cli, asked, crashes, answered, disturbed>>

\* The handler of a request that reads files: of one scope, or of every one
\* with a file, where api and cli get theirs
Reads(request) ==
  LET withFiles == SetToSeq({s \in AgentScopes : file[s] # <<>>})
      scopes == IF request.scope = Nobody THEN <<"api", "cli">> \o withFiles ELSE <<request.scope>>
  IN Handler(request.op, scopes, IF request.op = "update" THEN <<request.name>> \o request.value ELSE <<>>, 0)

\* A line is entered and becomes a request
Enter(c) == \E line \in Lines \union {said}, r \in Requests :
  LET request == Handle(line) IN
  /\ up /\ Idle(c) /\ asked < MaxAsked /\ req[r] = Free
  /\ request.op \in OnFiles /\ Route(request) = "configured"
  /\ disturbed = {}  \* bound
  /\ req' = [req EXCEPT ![r] =
       IF request.op = "rollback"
       THEN Handler("rollback", <<request.scope>>, <<>>, NumberOf[request.value])
       ELSE Reads(request)]
  /\ cli' = [cli EXCEPT ![c].request = r]
  /\ said' = <<>> /\ asked' = asked + 1
  /\ UNCHANGED <<file, server, crashes, answered, disturbed>>

\* The second request of _update
Put(c) == \E r \in Requests :
  /\ up /\ cli[c].body # NoBody /\ req[r] = Free
  /\ disturbed = {}  \* bound
  /\ req' = [req EXCEPT ![r] = Handler("put", <<cli[c].body.scope>>, cli[c].body.config, 0)]
  /\ cli' = [cli EXCEPT ![c] = [request |-> r, body |-> NoBody]]
  /\ UNCHANGED <<file, server, said, asked, crashes, answered, disturbed>>

\* httpx gives up after ten seconds
GiveUp(c) ==
  /\ cli[c].request # Nobody
  /\ req[cli[c].request].op \in {"put", "rollback"}  \* bound: a look-up has no effect
  /\ cli' = [cli EXCEPT ![c].request = Nobody]
  /\ UNCHANGED <<file, server, req, said, asked, crashes, answered, disturbed>>

(***************************************************************************)
(* The server stops, or crashes, and starts again.                         *)
(***************************************************************************)
Crash ==
  /\ up /\ crashes < MaxCrashes
  /\ up' = FALSE /\ crashes' = crashes + 1
  /\ req' = [r \in Requests |-> Free]
  /\ cli' = [c \in Clients |-> [request |-> Nobody, body |-> NoBody]]
  /\ disturbed' = disturbed \union {ScopeOf(r) : r \in {o \in Requests : req[o].pc \in {"open", "fill"}}}
  /\ bindings' = [a \in AgentScopes |-> <<>>]
  /\ running' = [p \in Known |-> Nobody]
  /\ UNCHANGED <<file, record, said, asked, answered>>

\* load_overrides, merge_overrides: (enabled, properties) of the assembly
Assembled(p) ==
  LET overrides == Current(file["api"])
      entry == IF p \in Names(overrides) THEN overrides[Find(overrides, p)] ELSE Entry(p, TRUE, {})
  IN [enabled |-> entry.enabled, props |-> Props(entry.props, Built[p])]

\* restore, which forgets the properties of a disabled instance, and
\* ensure_instance, which puts those of the assembly on top
Ensured(p) ==
  LET wanted == Assembled(p)
      user == IF record[p].enabled THEN record[p].props ELSE Props({}, {})
  IN IF record[p].enabled = wanted.enabled /\ user = wanted.props
     THEN record[p]
     ELSE [enabled |-> wanted.enabled,
           props |-> [k \in Keys |-> IF wanted.props[k] = "none" THEN user[k] ELSE wanted.props[k]]]

\* create_app: a damaged file of the api or of an agent keeps it from starting
Boot ==
  /\ ~up /\ \A s \in {"api"} \union AgentScopes : file[s] # Torn
  /\ up' = TRUE
  /\ record' = [p \in Known |-> Ensured(p)]
  /\ running' = [p \in Known |-> IF Ensured(p).enabled THEN Ensured(p).props ELSE Nobody]
  /\ bindings' = [a \in AgentScopes |-> Current(file[a])]
  /\ UNCHANGED <<file, req, cli, said, asked, crashes, answered, disturbed>>

Init ==
  /\ file = [s \in Scopes |-> <<>>]
  /\ record = [p \in Known |-> [enabled |-> TRUE, props |-> Props({}, Built[p])]]
  /\ running = [p \in Known |-> Props({}, Built[p])]
  /\ bindings = [a \in AgentScopes |-> <<>>]
  /\ up = TRUE
  /\ req = [r \in Requests |-> Free]
  /\ cli = [c \in Clients |-> [request |-> Nobody, body |-> NoBody]]
  /\ said = <<>> /\ asked = 0 /\ crashes = 0 /\ answered = {} /\ disturbed = {}

Next ==
  \/ Type \/ Crash \/ Boot
  \/ \E c \in Clients : Enter(c) \/ Put(c) \/ GiveUp(c)
  \/ \E r \in Requests : Load(r) \/ LoadMissing(r) \/ Apply(r) \/ OpenFile(r) \/ FillFile(r)

Spec == Init /\ [][Next]_vars

(***************************************************************************)
(* Properties.                                                             *)
(***************************************************************************)
\* No request is at work on a file, and none was disturbed at it
Settled(s) == up /\ s \notin disturbed /\ ~Writing(s) /\ file[s] # Torn

\* A version a CLI was told of stays in the history as it was told, unless two
\* requests worked on that file at a time or one was cut off in the middle:
\* config_store.py writes back everything a request has loaded (178-206).
VersionsLostOnlyToOverlap ==
  \A a \in answered :
    \/ a[1] \in disturbed \/ Writing(a[1])
    \/ a[2] \in DOMAIN file[a[1]] /\ file[a[1]][a[2]] = a[3]

\* Between requests the server runs what the current version says of each
\* plugin it names, but for secrets, which are not stored, and but for a
\* plugin whose component could not be built: refused requests, edits of other
\* plugins, rollbacks and restarts included (routes/plugins.py 118-119, 363-391,
\* plugin_manager.py 801-827, bootstrap.py 256-268). Its component runs with
\* what is recorded, where the entry has properties: one that has none changes
\* the record and leaves the component as it is (816).
StoredIsLive ==
  /\ Settled("api") =>
       \A i \in DOMAIN Current(file["api"]) :
         LET entry == Current(file["api"])[i]
             have == record[entry.name]
         IN \/ have.enabled /\ running[entry.name] = Nobody
            \/ /\ have.enabled = entry.enabled
               /\ \A k \in Keys \ Secrets : (have.props[k] = "set") <=> k \in entry.props
               /\ entry.enabled /\ entry.props # {} =>
                    running[entry.name] \in {Nobody, have.props}
  /\ \A a \in AgentScopes : Settled(a) => Clean(bindings[a]) = Current(file[a])

\* What the palette offers can stand where it is offered, and a line that is
\* entered with it reaches its operation: neither the handler nor the route
\* refuses it, and the same words from the shell and from a tool of an agent
\* ask for the same (commands/plugins.py 86-229, 279-361, 430-689,
\* tools/management.py 31-94, routes/plugins.py 96-254).
PaletteIsHonest ==
  Guided(said) /\ said # <<>> =>
    /\ \E form \in Forms[said[1]] : StillFits(form, Tail(said))
    /\ Finished(said) =>
         LET request == Handle(said)
         IN /\ Route(request) # "refused"
            /\ request.op \in Mutations => ByCommand(request) = request /\ ByTool(request) = request
=============================================================================
