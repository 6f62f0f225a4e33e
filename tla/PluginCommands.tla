---------------------------- MODULE PluginCommands ----------------------------
(***************************************************************************)
(* What a user may say about plugins and what becomes of it: the grammar   *)
(* of /plugins with its completion, the handlers of the prompt and of the  *)
(* shell that turn a line into a request, the management tools of an       *)
(* agent, and the routes that turn a request into a call of the            *)
(* coordinator or an operation on a configuration file.                    *)
(*                                                                         *)
(* A word is a member of a small set; the text typed of the current word,  *)
(* which only narrows what is offered, is left out, and so is the text of  *)
(* the answers.                                                            *)
(***************************************************************************)
EXTENDS Integers, SequencesExt

CONSTANTS
  AgentScopes,  \* words "agent:<id>" with an id
  Pairs,        \* words KEY=VALUE with a key
  Numbers,      \* words that read as an integer
  Nobody        \* an argument that was not given

(***************************************************************************)
(* The grammar. A form is the sequence of the kinds of its slots; the      *)
(* words that must stand as they are, are their own kind.                  *)
(***************************************************************************)
RuntimeScopes == {"root", "server", "ui", "agent"}
ConfigScopes == {"api", "cli"}

IsRuntimeScope(word) == word \in RuntimeScopes \union AgentScopes
IsConfigScope(word) == word \in ConfigScopes \union AgentScopes

OnInstance == {<<"runtime_scope", "plugin">>}

Forms == [
  discover  |-> {<<>>},
  list      |-> {<<>>, <<"runtime_scope">>},
  config    |-> {<<>>, <<"config_scope">>, <<"config_verb", "config_scope", "plugin">>},
  runtime   |-> {<<"set", "runtime_scope", "plugin", "key_value">>},
  install   |-> {<<"package_id", "contribution_id", "scope_id">>},
  uninstall |-> OnInstance,
  set       |-> {<<"config_scope", "plugin", "key_value">>},
  enable    |-> OnInstance,
  disable   |-> OnInstance,
  upgrade   |-> OnInstance,
  history   |-> {<<"config_scope">>},
  rollback  |-> {<<"config_scope", "version">>}]

Actions == DOMAIN Forms
CliActions == Actions \ {"set", "history", "rollback"}

\* Mutant: the two vocabularies of scopes are taken for one
CandidatesOfAnyScope(kind) ==
  CASE kind = "set" -> {"set"}
    [] kind \in {"runtime_scope", "config_scope"} -> RuntimeScopes
    [] kind = "config_verb" -> {"enable", "disable"}
    [] OTHER -> {}

\* What may be offered without a question to the API
Candidates(kind) ==
  CASE kind = "set" -> {"set"}
    [] kind = "runtime_scope" -> RuntimeScopes
    [] kind = "config_scope" -> ConfigScopes
    [] kind = "config_verb" -> {"enable", "disable"}
    [] OTHER -> {}

\* Kinds that can be judged here; any word may stand for the others
Accepts(kind, word) ==
  CASE kind = "set" -> word = "set"
    [] kind = "runtime_scope" -> IsRuntimeScope(word)
    [] kind = "config_scope" -> IsConfigScope(word)
    [] kind = "config_verb" -> word \in {"enable", "disable"}
    [] OTHER -> TRUE

\* The kind of slot `index`, the last one repeated when it is variadic
SlotAt(form, index) ==
  IF index <= Len(form) THEN form[index]
  ELSE IF form # <<>> /\ Last(form) = "key_value" THEN "key_value" ELSE Nobody

StillFits(form, arguments) ==
  \A i \in DOMAIN arguments :
    SlotAt(form, i) # Nobody /\ Accepts(SlotAt(form, i), arguments[i])

\* The kinds of slot the next word of a line may fill
Expected(line) ==
  LET arguments == Tail(line)
      forms == {f \in Forms[line[1]] : StillFits(f, arguments)}
  IN {SlotAt(f, Len(line)) : f \in forms} \ {Nobody}

\* _complete: what the palette offers as the next word of a line
Complete(line) ==
  IF line = <<>> THEN Actions
  ELSE IF line[1] \notin Actions THEN {}
  ELSE UNION {Candidates(kind) : kind \in Expected(line)}

(***************************************************************************)
(* Requests and what they ask for.                                         *)
(***************************************************************************)
Request(op, scope, name, value) == [op |-> op, scope |-> scope, name |-> name, value |-> value]

\* A usage text or an error instead of a request
Usage == Request("usage", Nobody, Nobody, Nobody)

\* The operations of the coordinator, of the configuration files, the look-ups
Mutations == {"install", "uninstall", "enable", "disable", "upgrade", "properties"}
OnFiles == {"config", "update", "history", "rollback"}

\* _config without a verb, _list: the scope is for the server to check
Shown(op, arguments) ==
  Request(op, IF arguments = <<>> THEN Nobody ELSE arguments[1], Nobody, Nobody)

\* _uninstall, _mutate_runtime_plugin
OnRuntime(op, arguments) ==
  IF Len(arguments) = 2 /\ IsRuntimeScope(arguments[1])
  THEN Request(op, arguments[1], arguments[2], Nobody)
  ELSE Usage

\* _runtime
SetRuntime(arguments) ==
  IF /\ Len(arguments) >= 4 /\ arguments[1] = "set" /\ IsRuntimeScope(arguments[2])
     /\ \A i \in 4 .. Len(arguments) : arguments[i] \in Pairs
  THEN Request("properties", arguments[2], arguments[3], SubSeq(arguments, 4, Len(arguments)))
  ELSE Usage

\* _install: any word may be the scope
Install(arguments) ==
  IF Len(arguments) = 3
  THEN Request("install", arguments[3], arguments[1], arguments[2])
  ELSE Usage

\* _update: the first of its two requests, with the change the second will carry
Update(verb, arguments) ==
  IF /\ Len(arguments) >= 2 /\ IsConfigScope(arguments[1])
     /\ verb = "set" => Len(arguments) > 2 /\ \A i \in 3 .. Len(arguments) : arguments[i] \in Pairs
  THEN Request("update", arguments[1], arguments[2],
               IF verb = "set" THEN SubSeq(arguments, 3, Len(arguments)) ELSE <<verb>>)
  ELSE Usage

\* _history: words after the scope are ignored
History(arguments) ==
  IF arguments # <<>> /\ IsConfigScope(arguments[1]) THEN Shown("history", arguments) ELSE Usage

\* _rollback
Rollback(arguments) ==
  IF Len(arguments) = 2 /\ IsConfigScope(arguments[1]) /\ arguments[2] \in Numbers
  THEN Request("rollback", arguments[1], Nobody, arguments[2])
  ELSE Usage

\* _handle: the request a line at the prompt leads to
Handle(line) ==
  IF line = <<>> THEN Usage
  ELSE LET action == line[1]
           arguments == Tail(line)
       IN CASE action = "list" -> Shown("list", arguments)
            [] action = "config" ->
                 IF arguments # <<>> /\ arguments[1] \in {"enable", "disable"}
                 THEN Update(arguments[1], Tail(arguments))
                 ELSE Shown("config", arguments)
            [] action = "runtime" -> SetRuntime(arguments)
            [] action = "discover" -> Request("discover", Nobody, Nobody, Nobody)
            [] action = "install" -> Install(arguments)
            [] action = "set" -> Update("set", arguments)
            [] action \in {"enable", "disable", "upgrade", "uninstall"} -> OnRuntime(action, arguments)
            [] action = "history" -> History(arguments)
            [] action = "rollback" -> Rollback(arguments)
            [] OTHER -> Usage

(***************************************************************************)
(* The same from the shell, with --scope, and from an agent, as a tool.    *)
(***************************************************************************)
\* _command_handler: `langharness plugins <action> <values> --scope <scope>`
Command(action, values, scope) ==
  CASE action \notin CliActions -> Usage
    [] action = "discover" -> Request("discover", Nobody, Nobody, Nobody)
    [] action = "list" ->
         IF scope = Nobody \/ IsRuntimeScope(scope) THEN Request("list", scope, Nobody, Nobody) ELSE Usage
    [] action = "config" ->
         IF scope = Nobody \/ IsConfigScope(scope) THEN Request("config", scope, Nobody, Nobody) ELSE Usage
    [] action = "runtime" ->
         IF scope # Nobody /\ Len(values) >= 3
         THEN SetRuntime(<<values[1], scope>> \o Tail(values)) ELSE Usage
    [] action = "install" ->
         IF Len(values) = 2 /\ scope # Nobody
         THEN Request("install", scope, values[1], values[2]) ELSE Usage
    [] OTHER ->
         IF Len(values) = 1 /\ scope # Nobody THEN OnRuntime(action, <<scope, values[1]>>) ELSE Usage

\* The arguments the schema of a tool accepts; `confirm` only where it is asked for
Confirmation(op) ==
  CASE op = "disable" -> "DISABLE" [] op = "uninstall" -> "UNINSTALL" [] OTHER -> Nobody

Tool(op, scope, name, value, confirm) ==
  IF /\ IsRuntimeScope(scope) /\ confirm = Confirmation(op)
     /\ op = "properties" => value # <<>>
  THEN Request(op, scope, name, value)
  ELSE Usage

(***************************************************************************)
(* The routes: what the server makes of a request. "refused" is a 400.     *)
(***************************************************************************)
Route(request) ==
  CASE request.op = "list" ->
         IF request.scope = Nobody \/ IsRuntimeScope(request.scope) THEN "listed" ELSE "refused"
    [] request.op = "discover" -> "rescanned"
    [] request.op \in OnFiles ->
         IF \/ IsConfigScope(request.scope)
            \/ request.op = "config" /\ request.scope = Nobody
         THEN "configured" ELSE "refused"
    [] request.op = "install" -> "called"
    [] request.op \in Mutations \ {"install"} ->
         IF IsRuntimeScope(request.scope) THEN "called" ELSE "refused"
    [] OTHER -> "refused"

(***************************************************************************)
(* Reference definitions.                                                  *)
(***************************************************************************)
\* A word that means what a slot asks for that accepts any word
Means(kind, word) ==
  CASE kind = "key_value" -> word \in Pairs
    [] kind = "version" -> word \in Numbers
    [] kind = "scope_id" -> IsRuntimeScope(word)
    [] OTHER -> TRUE

\* A line entered with the palette: each word is offered, or is one that a
\* slot accepts and asks for
Guided(line) ==
  \A i \in DOMAIN line :
    LET before == SubSeq(line, 1, i - 1)
    IN \/ line[i] \in Complete(before)
       \/ i > 1 /\ \E kind \in Expected(before) : Accepts(kind, line[i]) /\ Means(kind, line[i])

\* ... which fills one of the forms of its action
Finished(line) ==
  /\ line # <<>> /\ line[1] \in Actions
  /\ \E form \in Forms[line[1]] :
       /\ StillFits(form, Tail(line))
       /\ Len(line) - 1 >= Len(form)

\* The line for the shell that says the same: the scope becomes an option
ByCommand(request) ==
  CASE request.op = "properties" ->
         Command("runtime", <<"set", request.name>> \o request.value, request.scope)
    [] request.op = "install" ->
         Command("install", <<request.name, request.value>>, request.scope)
    [] OTHER -> Command(request.op, <<request.name>>, request.scope)

ByTool(request) ==
  Tool(request.op, request.scope, request.name, request.value, Confirmation(request.op))
=============================================================================
