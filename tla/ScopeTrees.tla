----------------------------- MODULE ScopeTrees -----------------------------
(***************************************************************************)
(* The scope tree of each server process and the runtime state file they   *)
(* share (langharness_scope/tree.py, langharness_plugin/state_store.py,    *)
(* the scopes of plugin_manager.py).                                       *)
(*                                                                         *)
(* A tree is a function from the scopes that exist to their parents. Its   *)
(* lock covers a commit and each single look at it. The manager's lock is  *)
(* held while a scope is removed, until the state is saved; a scope is     *)
(* added without it and is saved with the next change of anything. Which   *)
(* save is accepted depends on a version: the file's must be the one the   *)
(* process has seen last.                                                  *)
(*                                                                         *)
(* Instances in the scopes are in PluginManager; here a change of them is  *)
(* a save.                                                                 *)
(***************************************************************************)
EXTENDS Naturals, FiniteSets

CONSTANTS
  Processes,  \* servers with the same state file
  Threads,
  ProcessOf,  \* the server a thread belongs to
  Scopes,     \* all but the root
  Root,
  Builtin,    \* scopes below the root that every start adds
  Below,      \* bound: the scopes below which a scope is added
  Nobody,
  MaxSaves    \* bound on the version of the file

ASSUME ScopeAssumption ==
  /\ ProcessOf \in [Threads -> Processes]
  /\ Root \notin Scopes /\ Builtin \subseteq Scopes /\ Nobody \notin Threads
  /\ Below \in [Scopes -> SUBSET (Scopes \cup {Root})]

VARIABLES
  phase,      \* of a process: "down", "bound", "up"
  tree,       \* its scopes: ScopeTree._scopes
  version,    \* the version it has seen last: PluginManager._state_version
  lock,       \* the thread that holds its manager's lock
  op,         \* what a thread is doing
  state,      \* the file: [version, scopes]
  blamed,     \* scopes added to a process below one that was being removed
  removed     \* scopes a process has removed and not saved yet

process == <<phase, tree, version, lock>>
vars == <<phase, tree, version, lock, op, state, blamed, removed>>

Idle == [pc |-> "idle", scope |-> Root, recursive |-> FALSE, found |-> {}, todo |-> {}]

\* A tree with the root, and with the built-in scopes
OnlyRoot == [s \in {Root} |-> Root]
Seeded == [s \in {Root} \cup Builtin |-> Root]

Children(t, s) == {c \in DOMAIN t \ {Root} : t[c] = s}
With(t, s, parent) == [c \in DOMAIN t \cup {s} |-> IF c = s THEN parent ELSE t[c]]
Without(t, gone) == [c \in DOMAIN t \ gone |-> t[c]]

Orphans(t) == {s \in DOMAIN t \ {Root} : t[s] \notin DOMAIN t}

-----------------------------------------------------------------------------
(* Mutant: the last save wins.                                             *)
AcceptsAny(p) == TRUE

(* save: the version in the file is the one the process expects.           *)
Accepts(p) == version[p] = state.version

(* _persist_state under the manager's lock: the scopes as they are now. A  *)
(* refused save raises, what was changed before stays changed.             *)
Persist(p, th) ==
  /\ IF Accepts(p)
     THEN /\ state' = [version |-> state.version + 1, scopes |-> tree[p]]
          /\ version' = [version EXCEPT ![p] = state.version + 1]
          /\ removed' = [removed EXCEPT ![p] = {}]
     ELSE UNCHANGED <<state, version, removed>>
  /\ lock' = [lock EXCEPT ![p] = Nobody]
  /\ op' = [op EXCEPT ![th] = Idle]

(* A thread that removes `parent`, or a scope above it, and has looked for *)
(* its children already.                                                   *)
PassedBy(p, parent) ==
  \E th \in Threads :
    /\ ProcessOf[th] = p /\ op[th].pc = "walk"
    /\ parent \in op[th].found \ op[th].todo

(* add_scope, create: neither takes the manager's lock, neither saves. The *)
(* last guard is a bound: below an orphan the code would also add the      *)
(* scope the orphan misses, and walk in circles from then on.              *)
AddScope(th, s, parent) ==
  LET p == ProcessOf[th] IN
  /\ phase[p] = "up" /\ op[th].pc = "idle"
  /\ s \notin DOMAIN tree[p] /\ parent \in DOMAIN tree[p] \cap Below[s]
  /\ parent # Root => Orphans(tree[p]) = {}
  /\ tree' = [tree EXCEPT ![p] = With(@, s, parent)]
  /\ blamed' = [blamed EXCEPT ![p] = IF PassedBy(p, parent) THEN @ \cup {s} ELSE @ \ {s}]
  /\ UNCHANGED <<phase, version, lock, op, state, removed>>

(* remove_scope: the manager looks whether the scope may be removed ...    *)
RemoveScope(th, s, recursive) ==
  LET p == ProcessOf[th] IN
  /\ phase[p] = "up" /\ op[th].pc = "idle" /\ lock[p] = Nobody
  /\ s \in DOMAIN tree[p]
  /\ recursive \/ Children(tree[p], s) = {}
  /\ lock' = [lock EXCEPT ![p] = th]
  /\ op' = [op EXCEPT ![th] = [pc |-> "walk", scope |-> s, recursive |-> recursive,
                               found |-> {s}, todo |-> {s}]]
  /\ UNCHANGED <<phase, tree, version, state, blamed, removed>>

(* ... and the tree collects what is below it, looking at the children of  *)
(* one scope at a time.                                                    *)
Visit(th, s) ==
  LET children == Children(tree[ProcessOf[th]], s) IN
  /\ op[th].pc = "walk" /\ s \in op[th].todo
  /\ op' = [op EXCEPT ![th].found = @ \cup children,
                      ![th].todo = (@ \ {s}) \cup (children \ op[th].found)]
  /\ UNCHANGED <<process, state, blamed, removed>>

(* A scope that has got children meanwhile is refused, unless recursive.   *)
MayRemove(th) == op[th].recursive \/ op[th].found = {op[th].scope}

Refuse(th) ==
  LET p == ProcessOf[th] IN
  /\ op[th].pc = "walk" /\ op[th].todo = {} /\ ~MayRemove(th)
  /\ op' = [op EXCEPT ![th] = Idle]
  /\ lock' = [lock EXCEPT ![p] = Nobody]
  /\ UNCHANGED <<phase, tree, version, state, blamed, removed>>

(* Mutant: only the scope itself goes.                                     *)
GoneAlone(th) == {op[th].scope}

Gone(th) == op[th].found

(* The commit takes out what was collected.                                *)
Commit(th) ==
  LET p == ProcessOf[th] IN
  /\ op[th].pc = "walk" /\ op[th].todo = {} /\ MayRemove(th)
  /\ tree' = [tree EXCEPT ![p] = Without(@, Gone(th))]
  /\ removed' = [removed EXCEPT ![p] = @ \cup Gone(th)]
  /\ blamed' = [blamed EXCEPT ![p] = @ \ Gone(th)]
  /\ op' = [op EXCEPT ![th].pc = "persist"]
  /\ UNCHANGED <<phase, version, lock, state>>

SaveRemoval(th) ==
  /\ op[th].pc = "persist" /\ state.version < MaxSaves
  /\ Persist(ProcessOf[th], th)
  /\ UNCHANGED <<phase, tree, blamed>>

(* Any other change of the manager: what it saves has the scopes with it.  *)
SaveOther(th) ==
  LET p == ProcessOf[th] IN
  /\ phase[p] = "up" /\ op[th].pc = "idle" /\ lock[p] = Nobody
  /\ state.version < MaxSaves
  /\ Persist(p, th)
  /\ UNCHANGED <<phase, tree, blamed>>

-----------------------------------------------------------------------------
(* start seeds the built-in scopes, bind_state looks at the version.       *)
Start(p) ==
  /\ phase[p] = "down"
  /\ phase' = [phase EXCEPT ![p] = "bound"]
  /\ tree' = [tree EXCEPT ![p] = Seeded]
  /\ version' = [version EXCEPT ![p] = state.version]
  /\ UNCHANGED <<lock, op, state, blamed, removed>>

Down(p) ==
  /\ phase' = [phase EXCEPT ![p] = "down"]
  /\ tree' = [tree EXCEPT ![p] = OnlyRoot]
  /\ version' = [version EXCEPT ![p] = 0]
  /\ lock' = [lock EXCEPT ![p] = Nobody]
  /\ op' = [th \in Threads |-> IF ProcessOf[th] = p THEN Idle ELSE op[th]]
  /\ blamed' = [blamed EXCEPT ![p] = {}]
  /\ removed' = [removed EXCEPT ![p] = {}]
  /\ UNCHANGED state

(* _restore_scopes: parents before children, as long as there are any      *)
(* whose parent is there. The rest is an orphan and ends the start.        *)
Restore(p) ==
  LET all == [s \in DOMAIN state.scopes \cup DOMAIN tree[p] |->
                IF s \in DOMAIN tree[p] THEN tree[p][s] ELSE state.scopes[s]]
  IN  /\ phase[p] = "bound"
      /\ IF Orphans(all) # {}
         THEN Down(p)
         ELSE /\ phase' = [phase EXCEPT ![p] = "up"]
              /\ tree' = [tree EXCEPT ![p] = all]
              /\ version' = [version EXCEPT ![p] = state.version]
              /\ UNCHANGED <<lock, op, state, blamed, removed>>

Crash(p) == phase[p] = "up" /\ Down(p)

Init ==
  /\ phase = [p \in Processes |-> "down"]
  /\ tree = [p \in Processes |-> OnlyRoot]
  /\ version = [p \in Processes |-> 0]
  /\ lock = [p \in Processes |-> Nobody]
  /\ op = [th \in Threads |-> Idle]
  /\ state = [version |-> 0, scopes |-> OnlyRoot]
  /\ blamed = [p \in Processes |-> {}]
  /\ removed = [p \in Processes |-> {}]

Next ==
  \/ \E p \in Processes : Start(p) \/ Restore(p) \/ Crash(p)
  \/ \E th \in Threads, s \in Scopes :
       \/ \E parent \in Below[s] : AddScope(th, s, parent)
       \/ \E recursive \in BOOLEAN : RemoveScope(th, s, recursive)
       \/ Visit(th, s)
  \/ \E th \in Threads : Refuse(th) \/ Commit(th) \/ SaveRemoval(th) \/ SaveOther(th)

Spec == Init /\ [][Next]_vars

-----------------------------------------------------------------------------
(* A scope has a parent, unless it was added below a scope whose children  *)
(* a removal had already looked at (tree.py 140-155: the descendants are   *)
(* collected before the lock of the commit is taken, and add_scope does    *)
(* not wait for the manager's lock). The next save takes it into the file, *)
(* and no server starts any more (plugin_manager.py 1018-1034).            *)
OrphansOnlyToOverlap ==
  \A p \in Processes : Orphans(tree[p]) \subseteq blamed[p]

(* A scope leaves the file only because the server that saves has removed  *)
(* it since its last save: no server overwrites what another one has saved *)
(* in the meantime (state_store.py 200-219), whatever order starts,        *)
(* crashes and saves come in.                                              *)
OnlyRemovalsRemove ==
  [][\A s \in DOMAIN state.scopes \ DOMAIN state'.scopes :
       \E p \in Processes : version'[p] = state'.version /\ s \in removed[p]]_vars
=============================================================================
