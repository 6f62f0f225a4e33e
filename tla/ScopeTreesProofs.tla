-------------------------- MODULE ScopeTreesProofs --------------------------
(***************************************************************************)
(* For any servers, threads, scopes and saves: a server that saves has the *)
(* scopes of the file in its tree, apart from those it has removed, and an *)
(* orphan in a tree was added below a scope that was being removed.        *)
(***************************************************************************)
EXTENDS ScopeTrees, TLAPS

\* What a process remembers of its own; an operation is only of a process
\* that is up.
Kinds ==
  /\ DOMAIN tree = Processes /\ DOMAIN phase = Processes
  /\ DOMAIN removed = Processes /\ DOMAIN op = Threads
  /\ version \in [Processes -> Nat] /\ state.version \in Nat
  /\ \A th \in Threads : op[th].pc # "idle" => phase[ProcessOf[th]] = "up"

\* No server has seen a version that is not saved yet.
NobodyAhead == \A p \in Processes : version[p] <= state.version

\* A server that may save has every scope of the file, or has removed it.
SeesTheFile ==
  \A p \in Processes :
    phase[p] = "up" /\ version[p] = state.version =>
      DOMAIN state.scopes \subseteq DOMAIN tree[p] \cup removed[p]

Inv == Kinds /\ NobodyAhead /\ SeesTheFile

Removals ==
  \A s \in DOMAIN state.scopes \ DOMAIN state'.scopes :
    \E p \in Processes : version'[p] = state'.version /\ s \in removed[p]

\* Nothing has started yet.
LEMMA InitHolds == Init => Inv
  BY ScopeAssumption DEF Init, Inv, Kinds, NobodyAhead, SeesTheFile, Idle

\* Whoever saves: the file has this tree, everybody else has seen less.
LEMMA PersistKeeps ==
  ASSUME Inv, NEW p \in Processes, NEW th \in Threads, ProcessOf[th] = p, phase[p] = "up",
         Persist(p, th), UNCHANGED <<phase, tree, blamed>>
  PROVE  Inv' /\ Removals
<1>1. Kinds'
  BY ScopeAssumption DEF Inv, Kinds, Persist, Idle
<1>2. CASE Accepts(p)
  <2>1. /\ state' = [version |-> state.version + 1, scopes |-> tree[p]]
        /\ version' = [version EXCEPT ![p] = state.version + 1]
        /\ removed' = [removed EXCEPT ![p] = {}]
    BY <1>2 DEF Persist
  <2>2. version'[p] = state'.version /\ state'.version = state.version + 1
    BY <2>1 DEF Inv, Kinds
  <2>3. \A q \in Processes \ {p} : version'[q] = version[q] /\ version'[q] < state'.version
    BY <2>1, <2>2 DEF Inv, Kinds, NobodyAhead
  <2>4. NobodyAhead'
    BY <2>2, <2>3, <1>1 DEF NobodyAhead, Kinds
  <2>5. SeesTheFile'
    <3>1. SUFFICES ASSUME NEW q \in Processes, version'[q] = state'.version
                   PROVE  DOMAIN state'.scopes \subseteq DOMAIN tree'[q] \cup removed'[q]
      BY DEF SeesTheFile
    <3>2. q = p
      BY <3>1, <2>3, <1>1 DEF Kinds
    <3>3. state'.scopes = tree'[p]
      BY <2>1
    <3>4. QED
      BY <3>2, <3>3
  <2>6. Removals
    <3>1. version[p] = state.version
      BY <1>2 DEF Accepts
    <3>2. DOMAIN state.scopes \subseteq DOMAIN tree[p] \cup removed[p]
      BY <3>1 DEF Inv, SeesTheFile
    <3>3. state'.scopes = tree[p]
      BY <2>1
    <3>4. QED
      BY <2>2, <3>2, <3>3 DEF Removals
  <2>7. QED
    BY <1>1, <2>4, <2>5, <2>6 DEF Inv
<1>3. CASE ~Accepts(p)
  <2>1. UNCHANGED <<state, version, removed>>
    BY <1>3 DEF Persist
  <2>2. QED
    BY <1>1, <2>1 DEF Inv, NobodyAhead, SeesTheFile, Removals
<1>4. QED
  BY <1>2, <1>3

\* The steps that leave file and versions alone, and lose no scope of a tree
\* without noting it.
LEMMA TreesKeep ==
  ASSUME Inv, Kinds', UNCHANGED <<state, version>>,
         \A p \in Processes : phase'[p] = "up" =>
           /\ phase[p] = "up"
           /\ DOMAIN tree[p] \cup removed[p] \subseteq DOMAIN tree'[p] \cup removed'[p]
  PROVE  Inv' /\ Removals
<1>1. NobodyAhead'
  BY DEF Inv, NobodyAhead
<1>2. SeesTheFile'
  BY DEF Inv, SeesTheFile
<1>3. Removals
  BY DEF Removals
<1>4. QED
  BY <1>1, <1>2, <1>3 DEF Inv

\* A process that is down or starting may have seen any version so far.
LEMMA ProcessKeeps ==
  ASSUME Inv, NEW p \in Processes, Start(p) \/ Restore(p) \/ Crash(p)
  PROVE  Inv' /\ Removals
<1>1. Kinds'
  <2>1. CASE Start(p)
    BY <2>1 DEF Start, Inv, Kinds
  <2>2. CASE Down(p)
    <3>1. \A th \in Threads : op'[th].pc # "idle" => ProcessOf[th] # p /\ op[th].pc # "idle"
      BY <2>2 DEF Down, Idle
    <3>2. QED
      BY <2>2, <3>1, ScopeAssumption DEF Down, Inv, Kinds
  <2>3. CASE Restore(p) /\ ~Down(p)
    <3>1. PICK all : tree' = [tree EXCEPT ![p] = all]
      BY <2>3 DEF Restore
    <3>2. /\ phase' = [phase EXCEPT ![p] = "up"]
          /\ version' = [version EXCEPT ![p] = state.version]
          /\ UNCHANGED <<op, state, removed>>
      BY <2>3 DEF Restore
    <3>3. QED
      BY <3>1, <3>2 DEF Inv, Kinds
  <2>4. QED
    BY <2>1, <2>2, <2>3 DEF Crash
<1>2. state' = state
  BY DEF Start, Restore, Crash, Down
<1>3. Removals
  BY <1>2 DEF Removals
<1>4. \A q \in Processes \ {p} : /\ phase'[q] = phase[q] /\ version'[q] = version[q]
                                /\ tree'[q] = tree[q] /\ removed'[q] = removed[q]
  BY DEF Inv, Kinds, Start, Restore, Crash, Down
<1>5. version'[p] \in {0, state.version}
  BY DEF Inv, Kinds, Start, Restore, Crash, Down
<1>6. NobodyAhead'
  BY <1>1, <1>2, <1>4, <1>5 DEF Inv, Kinds, NobodyAhead
<1>7. phase'[p] = "up" => DOMAIN state.scopes \subseteq DOMAIN tree'[p]
  <2>1. CASE Start(p)
    BY <2>1 DEF Start, Inv, Kinds
  <2>2. CASE Restore(p)
    BY <2>2 DEF Restore, Down, Inv, Kinds
  <2>3. CASE Crash(p)
    BY <2>3 DEF Crash, Down, Inv, Kinds
  <2>4. QED
    BY <2>1, <2>2, <2>3
<1>8. SeesTheFile'
  BY <1>2, <1>4, <1>7 DEF Inv, SeesTheFile
<1>9. QED
  BY <1>1, <1>3, <1>6, <1>8 DEF Inv

\* The steps of a thread that save nothing.
LEMMA ThreadKeeps ==
  ASSUME Inv, NEW th \in Threads,
         \/ \E s \in Scopes :
              \/ \E parent \in Below[s] : AddScope(th, s, parent)
              \/ \E recursive \in BOOLEAN : RemoveScope(th, s, recursive)
              \/ Visit(th, s)
         \/ Refuse(th) \/ Commit(th)
  PROVE  Inv' /\ Removals
<1> DEFINE p == ProcessOf[th]
<1>1. p \in Processes
  BY ScopeAssumption
<1>2. Kinds'
  BY <1>1, ScopeAssumption
  DEF Inv, Kinds, AddScope, RemoveScope, Visit, Refuse, Commit, Idle, process
<1>3. UNCHANGED <<state, version, phase>>
  BY DEF AddScope, RemoveScope, Visit, Refuse, Commit, process
<1>4. \A q \in Processes :
        DOMAIN tree[q] \cup removed[q] \subseteq DOMAIN tree'[q] \cup removed'[q]
  <2>1. CASE UNCHANGED <<tree, removed>>
    BY <2>1
  <2>2. CASE \E s \in Scopes : \E parent \in Below[s] : AddScope(th, s, parent)
    BY <1>1, <2>2 DEF AddScope, With, Inv, Kinds
  <2>3. CASE Commit(th)
    BY <1>1, <2>3 DEF Commit, Without, Inv, Kinds
  <2>4. QED
    BY <2>1, <2>2, <2>3 DEF RemoveScope, Visit, Refuse, process
<1>5. QED
  BY <1>2, <1>3, <1>4, TreesKeep

\* Every step keeps the invariant, and takes out of the file what was removed.
LEMMA NextKeeps == Inv /\ [Next]_vars => Inv' /\ (Removals \/ UNCHANGED vars)
<1> SUFFICES ASSUME Inv, [Next]_vars
             PROVE  Inv' /\ (Removals \/ UNCHANGED vars)
  OBVIOUS
<1>1. CASE \E p \in Processes : Start(p) \/ Restore(p) \/ Crash(p)
  BY <1>1, ProcessKeeps
<1>2. ASSUME NEW th \in Threads, SaveRemoval(th) \/ SaveOther(th)
      PROVE  Inv' /\ Removals
  <2>1. ProcessOf[th] \in Processes
    BY ScopeAssumption
  <2>2. phase[ProcessOf[th]] = "up"
    BY <1>2 DEF SaveRemoval, SaveOther, Inv, Kinds
  <2>3. Persist(ProcessOf[th], th) /\ UNCHANGED <<phase, tree, blamed>>
    BY <1>2 DEF SaveRemoval, SaveOther
  <2>4. QED
    BY <2>1, <2>2, <2>3, PersistKeeps
<1>3. ASSUME NEW th \in Threads, NEW s \in Scopes,
             \/ \E parent \in Below[s] : AddScope(th, s, parent)
             \/ \E recursive \in BOOLEAN : RemoveScope(th, s, recursive)
             \/ Visit(th, s)
      PROVE  Inv' /\ Removals
  BY <1>3, ThreadKeeps
<1>4. ASSUME NEW th \in Threads, Refuse(th) \/ Commit(th)
      PROVE  Inv' /\ Removals
  BY <1>4, ThreadKeeps
<1>5. CASE UNCHANGED vars
  BY <1>5 DEF vars, process, Inv, Kinds, NobodyAhead, SeesTheFile
<1>6. QED
  BY <1>1, <1>2, <1>3, <1>4, <1>5 DEF Next

\* A server only ever takes out of the file what it has itself removed: the
\* version it expects is that of a file whose scopes it knows (_persist_state,
\* SqliteRuntimeStateStore.save).
THEOREM NothingOverwritten == Spec => OnlyRemovalsRemove
<1>1. Spec => [][Removals]_vars
  BY InitHolds, NextKeeps, PTL DEF Spec
<1>2. QED
  BY <1>1 DEF OnlyRemovalsRemove, Removals

-----------------------------------------------------------------------------
(* Orphans *)

\* The manager's lock: an operation under way holds it.
Locked == \A th \in Threads : op[th].pc # "idle" => lock[ProcessOf[th]] = th

\* A walk has found the children of the scopes it is done with, but for those
\* added since.
Walks ==
  \A th \in Threads : op[th].pc = "walk" =>
    \A s \in DOMAIN tree[ProcessOf[th]] \ {Root} :
      tree[ProcessOf[th]][s] \in op[th].found \ op[th].todo =>
        s \in op[th].found \cup blamed[ProcessOf[th]]

Domains ==
  /\ DOMAIN tree = Processes /\ DOMAIN lock = Processes /\ DOMAIN blamed = Processes
  /\ DOMAIN op = Threads

TreeInv == Domains /\ Locked /\ Walks /\ OrphansOnlyToOverlap

\* No tree has an orphan yet.
LEMMA TreeInit == Init => TreeInv
  BY ScopeAssumption
  DEF Init, TreeInv, Domains, Locked, Walks, OrphansOnlyToOverlap, Orphans, OnlyRoot, Idle

\* Starts, restores and crashes leave a tree without orphans and no walk.
LEMMA ProcessKeepsTrees ==
  ASSUME Inv, TreeInv, NEW p \in Processes, Start(p) \/ Restore(p) \/ Crash(p)
  PROVE  TreeInv'
<1>1. Domains'
  BY DEF TreeInv, Domains, Start, Restore, Crash, Down
<1>2. \A th \in Threads : /\ ProcessOf[th] = p => op'[th].pc = "idle"
                          /\ ProcessOf[th] # p => op'[th] = op[th]
  BY DEF Inv, Kinds, Start, Restore, Crash, Down, Idle
<1>3. \A q \in Processes \ {p} :
        tree'[q] = tree[q] /\ lock'[q] = lock[q] /\ blamed'[q] = blamed[q]
  BY DEF TreeInv, Domains, Start, Restore, Crash, Down
<1>4. Orphans(tree'[p]) = {}
  <2>1. CASE Start(p)
    BY <2>1 DEF Start, TreeInv, Domains, Orphans, Seeded
  <2>2. CASE Restore(p)
    BY <2>2 DEF Restore, Down, TreeInv, Domains, Orphans, OnlyRoot
  <2>3. CASE Crash(p)
    BY <2>3 DEF Crash, Down, TreeInv, Domains, Orphans, OnlyRoot
  <2>4. QED
    BY <2>1, <2>2, <2>3
<1>5. Locked'
  BY <1>2, <1>3, ScopeAssumption DEF TreeInv, Locked
<1>6. Walks'
  BY <1>2, <1>3, ScopeAssumption DEF TreeInv, Walks
<1>7. OrphansOnlyToOverlap'
  BY <1>3, <1>4 DEF TreeInv, OrphansOnlyToOverlap
<1>8. QED
  BY <1>1, <1>5, <1>6, <1>7 DEF TreeInv

\* Who gives the lock back, or has not got it, ends no other operation.
LEMMA IdleKeepsTrees ==
  ASSUME Inv, TreeInv, NEW th \in Threads, lock[ProcessOf[th]] \in {th, Nobody},
         op' = [op EXCEPT ![th] = Idle],
         lock' = [lock EXCEPT ![ProcessOf[th]] = Nobody],
         UNCHANGED <<tree, blamed>>
  PROVE  TreeInv'
<1>1. Domains'
  BY DEF TreeInv, Domains
<1>2. \A t \in Threads : op'[t].pc # "idle" => t # th /\ op'[t] = op[t]
  BY DEF TreeInv, Domains, Idle
<1>3. Locked'
  <2>1. SUFFICES ASSUME NEW t \in Threads, op'[t].pc # "idle"
                 PROVE  lock'[ProcessOf[t]] = t
    BY DEF Locked
  <2>2. t # th /\ lock[ProcessOf[t]] = t
    BY <2>1, <1>2 DEF TreeInv, Locked
  <2>3. ProcessOf[t] # ProcessOf[th]
    BY <2>2, ScopeAssumption
  <2>4. QED
    BY <2>2, <2>3, ScopeAssumption DEF TreeInv, Domains
<1>4. Walks'
  BY <1>2 DEF TreeInv, Walks
<1>5. OrphansOnlyToOverlap'
  BY DEF TreeInv, OrphansOnlyToOverlap
<1>6. QED
  BY <1>1, <1>3, <1>4, <1>5 DEF TreeInv

\* A scope that a walk has passed by is blamed; the others have a parent.
LEMMA AddScopeKeepsTrees ==
  ASSUME Inv, TreeInv, NEW th \in Threads, NEW s \in Scopes, NEW parent \in Below[s],
         AddScope(th, s, parent)
  PROVE  TreeInv'
<1> DEFINE p == ProcessOf[th]
<1>0. p \in Processes
  BY ScopeAssumption
<1>1. /\ s \notin DOMAIN tree[p] /\ parent \in DOMAIN tree[p]
      /\ tree' = [tree EXCEPT ![p] = With(@, s, parent)]
      /\ blamed' = [blamed EXCEPT ![p] = IF PassedBy(p, parent) THEN @ \cup {s} ELSE @ \ {s}]
      /\ UNCHANGED <<lock, op>>
  BY DEF AddScope
<1>2. /\ tree'[p] = With(tree[p], s, parent)
      /\ blamed'[p] = IF PassedBy(p, parent) THEN blamed[p] \cup {s} ELSE blamed[p] \ {s}
      /\ \A q \in Processes \ {p} : tree'[q] = tree[q] /\ blamed'[q] = blamed[q]
  BY <1>0, <1>1 DEF TreeInv, Domains
<1>3. /\ DOMAIN tree'[p] = DOMAIN tree[p] \cup {s}
      /\ tree'[p][s] = parent
      /\ \A c \in DOMAIN tree[p] : c # s /\ tree'[p][c] = tree[p][c]
  BY <1>1, <1>2 DEF With
<1>4. Domains'
  BY <1>1 DEF TreeInv, Domains
<1>5. Locked'
  BY <1>1 DEF TreeInv, Locked
<1>6. Walks'
  <2>1. SUFFICES ASSUME NEW t \in Threads, op[t].pc = "walk",
                        NEW c \in DOMAIN tree'[ProcessOf[t]] \ {Root},
                        tree'[ProcessOf[t]][c] \in op[t].found \ op[t].todo
                 PROVE  c \in op[t].found \cup blamed'[ProcessOf[t]]
    BY <1>1 DEF Walks
  <2>2. CASE ProcessOf[t] # p
    BY <2>1, <2>2, <1>2, ScopeAssumption DEF TreeInv, Walks
  <2>3. CASE ProcessOf[t] = p /\ c = s
    <3>1. PassedBy(p, parent)
      BY <2>1, <2>3, <1>3 DEF PassedBy
    <3>2. QED
      BY <3>1, <2>3, <1>2
  <2>4. CASE ProcessOf[t] = p /\ c # s
    <3>1. c \in op[t].found \cup blamed[p]
      BY <2>1, <2>4, <1>3 DEF TreeInv, Walks
    <3>2. QED
      BY <3>1, <2>4, <1>2
  <2>5. QED
    BY <2>2, <2>3, <2>4
<1>7. OrphansOnlyToOverlap'
  <2>1. Orphans(tree'[p]) \subseteq Orphans(tree[p])
    BY <1>1, <1>3 DEF Orphans
  <2>2. Orphans(tree'[p]) \subseteq blamed[p] \ {s}
    BY <2>1, <1>0, <1>1 DEF TreeInv, OrphansOnlyToOverlap, Orphans
  <2>3. QED
    BY <2>2, <1>2 DEF TreeInv, OrphansOnlyToOverlap
<1>8. QED
  BY <1>4, <1>5, <1>6, <1>7 DEF TreeInv

\* A removal begins with nothing passed by, under a lock nobody held.
LEMMA RemoveScopeKeepsTrees ==
  ASSUME Inv, TreeInv, NEW th \in Threads, NEW s \in Scopes, NEW recursive \in BOOLEAN,
         RemoveScope(th, s, recursive)
  PROVE  TreeInv'
<1>1. /\ lock[ProcessOf[th]] = Nobody /\ UNCHANGED <<tree, blamed>>
      /\ lock' = [lock EXCEPT ![ProcessOf[th]] = th]
      /\ op' = [op EXCEPT ![th] = [pc |-> "walk", scope |-> s, recursive |-> recursive,
                                   found |-> {s}, todo |-> {s}]]
  BY DEF RemoveScope
<1>2. Domains'
  BY <1>1 DEF TreeInv, Domains
<1>3. /\ op'[th].found = op'[th].todo
      /\ \A t \in Threads \ {th} : op'[t] = op[t]
  BY <1>1 DEF TreeInv, Domains
<1>4. Locked'
  <2>1. \A t \in Threads \ {th} : op[t].pc # "idle" => ProcessOf[t] # ProcessOf[th]
    BY <1>1, ScopeAssumption DEF TreeInv, Locked
  <2>2. lock'[ProcessOf[th]] = th
    BY <1>1, ScopeAssumption DEF TreeInv, Domains
  <2>3. \A t \in Threads \ {th} : op'[t].pc # "idle" => lock'[ProcessOf[t]] = t
    BY <1>1, <1>3, <2>1 DEF TreeInv, Locked
  <2> QED
    BY <2>2, <2>3 DEF Locked
<1>5. Walks'
  BY <1>1, <1>3 DEF TreeInv, Walks
<1>6. OrphansOnlyToOverlap'
  BY <1>1 DEF TreeInv, OrphansOnlyToOverlap
<1>7. QED
  BY <1>2, <1>4, <1>5, <1>6 DEF TreeInv

\* A walk is done with a scope when it has found all its children.
LEMMA VisitKeepsTrees ==
  ASSUME Inv, TreeInv, NEW th \in Threads, NEW s \in Scopes, Visit(th, s)
  PROVE  TreeInv'
<1> DEFINE children == Children(tree[ProcessOf[th]], s)
<1>1. /\ op[th].pc = "walk" /\ s \in op[th].todo
      /\ op' = [op EXCEPT ![th].found = @ \cup children,
                          ![th].todo = (@ \ {s}) \cup (children \ op[th].found)]
      /\ UNCHANGED <<tree, lock, blamed>>
  BY DEF Visit, process
<1>2. /\ op'[th].pc = op[th].pc
      /\ op'[th].found \ op'[th].todo \subseteq (op[th].found \ op[th].todo) \cup {s}
      /\ op[th].found \cup children \subseteq op'[th].found
      /\ \A t \in Threads \ {th} : op'[t] = op[t]
  BY <1>1 DEF TreeInv, Domains
<1>3. Domains'
  BY <1>1 DEF TreeInv, Domains
<1>4. Locked'
  BY <1>1, <1>2 DEF TreeInv, Locked
<1>5. Walks'
  BY <1>1, <1>2 DEF TreeInv, Walks, Children
<1>6. OrphansOnlyToOverlap'
  BY <1>1 DEF TreeInv, OrphansOnlyToOverlap
<1>7. QED
  BY <1>3, <1>4, <1>5, <1>6 DEF TreeInv

\* What is taken out leaves as orphans only what the walk has missed.
LEMMA CommitKeepsTrees ==
  ASSUME Inv, TreeInv, NEW th \in Threads, Commit(th)
  PROVE  TreeInv'
<1> DEFINE p == ProcessOf[th]
           gone == op[th].found
<1>0. p \in Processes
  BY ScopeAssumption
<1>1. /\ op[th].pc = "walk" /\ op[th].todo = {}
      /\ tree' = [tree EXCEPT ![p] = Without(@, gone)]
      /\ blamed' = [blamed EXCEPT ![p] = @ \ gone]
      /\ op' = [op EXCEPT ![th].pc = "persist"]
      /\ UNCHANGED lock
  BY DEF Commit, Gone
<1>2. /\ tree'[p] = Without(tree[p], gone) /\ blamed'[p] = blamed[p] \ gone
      /\ \A q \in Processes \ {p} : tree'[q] = tree[q] /\ blamed'[q] = blamed[q]
  BY <1>0, <1>1 DEF TreeInv, Domains
<1>3. /\ op'[th].pc = "persist"
      /\ \A t \in Threads \ {th} : op'[t] = op[t]
  BY <1>1 DEF TreeInv, Domains
<1>4. Domains'
  BY <1>1 DEF TreeInv, Domains
<1>5. Locked'
  BY <1>1, <1>3 DEF TreeInv, Locked
<1>6. Walks'
  <2>1. SUFFICES ASSUME NEW t \in Threads, op'[t].pc = "walk"
                 PROVE  /\ t # th /\ op'[t] = op[t]
                        /\ ProcessOf[t] # p
    BY <1>2, ScopeAssumption DEF TreeInv, Walks
  <2>2. t # th /\ op'[t] = op[t]
    BY <2>1, <1>3
  <2>3. lock[ProcessOf[t]] = t /\ lock[p] = th
    BY <2>1, <2>2, <1>1 DEF TreeInv, Locked
  <2>4. QED
    BY <2>2, <2>3
<1>7. Orphans(tree'[p]) \subseteq blamed'[p]
  <2>1. SUFFICES ASSUME NEW s \in Orphans(tree'[p])
                 PROVE  s \in blamed[p] \ gone
    BY <1>2
  <2>2. /\ s \in DOMAIN tree[p] \ {Root} /\ s \notin gone
        /\ tree[p][s] \notin DOMAIN tree[p] \ gone
    BY <2>1, <1>2 DEF Orphans, Without
  <2>3. CASE tree[p][s] \in gone
    BY <2>2, <2>3, <1>1 DEF TreeInv, Walks
  <2>4. CASE tree[p][s] \notin gone
    BY <2>2, <2>4, <1>0 DEF TreeInv, OrphansOnlyToOverlap, Orphans
  <2>5. QED
    BY <2>3, <2>4
<1>8. OrphansOnlyToOverlap'
  BY <1>2, <1>7 DEF TreeInv, OrphansOnlyToOverlap
<1>9. QED
  BY <1>4, <1>5, <1>6, <1>8 DEF TreeInv

\* Every step keeps the trees' invariant.
LEMMA NextKeepsTrees == Inv /\ TreeInv /\ [Next]_vars => TreeInv'
<1> SUFFICES ASSUME Inv, TreeInv, [Next]_vars
             PROVE  TreeInv'
  OBVIOUS
<1>1. CASE \E p \in Processes : Start(p) \/ Restore(p) \/ Crash(p)
  BY <1>1, ProcessKeepsTrees
<1>2. ASSUME NEW th \in Threads, NEW s \in Scopes,
             \/ \E parent \in Below[s] : AddScope(th, s, parent)
             \/ \E recursive \in BOOLEAN : RemoveScope(th, s, recursive)
             \/ Visit(th, s)
      PROVE  TreeInv'
  BY <1>2, AddScopeKeepsTrees, RemoveScopeKeepsTrees, VisitKeepsTrees
<1>3. ASSUME NEW th \in Threads, Refuse(th) \/ SaveRemoval(th) \/ SaveOther(th)
      PROVE  TreeInv'
  <2>1. lock[ProcessOf[th]] \in {th, Nobody}
    BY <1>3 DEF Refuse, SaveRemoval, SaveOther, TreeInv, Locked
  <2>2. /\ op' = [op EXCEPT ![th] = Idle]
        /\ lock' = [lock EXCEPT ![ProcessOf[th]] = Nobody]
        /\ UNCHANGED <<tree, blamed>>
    BY <1>3 DEF Refuse, SaveRemoval, SaveOther, Persist
  <2>3. QED
    BY <2>1, <2>2, IdleKeepsTrees
<1>4. ASSUME NEW th \in Threads, Commit(th)
      PROVE  TreeInv'
  BY <1>4, CommitKeepsTrees
<1>5. CASE UNCHANGED vars
  BY <1>5 DEF vars, process, TreeInv, Domains, Locked, Walks, OrphansOnlyToOverlap
<1>6. QED
  BY <1>1, <1>2, <1>3, <1>4, <1>5 DEF Next

\* A scope is without its parent only if it was added below one that a removal
\* had passed by (ScopeTree.remove, PluginManager.add_scope).
THEOREM OrphansByOverlapOnly == Spec => []OrphansOnlyToOverlap
<1>1. TreeInv => OrphansOnlyToOverlap
  BY DEF TreeInv
<1>2. QED
  BY <1>1, InitHolds, NextKeeps, TreeInit, NextKeepsTrees, PTL DEF Spec
=============================================================================
