---------------------------- MODULE ManagerProofs ----------------------------
(***************************************************************************)
(* The invariants of the plugin manager, and of the coordinator above it,  *)
(* hold for every set of definitions, scopes, instances, properties and    *)
(* contributions, whatever is refused or fails, wherever a crash falls.    *)
(*                                                                         *)
(* First the manager by itself, then the coordinator. The manager's own    *)
(* invariant, IInv, holds along the way: every step of the coordinator is  *)
(* one of the manager's, or saves the manager's memory as it is.           *)
(***************************************************************************)
EXTENDS Coordinator, TLAPS

-----------------------------------------------------------------------------
(* The manager *)

\* The conjunction that is inductive: each action needs the other parts, too.
IInv == /\ TypeOK
        /\ DefinitionsAgree
        /\ InstancesDefined
        /\ StoreClosed
        /\ MemoryIsDurable
        /\ DownIsEmpty

\* The manager's memory agrees with itself.
MemoryOK == TypeOK /\ DefinitionsAgree /\ InstancesDefined

\* The step saves a snapshot of the memory it leaves behind.
Saves == store' = Snapshot(scopes', plugins', instances')

\* The step leaves the store alone and adds nothing to the memory.
Shrinks ==
  /\ store' = store
  /\ \A d \in Definitions : plugins'[d] # None => plugins'[d] = plugins[d]
  /\ \A i \in Instances : instances'[i] # None => instances'[i] = instances[i]

-----------------------------------------------------------------------------
\* The conversion of the properties leaves a record a record, of the same
\* definition and scope. (_json_safe)
LEMMA SavedRecord ==
  ASSUME NEW r \in RecordOrNone
  PROVE  /\ Saved(r) \in RecordOrNone
         /\ r = None <=> Saved(r) = None
         /\ r # None => /\ Saved(r).def = r.def /\ Saved(r).scope = r.scope
                        /\ Saved(r).enabled = r.enabled
<1>1. CASE r = None
  BY <1>1 DEF Saved, RecordOrNone
<1>2. CASE r # None
  <2>1. r \in Record /\ JsonSafe[r.props] \in Props
    BY <1>2, ConstantsAssumption DEF RecordOrNone, Record
  <2>2. Saved(r) = [r EXCEPT !.props = JsonSafe[r.props]]
    BY <1>2 DEF Saved
  <2>3. /\ Saved(r) \in Record
        /\ Saved(r).def = r.def /\ Saved(r).scope = r.scope
        /\ Saved(r).enabled = r.enabled
    BY <2>1, <2>2 DEF Record
  <2> QED
    BY <1>2, <2>3, RecordAssumption DEF RecordOrNone
<1> QED
  BY <1>1, <1>2

\* A snapshot of well-typed memory is well typed. (_persist_state)
LEMMA SnapshotType ==
  ASSUME NEW S \in SUBSET Scopes, NEW P \in [Definitions -> VersionOrNone],
         NEW I \in [Instances -> RecordOrNone]
  PROVE  Snapshot(S, P, I) \in
           [scopes: SUBSET Scopes, plugins: [Definitions -> VersionOrNone],
            instances: [Instances -> RecordOrNone]]
  BY SavedRecord DEF Snapshot

LEMMA StoreType ==
  ASSUME TypeOK, scopes' \subseteq Scopes, plugins' \in [Definitions -> VersionOrNone],
         instances' \in [Instances -> RecordOrNone], store' = store \/ Saves
  PROVE  store' \in [scopes: SUBSET Scopes, plugins: [Definitions -> VersionOrNone],
                     instances: [Instances -> RecordOrNone]]
<1>1. Snapshot(scopes', plugins', instances') \in
        [scopes: SUBSET Scopes, plugins: [Definitions -> VersionOrNone],
         instances: [Instances -> RecordOrNone]]
  BY SnapshotType
<1> QED
  BY <1>1 DEF TypeOK, Saves

\* A snapshot of memory that agrees with itself can be restored, and holds
\* all of the memory. (_persist_state)
LEMMA SavedSnapshotIsClosed ==
  ASSUME MemoryOK', Saves
  PROVE  StoreClosed' /\ MemoryIsDurable'
<1>1. \A i \in Instances :
        /\ instances'[i] = None <=> store'.instances[i] = None
        /\ instances'[i] # None => /\ store'.instances[i] = Saved(instances'[i])
                                   /\ store'.instances[i].def = instances'[i].def
                                   /\ store'.instances[i].scope = instances'[i].scope
  BY SavedRecord DEF MemoryOK, Saves, Snapshot, TypeOK
<1> QED
  BY <1>1 DEF MemoryOK, Saves, Snapshot, TypeOK, DefinitionsAgree, InstancesDefined,
         StoreClosed, MemoryIsDurable, Installed, Recorded, Persisted, Record,
         RecordOrNone, VersionOrNone

\* A step that saves nothing and only forgets keeps what is in memory durable.
LEMMA ForgettingIsDurable ==
  ASSUME TypeOK, StoreClosed, MemoryIsDurable, Shrinks
  PROVE  StoreClosed' /\ MemoryIsDurable'
  BY DEF Shrinks, TypeOK, StoreClosed, MemoryIsDurable, Installed, Recorded, Persisted

\* Both cases of PersistState, for the steps of a server that stays up.
LEMMA PersistStateKeeps ==
  ASSUME IInv, MemoryOK', Saves \/ Shrinks, phase' = "up"
  PROVE  IInv'
  BY SavedSnapshotIsClosed, ForgettingIsDurable DEF IInv, MemoryOK, DownIsEmpty

-----------------------------------------------------------------------------
LEMMA InstallKeeps ==
  ASSUME IInv, NEW d \in Definitions, NEW saved \in BOOLEAN, Install(d, saved)
  PROVE  IInv'
<1> USE ConstantsAssumption
<1> DEFINE m == ModuleOf[d]
<1>0. m \in Modules /\ \A e \in Definitions : FactoryOf[e] \in Factories
  BY DEF Modules, Factories
<1>1. TypeOK'
  <2>1. /\ plugins' \in [Definitions -> VersionOrNone]
        /\ registry' \in [Factories -> Definitions \union {None}]
        /\ bundles' \subseteq Modules
        /\ module_refs' \in [Modules -> SUBSET Definitions]
    BY <1>0 DEF IInv, TypeOK, Install, VersionOrNone
  <2>2. /\ phase' = phase /\ packaged' = packaged /\ scopes' = scopes
        /\ UNCHANGED <<instances, user_properties, components>>
    BY DEF Install, instanceVars
  <2>3. store' = store \/ Saves
    BY DEF Install, PersistState, Saves
  <2>4. /\ scopes' \subseteq Scopes
        /\ instances' \in [Instances -> RecordOrNone]
    BY <2>2 DEF IInv, TypeOK
  <2> QED
    BY <2>1, <2>2, <2>3, <2>4, StoreType DEF IInv, TypeOK
<1>2. DefinitionsAgree'
  <2>1. CASE saved
    <3>1. Installed' = Installed \union {d}
      BY <2>1 DEF IInv, TypeOK, Install, Installed
    <3>2. \A e \in Definitions : e \in Installed' <=> registry'[FactoryOf[e]] = e
      <4>1. \A e \in Definitions : registry'[FactoryOf[e]] =
              IF FactoryOf[e] = FactoryOf[d] THEN d ELSE registry[FactoryOf[e]]
        BY <1>0, <2>1 DEF IInv, TypeOK, Install
      <4>2. \A e \in Definitions : FactoryOf[e] = FactoryOf[d] => e \notin Installed
        BY DEF IInv, DefinitionsAgree, Install
      <4> QED
        BY <3>1, <4>1, <4>2 DEF IInv, DefinitionsAgree
    <3>3. \A n \in Modules : module_refs'[n] = {e \in Installed' : ModuleOf[e] = n}
      BY <1>0, <2>1, <3>1 DEF IInv, TypeOK, DefinitionsAgree, Install
    <3>4. bundles' = {ModuleOf[e] : e \in Installed'}
      BY <2>1, <3>1 DEF IInv, DefinitionsAgree, Install
    <3> QED
      BY <3>2, <3>3, <3>4 DEF DefinitionsAgree
  <2>2. CASE ~saved
    <3>1. d \notin Installed /\ Installed' = Installed
      BY <2>2 DEF IInv, TypeOK, Install, Installed
    <3>2. \A e \in Definitions : e \in Installed' <=> registry'[FactoryOf[e]] = e
      <4>1. registry' = registry
        BY <1>0, <2>2 DEF IInv, TypeOK, Install
      <4> QED
        BY <3>1, <4>1 DEF IInv, DefinitionsAgree
    <3>3. \A n \in Modules : module_refs'[n] = {e \in Installed' : ModuleOf[e] = n}
      <4>1. d \notin module_refs[m] /\ module_refs' = [module_refs EXCEPT
              ![m] = (module_refs[m] \union {d}) \ {d}]
        BY <1>0, <2>2, <3>1 DEF IInv, TypeOK, DefinitionsAgree, Install
      <4>2. (module_refs[m] \union {d}) \ {d} = module_refs[m]
        BY <4>1
      <4>3. module_refs' = [module_refs EXCEPT ![m] = module_refs[m]]
        BY <4>1, <4>2
      <4>4. module_refs' = module_refs
        BY <1>0, <4>3 DEF IInv, TypeOK
      <4> QED
        BY <3>1, <4>4 DEF IInv, DefinitionsAgree
    <3>4. bundles' = {ModuleOf[e] : e \in Installed'}
      <4>1. module_refs[m] = {e \in Installed : ModuleOf[e] = m} /\ d \notin module_refs[m]
        BY <1>0, <3>1 DEF IInv, DefinitionsAgree
      <4>2. (module_refs[m] \union {d}) \ {d} = module_refs[m]
        BY <4>1
      <4>3. bundles' = IF module_refs[m] = {} THEN bundles \ {m} ELSE bundles
        BY <1>0, <2>2, <4>2 DEF IInv, TypeOK, Install, UnloadIfUnused
      <4>4. module_refs[m] = {} => m \notin bundles
        BY <4>1 DEF IInv, DefinitionsAgree, Installed
      <4>5. bundles' = bundles
        BY <4>3, <4>4
      <4> QED
        BY <3>1, <4>5 DEF IInv, DefinitionsAgree
    <3> QED
      BY <3>2, <3>3, <3>4 DEF DefinitionsAgree
  <2> QED
    BY <2>1, <2>2
<1>3. InstancesDefined'
  BY DEF IInv, TypeOK, InstancesDefined, Install, Installed, Recorded, instanceVars
<1>4. Saves \/ Shrinks
  BY DEF IInv, TypeOK, Install, PersistState, Saves, Shrinks, instanceVars
<1>5. QED
  BY <1>1, <1>2, <1>3, <1>4, PersistStateKeeps DEF MemoryOK, Install

\* The definitions and scopes a step leaves alone.
SameDefinitions == UNCHANGED <<phase, packaged, definitionVars>>

LEMMA UninstallKeeps ==
  ASSUME IInv, NEW d \in Definitions, NEW saved \in BOOLEAN, Uninstall(d, saved)
  PROVE  IInv'
<1> USE ConstantsAssumption
<1>0. ModuleOf[d] \in Modules /\ FactoryOf[d] \in Factories
  BY DEF Modules, Factories
<1>1. TypeOK'
  <2>1. /\ plugins' \in [Definitions -> VersionOrNone]
        /\ registry' \in [Factories -> Definitions \union {None}]
        /\ bundles' \subseteq Modules
        /\ module_refs' \in [Modules -> SUBSET Definitions]
    BY <1>0 DEF IInv, TypeOK, Uninstall, UnloadIfUnused, VersionOrNone
  <2>2. /\ phase' = phase /\ packaged' = packaged /\ scopes' = scopes
        /\ UNCHANGED <<instances, user_properties, components>>
    BY DEF Uninstall, instanceVars
  <2>3. store' = store \/ Saves
    BY DEF Uninstall, PersistState, Saves
  <2>4. /\ scopes' \subseteq Scopes
        /\ instances' \in [Instances -> RecordOrNone]
    BY <2>2 DEF IInv, TypeOK
  <2> QED
    BY <2>1, <2>2, <2>3, <2>4, StoreType DEF IInv, TypeOK
<1>2. DefinitionsAgree'
  <2>1. Installed' = Installed \ {d}
    BY DEF IInv, TypeOK, Uninstall, Installed
  <2>2. \A m \in Modules : module_refs'[m] = {e \in Installed' : ModuleOf[e] = m}
    BY <1>0, <2>1 DEF IInv, TypeOK, DefinitionsAgree, Uninstall
  <2>3. bundles' = {ModuleOf[e] : e \in Installed'}
    BY <1>0, <2>1, <2>2 DEF IInv, DefinitionsAgree, Uninstall, UnloadIfUnused
  <2>4. \A e \in Definitions : e \in Installed' <=> registry'[FactoryOf[e]] = e
    BY <1>0, <2>1 DEF IInv, TypeOK, DefinitionsAgree, Uninstall, Factories
  <2>5. QED
    BY <2>2, <2>3, <2>4 DEF DefinitionsAgree
<1>3. InstancesDefined'
  BY DEF IInv, TypeOK, InstancesDefined, Uninstall, Installed, Recorded, InstancesOf,
         instanceVars
<1>4. Saves \/ Shrinks
  BY DEF IInv, TypeOK, Uninstall, PersistState, Saves, Shrinks, instanceVars
<1>5. QED
  BY <1>1, <1>2, <1>3, <1>4, PersistStateKeeps DEF MemoryOK, Uninstall

\* Steps that touch neither definitions nor phase: what is left to show is
\* about scopes and instances.
LEMMA SameDefinitionsKeeps ==
  ASSUME IInv, SameDefinitions, phase = "up", InstancesDefined',
         scopes' \subseteq Scopes,
         instances' \in [Instances -> RecordOrNone],
         user_properties' \in [Instances -> PropsOrNone],
         components' \in [Instances -> PropsOrNone],
         Saves \/ Shrinks
  PROVE  IInv'
<1>1. TypeOK'
  <2>1. plugins' \in [Definitions -> VersionOrNone] /\ (store' = store \/ Saves)
    BY DEF IInv, TypeOK, SameDefinitions, definitionVars, Shrinks
  <2> QED
    BY <2>1, StoreType DEF IInv, TypeOK, SameDefinitions, definitionVars
<1>2. DefinitionsAgree'
  BY DEF IInv, DefinitionsAgree, SameDefinitions, definitionVars, Installed
<1>3. QED
  BY <1>1, <1>2, PersistStateKeeps DEF MemoryOK, SameDefinitions

LEMMA AddScopeKeeps ==
  ASSUME IInv, NEW s \in Scopes, AddScope(s)
  PROVE  IInv'
<1>1. InstancesDefined'
  BY TreeAssumption DEF IInv, TypeOK, InstancesDefined, AddScope, Recorded, Installed,
     definitionVars, instanceVars
<1>2. QED
  BY <1>1, SameDefinitionsKeeps
  DEF IInv, TypeOK, AddScope, SameDefinitions, definitionVars, instanceVars, Shrinks

\* _remove_instance_record keeps the types and adds no record.
LEMMA ForgetInstancesTypes ==
  ASSUME TypeOK, NEW Gone, ForgetInstances(Gone)
  PROVE  /\ instances' \in [Instances -> RecordOrNone]
         /\ user_properties' \in [Instances -> PropsOrNone]
         /\ components' \in [Instances -> PropsOrNone]
         /\ \A i \in Instances : instances'[i] # None =>
              i \notin Gone /\ instances'[i] = instances[i]
  BY DEF TypeOK, ForgetInstances, RecordOrNone, PropsOrNone

LEMMA RemoveScopeKeeps ==
  ASSUME IInv, NEW s \in Scopes, NEW saved \in BOOLEAN, RemoveScope(s, saved)
  PROVE  IInv'
<1>1. InstancesDefined'
  BY TreeAssumption DEF IInv, TypeOK, InstancesDefined, RemoveScope, Recorded, Installed,
     definitionVars, instanceVars, Subtree, InstancesUnder
<1>2. Saves \/ Shrinks
  BY DEF RemoveScope, PersistState, Saves, Shrinks, definitionVars, instanceVars
<1>3. QED
  BY <1>1, <1>2, SameDefinitionsKeeps
  DEF IInv, TypeOK, RemoveScope, SameDefinitions, definitionVars, instanceVars

LEMMA RemoveSubtreeKeeps ==
  ASSUME IInv, NEW s \in Scopes, NEW saved \in BOOLEAN, RemoveSubtree(s, saved)
  PROVE  IInv'
<1> DEFINE Gone == InstancesUnder(s)
<1>1. ForgetInstances(Gone) /\ TypeOK
  BY DEF RemoveSubtree, IInv
<1>2. /\ instances' \in [Instances -> RecordOrNone]
      /\ user_properties' \in [Instances -> PropsOrNone]
      /\ components' \in [Instances -> PropsOrNone]
      /\ \A i \in Instances : instances'[i] # None =>
           i \notin Gone /\ instances'[i] = instances[i]
  BY <1>1, ForgetInstancesTypes
<1>3. scopes' = scopes \/ scopes' = scopes \ Subtree(s)
  BY DEF RemoveSubtree
<1>4. InstancesDefined'
  BY <1>2, <1>3, TreeAssumption
  DEF IInv, TypeOK, InstancesDefined, RemoveSubtree, Recorded, Installed, definitionVars,
      Subtree, InstancesUnder
<1>5. Saves \/ Shrinks
  BY <1>2 DEF RemoveSubtree, PersistState, Saves, Shrinks, definitionVars
<1>6. QED
  BY <1>2, <1>3, <1>4, <1>5, SameDefinitionsKeeps
  DEF IInv, TypeOK, RemoveSubtree, SameDefinitions

LEMMA RemoveSubtreeAbortsKeeps ==
  ASSUME IInv, NEW s \in Scopes, RemoveSubtreeAborts(s)
  PROVE  IInv'
<1>1. PICK Gone \in SUBSET InstancesUnder(s) : ForgetInstances(Gone)
  BY DEF RemoveSubtreeAborts
<1>2. /\ instances' \in [Instances -> RecordOrNone]
      /\ user_properties' \in [Instances -> PropsOrNone]
      /\ components' \in [Instances -> PropsOrNone]
      /\ \A i \in Instances : instances'[i] # None =>
           i \notin Gone /\ instances'[i] = instances[i]
  BY <1>1, ForgetInstancesTypes DEF IInv
<1>3. InstancesDefined'
  BY <1>2 DEF IInv, TypeOK, InstancesDefined, RemoveSubtreeAborts, Recorded, Installed,
     definitionVars
<1>4. QED
  BY <1>2, <1>3, SameDefinitionsKeeps
  DEF IInv, TypeOK, RemoveSubtreeAborts, SameDefinitions, definitionVars, Shrinks

-----------------------------------------------------------------------------
LEMMA CreateKeeps ==
  ASSUME IInv, NEW i \in Instances, NEW d \in Definitions, NEW s \in Scopes,
         NEW p \in Props, NEW enabled \in BOOLEAN, NEW saved \in BOOLEAN,
         Create(i, d, s, p, enabled, saved)
  PROVE  IInv'
<1> DEFINE record == [def |-> d, scope |-> s, props |-> p, enabled |-> enabled,
                      status |-> IF enabled THEN "active" ELSE "disabled"]
<1>1. record \in Record
  BY DEF Record, Status
<1>2. /\ instances' \in [Instances -> RecordOrNone]
      /\ user_properties' \in [Instances -> PropsOrNone]
      /\ components' \in [Instances -> PropsOrNone]
  BY <1>1 DEF IInv, TypeOK, Create, RecordOrNone, PropsOrNone
<1>3. InstancesDefined'
  BY <1>1 DEF IInv, TypeOK, InstancesDefined, Create, Recorded, Installed, definitionVars
<1>4. Saves \/ Shrinks
  BY DEF IInv, TypeOK, Create, PersistState, Saves, Shrinks, definitionVars
<1>5. QED
  BY <1>2, <1>3, <1>4, SameDefinitionsKeeps
  DEF IInv, TypeOK, Create, SameDefinitions

LEMMA DeleteKeeps ==
  ASSUME IInv, NEW i \in Instances, NEW built \in BOOLEAN, NEW saved \in BOOLEAN,
         Delete(i, built, saved)
  PROVE  IInv'
<1>0. instances[i] \in Record
  BY DEF IInv, TypeOK, Delete, Recorded, RecordOrNone
<1>1. /\ instances' \in [Instances -> RecordOrNone]
      /\ user_properties' \in [Instances -> PropsOrNone]
      /\ components' \in [Instances -> PropsOrNone]
      /\ \A j \in Instances : instances'[j] # None => instances'[j] = instances[j]
  <2>1. CASE saved \/ ~built
    BY <2>1, ForgetInstancesTypes DEF Delete, IInv
  <2>2. CASE ~(saved \/ ~built)
    BY <2>2, <1>0 DEF Delete, IInv, TypeOK, PropsOrNone, Record
  <2>3. QED
    BY <2>1, <2>2
<1>2. InstancesDefined'
  BY <1>1 DEF IInv, TypeOK, InstancesDefined, Delete, Recorded, Installed, definitionVars
<1>3. Saves \/ Shrinks
  BY <1>1 DEF Delete, PersistState, Saves, Shrinks, definitionVars
<1>4. QED
  BY <1>1, <1>2, <1>3, SameDefinitionsKeeps
  DEF IInv, TypeOK, Delete, SameDefinitions

LEMMA ReconfigureKeeps ==
  ASSUME IInv, NEW i \in Instances, NEW base \in PropsOrNone, NEW p \in Props,
         NEW enabled \in BOOLEAN, NEW saved \in BOOLEAN,
         Reconfigure(i, base, p, enabled, saved)
  PROVE  IInv'
<1> DEFINE cur  == instances[i]
           user == NewUser(base, p)
           new  == [cur EXCEPT !.props = user, !.enabled = enabled,
                               !.status = IF enabled THEN "active" ELSE "disabled"]
<1>1. cur \in Record /\ user \in Props
  BY ConstantsAssumption
  DEF IInv, TypeOK, Reconfigure, Recorded, RecordOrNone, PropsOrNone, NewUser, Merge
<1>2. new \in Record /\ new.def = cur.def /\ new.scope = cur.scope
  BY <1>1 DEF Record, Status
<1>3. /\ \/ instances' = [instances EXCEPT ![i] = new]
         \/ instances' = instances
      /\ user_properties' \in [Instances -> PropsOrNone]
      /\ components' \in [Instances -> PropsOrNone]
  BY <1>1 DEF IInv, TypeOK, Reconfigure, PropsOrNone, Record
<1>4. instances' \in [Instances -> RecordOrNone]
  BY <1>2, <1>3 DEF IInv, TypeOK, RecordOrNone
<1>5. InstancesDefined'
  BY <1>2, <1>3
  DEF IInv, TypeOK, InstancesDefined, Reconfigure, Recorded, Installed, definitionVars
<1>6. Saves \/ Shrinks
  BY DEF Reconfigure, PersistState, Saves, Shrinks, definitionVars
<1>7. QED
  BY <1>3, <1>4, <1>5, <1>6, SameDefinitionsKeeps
  DEF IInv, TypeOK, Reconfigure, SameDefinitions

LEMMA ReconfigureRaisesKeeps ==
  ASSUME IInv, NEW i \in Instances, NEW base \in PropsOrNone, NEW p \in Props,
         NEW enabled \in BOOLEAN, ReconfigureRaises(i, base, p, enabled)
  PROVE  IInv'
<1>1. InstancesDefined'
  BY DEF IInv, InstancesDefined, ReconfigureRaises, Recorded, Installed, definitionVars
<1>2. QED
  BY <1>1, SameDefinitionsKeeps
  DEF IInv, TypeOK, ReconfigureRaises, SameDefinitions, PropsOrNone, Shrinks, definitionVars

LEMMA UpdateKeeps ==
  ASSUME IInv, NEW i \in Instances, NEW p \in Props, NEW enabled \in BOOLEAN,
         NEW saved \in BOOLEAN, Update(i, p, enabled, saved)
  PROVE  IInv'
<1>1. user_properties[i] \in PropsOrNone
  BY DEF IInv, TypeOK
<1>2. QED
  BY <1>1, ReconfigureKeeps, ReconfigureRaisesKeeps DEF Update

LEMMA ApplyConfigKeeps ==
  ASSUME IInv, NEW i \in Instances, NEW p \in Overrides, NEW enabled \in BOOLEAN,
         NEW saved \in BOOLEAN, ApplyConfig(i, p, enabled, saved)
  PROVE  IInv'
<1>1. NoProps \in PropsOrNone /\ p \in Props
  BY ConstantsAssumption DEF PropsOrNone
<1>2. QED
  BY <1>1, ReconfigureKeeps, ReconfigureRaisesKeeps DEF ApplyConfig

LEMMA EnsureKeeps ==
  ASSUME IInv, NEW d \in Builtin, NEW s \in BuiltinScopes, NEW p \in Props,
         NEW enabled \in BOOLEAN, NEW saved \in BOOLEAN, Ensure(d, s, p, enabled, saved)
  PROVE  IInv'
<1> DEFINE matching == {i \in InstancesOf(d) : instances[i].scope = s}
<1>1. d \in Definitions /\ s \in Scopes
  BY ConstantsAssumption
<1>2. CASE matching # {}
  <2>1. PICK i \in matching : Update(i, p, enabled, saved)
    BY <1>2 DEF Ensure
  <2>2. i \in Instances
    BY DEF InstancesOf, Recorded
  <2>3. QED
    BY <2>1, <2>2, UpdateKeeps
<1>3. CASE matching = {}
  <2>1. PICK i \in Instances : Create(i, d, s, p, enabled, saved)
    BY <1>3 DEF Ensure
  <2>2. QED
    BY <1>1, <2>1, CreateKeeps
<1>4. QED
  BY <1>2, <1>3

-----------------------------------------------------------------------------
\* restore rebuilds a memory that agrees with itself from a closed snapshot.
LEMMA StartKeeps ==
  ASSUME IInv, NEW Broken \in SUBSET Instances, Start(Broken)
  PROVE  IInv'
<1> USE ConstantsAssumption
<1> DEFINE stored == {d \in Definitions : store.plugins[d] # None}
<1>1. /\ store.scopes \subseteq Scopes
      /\ store.plugins \in [Definitions -> VersionOrNone]
      /\ store.instances \in [Instances -> RecordOrNone]
      /\ packaged \in [Definitions -> VersionOrNone]
  BY DEF IInv, TypeOK
<1>2. plugins' = store.plugins /\ Installed' = stored
  BY DEF Start, Installed
<1>3. /\ instances' \in [Instances -> RecordOrNone]
      /\ \A i \in Instances : instances'[i] # None =>
           /\ i \in Persisted
           /\ instances'[i].def = store.instances[i].def
           /\ instances'[i].scope = store.instances[i].scope
  <2>1. \A i \in Restorable : store.instances[i] \in Record /\ i \in Persisted
    BY <1>1 DEF Restorable, Persisted, RecordOrNone
  <2>2. \A i \in Restorable, st \in Status :
          [store.instances[i] EXCEPT !.status = st] \in Record
    BY <2>1 DEF Record
  <2>3. /\ DOMAIN instances' = Instances
        /\ instances' = [i \in Instances |-> instances'[i]]
        /\ \A i \in Instances :
             \/ instances'[i] = None
             \/ /\ i \in Restorable
                /\ \E st \in Status : instances'[i] = [store.instances[i] EXCEPT !.status = st]
    BY DEF Start, Status
  <2>4. \A i \in Instances : instances'[i] \in RecordOrNone
    BY <2>2, <2>3 DEF RecordOrNone
  <2>5. \A i \in Restorable, st \in Status :
          LET r == [store.instances[i] EXCEPT !.status = st]
          IN  r.def = store.instances[i].def /\ r.scope = store.instances[i].scope
    BY <2>1 DEF Record
  <2>6. instances' \in [Instances -> RecordOrNone]
    BY <2>3, <2>4
  <2>7. ASSUME NEW i \in Instances, instances'[i] # None
        PROVE  /\ i \in Persisted
               /\ instances'[i].def = store.instances[i].def
               /\ instances'[i].scope = store.instances[i].scope
    <3>1. /\ i \in Restorable
          /\ \E st \in Status : instances'[i] = [store.instances[i] EXCEPT !.status = st]
      BY <2>3, <2>7
    <3>2. QED
      BY <2>1, <2>5, <3>1
  <2>8. QED
    BY <2>6, <2>7
<1>4. \A i \in Instances : i \in Persisted => store.instances[i].props \in Props
  BY <1>1 DEF Persisted, RecordOrNone, Record
<1>5. /\ user_properties' \in [Instances -> PropsOrNone]
      /\ components' \in [Instances -> PropsOrNone]
  BY <1>4 DEF Start, Restorable, PropsOrNone
<1>6. registry' \in [Factories -> Definitions \union {None}]
  BY DEF Start
<1>7. TypeOK'
  <2>1. /\ phase' = "up" /\ packaged' = packaged
        /\ scopes' = store.scopes \union BuiltinScopes
        /\ module_refs' \in [Modules -> SUBSET Definitions]
        /\ bundles' \subseteq Modules
        /\ store' = Snapshot(scopes', plugins', instances')
    BY DEF Start, Modules
  <2>2. scopes' \subseteq Scopes
    BY <1>1, <2>1
  <2> QED
    BY <1>1, <1>2, <1>3, <1>5, <1>6, <2>1, <2>2, SnapshotType DEF TypeOK
<1>8. DefinitionsAgree'
  <2>1. ASSUME NEW d \in Definitions
        PROVE  d \in stored <=> registry'[FactoryOf[d]] = d
    <3>1. FactoryOf[d] \in Factories
      BY DEF Factories
    <3>2. \A e \in stored : d \in stored /\ FactoryOf[e] = FactoryOf[d] => e = d
      BY DEF IInv, StoreClosed
    <3>3. QED
      BY <3>1, <3>2 DEF Start
  <2>2. \A m \in Modules : module_refs'[m] = {d \in stored : ModuleOf[d] = m}
    BY DEF Start
  <2>3. bundles' = {ModuleOf[d] : d \in stored}
    BY DEF Start
  <2>4. QED
    BY <1>2, <2>1, <2>2, <2>3 DEF DefinitionsAgree
<1>9. InstancesDefined'
  <2>1. scopes' = store.scopes \union BuiltinScopes
    BY DEF Start
  <2>2. \A s \in scopes' : Ancestors[s] \subseteq scopes'
    BY <2>1, TreeAssumption DEF IInv, StoreClosed
  <2>3. \A i \in Persisted : /\ store.instances[i].def \in stored
                            /\ store.instances[i].scope \in store.scopes
    BY <1>1 DEF IInv, StoreClosed, Persisted, RecordOrNone, Record
  <2>4. QED
    BY <1>2, <1>3, <2>1, <2>2, <2>3 DEF InstancesDefined, Recorded
<1>10. Saves /\ phase' = "up"
  BY DEF Start, Saves
<1>11. QED
  BY <1>7, <1>8, <1>9, <1>10, PersistStateKeeps DEF MemoryOK

\* A start-up that raises, a change of the environment and a stuttering step
\* leave memory and store alone.
LEMMA QuietKeeps ==
  ASSUME IInv, packaged' \in [Definitions -> VersionOrNone],
         UNCHANGED <<definitionVars, scopes, instanceVars, store>>,
         \/ phase' = phase
         \/ phase # "up" /\ phase' \in {"down", "aborted"}
  PROVE  IInv'
  BY DEF IInv, TypeOK, DefinitionsAgree, InstancesDefined, StoreClosed, MemoryIsDurable,
         DownIsEmpty, Installed, Recorded, Persisted, definitionVars, instanceVars

LEMMA CrashKeeps ==
  ASSUME IInv, Crash
  PROVE  IInv'
<1> USE ConstantsAssumption
<1>1. TypeOK'
  BY DEF IInv, TypeOK, Crash, Stop, VersionOrNone, RecordOrNone, PropsOrNone
<1>2. Installed' = {} /\ Recorded' = {}
  BY DEF Crash, Stop, Installed, Recorded
<1>3. DefinitionsAgree'
  BY <1>2 DEF DefinitionsAgree, Crash, Stop, Factories
<1>4. InstancesDefined' /\ MemoryIsDurable' /\ DownIsEmpty'
  BY <1>2 DEF InstancesDefined, MemoryIsDurable, DownIsEmpty, Crash, Stop
<1>5. StoreClosed'
  BY DEF IInv, StoreClosed, Persisted, Crash
<1>6. QED
  BY <1>1, <1>3, <1>4, <1>5 DEF IInv

LEMMA InitHolds == Init => IInv
<1> SUFFICES ASSUME Init PROVE IInv
  OBVIOUS
<1> USE ConstantsAssumption
<1>1. TypeOK
  BY SnapshotType
     DEF Init, TypeOK, EmptySnapshot, VersionOrNone, RecordOrNone, PropsOrNone
<1>2. Installed = {} /\ Recorded = {} /\ Persisted = {}
  BY DEF Init, Installed, Recorded, Persisted, EmptySnapshot, Snapshot, Saved
<1>3. DefinitionsAgree
  BY <1>2 DEF DefinitionsAgree, Init, Factories
<1>4. InstancesDefined /\ MemoryIsDurable /\ DownIsEmpty
  BY <1>2 DEF InstancesDefined, MemoryIsDurable, DownIsEmpty, Init
<1>5. StoreClosed
  BY <1>2 DEF StoreClosed, Init, EmptySnapshot, Snapshot
<1>6. QED
  BY <1>1, <1>3, <1>4, <1>5 DEF IInv

LEMMA NextKeeps == IInv /\ [Next]_vars => IInv'
<1> SUFFICES ASSUME IInv, [Next]_vars PROVE IInv'
  OBVIOUS
<1>1. CASE DefinitionNext
  BY <1>1, InstallKeeps, UninstallKeeps DEF DefinitionNext
<1>2. CASE ScopeNext
  BY <1>2, AddScopeKeeps, RemoveScopeKeeps, RemoveSubtreeKeeps, RemoveSubtreeAbortsKeeps
  DEF ScopeNext
<1>3. CASE InstanceNext
  BY <1>3, CreateKeeps, DeleteKeeps, UpdateKeeps, ApplyConfigKeeps, EnsureKeeps
  DEF InstanceNext
<1>4. CASE ProcessNext
  <2>1. CASE \E Broken \in SUBSET Instances : Start(Broken)
    BY <2>1, StartKeeps
  <2>2. CASE StartAborts
    BY <2>2, QuietKeeps DEF StartAborts, IInv, TypeOK
  <2>3. CASE Crash
    BY <2>3, CrashKeeps
  <2>4. ASSUME NEW d \in Definitions, NEW v \in Versions \union {None}, Repackage(d, v)
        PROVE  IInv'
    <3>1. packaged' \in [Definitions -> VersionOrNone]
      BY <2>4 DEF Repackage, IInv, TypeOK, VersionOrNone
    <3>2. QED
      BY <2>4, <3>1, QuietKeeps DEF Repackage
  <2>5. QED
    BY <1>4, <2>1, <2>2, <2>3, <2>4 DEF ProcessNext
<1>5. CASE UNCHANGED vars
  BY <1>5, QuietKeeps DEF vars, IInv, TypeOK, definitionVars, instanceVars
<1>6. QED
  BY <1>1, <1>2, <1>3, <1>4, <1>5 DEF Next

\* The inductive invariant holds in every reachable state.
THEOREM Invariance == Spec => []IInv
  BY InitHolds, NextKeeps, PTL DEF Spec

\* The variables keep the types the code gives them.
THEOREM TypeCorrect == Spec => []TypeOK
  BY Invariance, PTL DEF IInv

\* Registry, definitions, bundles and bundle references agree after every
\* installation, removal, rollback and restart.
THEOREM DefinitionsAlwaysAgree == Spec => []DefinitionsAgree
  BY Invariance, PTL DEF IInv

\* uninstall_plugin and remove_scope never leave an instance behind whose
\* definition or scope is gone.
THEOREM InstancesAlwaysDefined == Spec => []InstancesDefined
  BY Invariance, PTL DEF IInv

\* The store never holds a snapshot that refers outside itself.
THEOREM StoreAlwaysClosed == Spec => []StoreClosed
  BY Invariance, PTL DEF IInv

\* Whatever fails, memory never shows what a crash would lose.
THEOREM MemoryAlwaysDurable == Spec => []MemoryIsDurable
  BY Invariance, PTL DEF IInv

-----------------------------------------------------------------------------
(* Records and components, while the store accepts what it is given *)

\* A component, its record and the user's part of the properties agree, and
\* what runs is enabled. ComponentsAreRecorded is not inductive by itself:
\* update_instance compares with _user_properties, not with the record, and
\* leaves the component alone when it sees no change.
ComponentsOK ==
  /\ ComponentsAreRecorded
  /\ \A i \in Instances : Living(i) => user_properties[i] = components[i]
  /\ \A i \in Recorded : Active(i) => instances[i].enabled

\* The same of one instance, in the next state.
ComponentOKNext(i) ==
  /\ components'[i] # None =>
       /\ instances'[i] # None
       /\ instances'[i].status = "active"
       /\ instances'[i].props = components'[i]
       /\ user_properties'[i] = components'[i]
  /\ instances'[i] # None /\ instances'[i].status = "active" => instances'[i].enabled

\* What the run ManagerComponents assumes of the faults: no save is refused
\* (with one refused the component of a reverted update stays), and no
\* applied configuration carries the empty properties (apply_config would
\* then leave the component and empty the record).
EverySaveAccepted == "save" \notin Faults
NoEmptyOverride   == NoProps \notin Overrides

LEMMA ComponentsOKNext ==
  ASSUME \A i \in Instances : ComponentOKNext(i)
  PROVE  ComponentsOK'
  BY DEF ComponentOKNext, ComponentsOK, ComponentsAreRecorded, Living, Active, Recorded

\* An instance the step does not touch keeps its agreement.
LEMMA UntouchedInstance ==
  ASSUME ComponentsOK, NEW i \in Instances, instances'[i] = instances[i],
         user_properties'[i] = user_properties[i], components'[i] = components[i]
  PROVE  ComponentOKNext(i)
  BY DEF ComponentOKNext, ComponentsOK, ComponentsAreRecorded, Living, Active, Recorded

LEMMA UntouchedInstances ==
  ASSUME ComponentsOK, UNCHANGED instanceVars
  PROVE  ComponentsOK'
  BY UntouchedInstance, ComponentsOKNext DEF instanceVars

\* _remove_instance_record kills the component of every record it forgets:
\* none runs for a record that is not active.
LEMMA ForgettingKeepsComponents ==
  ASSUME ComponentsOK, NEW Gone, ForgetInstances(Gone)
  PROVE  ComponentsOK'
<1>1. ASSUME NEW i \in Instances PROVE ComponentOKNext(i)
  <2>1. CASE i \in Gone
    <3>1. instances'[i] = None /\ components'[i] = None
      BY <2>1 DEF ForgetInstances, ComponentsOK, ComponentsAreRecorded, Living
    <3> QED
      BY <3>1 DEF ComponentOKNext
  <2>2. CASE i \notin Gone
    BY <2>2, UntouchedInstance DEF ForgetInstances
  <2> QED
    BY <2>1, <2>2
<1> QED
  BY <1>1, ComponentsOKNext

LEMMA CreateKeepsComponents ==
  ASSUME EverySaveAccepted, IInv, ComponentsOK, NEW i \in Instances, NEW d \in Definitions,
         NEW s \in Scopes, NEW p \in Props, NEW enabled \in BOOLEAN, NEW saved \in BOOLEAN,
         Create(i, d, s, p, enabled, saved)
  PROVE  ComponentsOK'
<1> DEFINE record == [def |-> d, scope |-> s, props |-> p, enabled |-> enabled,
                      status |-> IF enabled THEN "active" ELSE "disabled"]
<1>1. saved
  BY DEF Create, PersistState, May, EverySaveAccepted
<1>2. /\ instances' = [instances EXCEPT ![i] = record]
      /\ user_properties' = [user_properties EXCEPT ![i] = p]
      /\ components' = IF enabled THEN [components EXCEPT ![i] = p] ELSE components
      /\ components[i] = None
  BY <1>1 DEF Create, Fresh, Living
<1>3. p # None /\ record # None
  <2>1. record \in Record
    BY DEF Record, Status
  <2> QED
    BY <2>1, ConstantsAssumption, RecordAssumption
<1>4. ASSUME NEW j \in Instances PROVE ComponentOKNext(j)
  <2>1. CASE j = i
    <3>1. instances'[i] = record
      BY <1>2 DEF IInv, TypeOK
    <3>2. user_properties'[i] = p /\ components'[i] = IF enabled THEN p ELSE None
      BY <1>2 DEF IInv, TypeOK
    <3> QED
      BY <1>3, <2>1, <3>1, <3>2 DEF ComponentOKNext
  <2>2. CASE j # i
    BY <1>2, <2>2, UntouchedInstance DEF IInv, TypeOK
  <2> QED
    BY <2>1, <2>2
<1> QED
  BY <1>4, ComponentsOKNext

LEMMA DeleteKeepsComponents ==
  ASSUME EverySaveAccepted, ComponentsOK, NEW i \in Instances, NEW built \in BOOLEAN,
         NEW saved \in BOOLEAN, Delete(i, built, saved)
  PROVE  ComponentsOK'
<1>1. saved
  BY DEF Delete, PersistState, May, EverySaveAccepted
<1> QED
  BY <1>1, ForgettingKeepsComponents DEF Delete

\* base is what update_instance compares with: the user's properties in an
\* update, the empty ones in apply_config. Where it finds nothing to change
\* for a running instance, the component already has the new properties.
LEMMA ReconfigureKeepsComponents ==
  ASSUME EverySaveAccepted, IInv, ComponentsOK, NEW i \in Instances,
         NEW base \in PropsOrNone, NEW p \in Props, NEW enabled \in BOOLEAN,
         NEW saved \in BOOLEAN,
         base = user_properties[i] \/ NewUser(base, p) # base,
         Reconfigure(i, base, p, enabled, saved)
  PROVE  ComponentsOK'
<1> DEFINE cur  == instances[i]
           user == NewUser(base, p)
           new  == [cur EXCEPT !.props = user, !.enabled = enabled,
                               !.status = IF enabled THEN "active" ELSE "disabled"]
<1>1. saved
  BY DEF Reconfigure, PersistState, May, EverySaveAccepted
<1>2. cur \in Record /\ user \in Props
  BY ConstantsAssumption
  DEF IInv, TypeOK, Reconfigure, Recorded, RecordOrNone, PropsOrNone, NewUser, Merge
<1>3. /\ instances' = [instances EXCEPT ![i] = new]
      /\ user_properties' = [user_properties EXCEPT ![i] = user]
      /\ components' =
           IF Builds(i, base, user, enabled) THEN [components EXCEPT ![i] = user]
           ELSE IF Kills(i, base, user, enabled) THEN [components EXCEPT ![i] = None]
           ELSE components
  BY <1>1 DEF Reconfigure
<1>4. /\ new.props = user /\ new.enabled = enabled
      /\ new.status = IF enabled THEN "active" ELSE "disabled"
      /\ new # None
  BY <1>2, RecordAssumption DEF Record, Status
<1>5. /\ instances'[i] = new
      /\ user_properties'[i] = user
      /\ components'[i] = IF Builds(i, base, user, enabled) THEN user
                          ELSE IF Kills(i, base, user, enabled) THEN None
                          ELSE components[i]
  BY <1>3 DEF IInv, TypeOK
<1>6. \A j \in Instances : j # i =>
        /\ instances'[j] = instances[j]
        /\ user_properties'[j] = user_properties[j]
        /\ components'[j] = components[j]
  BY <1>3 DEF IInv, TypeOK
<1>7. ComponentOKNext(i)
  <2>1. CASE enabled
    <3>1. CASE Builds(i, base, user, enabled)
      BY <1>4, <1>5, <2>1, <3>1 DEF ComponentOKNext
    <3>2. CASE ~Builds(i, base, user, enabled)
      <4>1. user = base /\ ~Kills(i, base, user, enabled)
        BY <2>1, <3>2 DEF Builds, Kills, Changed
      <4>2. user = user_properties[i]
        BY <4>1
      <4>3. components'[i] = components[i]
        BY <1>5, <3>2, <4>1
      <4>4. components[i] # None => components[i] = user
        BY <4>2 DEF ComponentsOK, Living
      <4> QED
        BY <1>4, <1>5, <2>1, <4>3, <4>4 DEF ComponentOKNext
    <3> QED
      BY <3>1, <3>2
  <2>2. CASE ~enabled
    <3>1. components'[i] = IF Active(i) THEN None ELSE components[i]
      BY <1>5, <2>2 DEF Builds, Kills
    <3>2. components'[i] = None
      BY <3>1 DEF ComponentsOK, ComponentsAreRecorded, Living
    <3> QED
      BY <1>4, <1>5, <2>2, <3>2 DEF ComponentOKNext
  <2> QED
    BY <2>1, <2>2
<1> QED
  BY <1>6, <1>7, UntouchedInstance, ComponentsOKNext

\* When iPOPO raises, the instance runs no component afterwards: it was not
\* running, or the kill that precedes the build went through.
LEMMA ReconfigureRaisesKeepsComponents ==
  ASSUME IInv, ComponentsOK, NEW i \in Instances, NEW base, NEW p \in Props,
         NEW enabled \in BOOLEAN, ReconfigureRaises(i, base, p, enabled)
  PROVE  ComponentsOK'
<1> DEFINE user == NewUser(base, p)
<1>1. Living(i) => Active(i) /\ i \in Recorded
  BY DEF ComponentsOK, ComponentsAreRecorded
<1>2. Kills(i, base, user, enabled) \/ ~Living(i)
  BY <1>1 DEF ReconfigureRaises, IpopoRefuses, Kills, Builds, Active
<1>3. components'[i] = None
  BY <1>2 DEF ReconfigureRaises, Living, IInv, TypeOK
<1>4. instances' = instances
  BY DEF ReconfigureRaises
<1>5. ComponentOKNext(i)
  BY <1>3, <1>4 DEF ComponentOKNext, ComponentsOK, Active, Recorded
<1>6. \A j \in Instances : j # i =>
        /\ user_properties'[j] = user_properties[j]
        /\ components'[j] = components[j]
  BY DEF ReconfigureRaises, IInv, TypeOK
<1> QED
  BY <1>4, <1>5, <1>6, UntouchedInstance, ComponentsOKNext

LEMMA UpdateKeepsComponents ==
  ASSUME EverySaveAccepted, IInv, ComponentsOK, NEW i \in Instances, NEW p \in Props,
         NEW enabled \in BOOLEAN, NEW saved \in BOOLEAN, Update(i, p, enabled, saved)
  PROVE  ComponentsOK'
<1>1. user_properties[i] \in PropsOrNone
  BY DEF IInv, TypeOK
<1> QED
  BY <1>1, ReconfigureKeepsComponents, ReconfigureRaisesKeepsComponents DEF Update

LEMMA ApplyConfigKeepsComponents ==
  ASSUME EverySaveAccepted, NoEmptyOverride, IInv, ComponentsOK, NEW i \in Instances,
         NEW p \in Overrides, NEW enabled \in BOOLEAN, NEW saved \in BOOLEAN,
         ApplyConfig(i, p, enabled, saved)
  PROVE  ComponentsOK'
<1>1. NoProps \in PropsOrNone /\ p \in Props
  BY ConstantsAssumption DEF PropsOrNone
<1>2. NewUser(NoProps, p) # NoProps
  BY DEF NoEmptyOverride, NewUser, Merge
<1> QED
  BY <1>1, <1>2, ReconfigureKeepsComponents, ReconfigureRaisesKeepsComponents
  DEF ApplyConfig

LEMMA EnsureKeepsComponents ==
  ASSUME EverySaveAccepted, IInv, ComponentsOK, NEW d \in Builtin, NEW s \in BuiltinScopes,
         NEW p \in Props, NEW enabled \in BOOLEAN, NEW saved \in BOOLEAN,
         Ensure(d, s, p, enabled, saved)
  PROVE  ComponentsOK'
<1> DEFINE matching == {i \in InstancesOf(d) : instances[i].scope = s}
<1>1. d \in Definitions /\ s \in Scopes
  BY ConstantsAssumption
<1>2. CASE matching # {}
  <2>1. PICK i \in matching : Update(i, p, enabled, saved)
    BY <1>2 DEF Ensure
  <2>2. i \in Instances
    BY DEF InstancesOf, Recorded
  <2> QED
    BY <2>1, <2>2, UpdateKeepsComponents
<1>3. CASE matching = {}
  <2>1. PICK i \in Instances : Create(i, d, s, p, enabled, saved)
    BY <1>3 DEF Ensure
  <2> QED
    BY <1>1, <2>1, CreateKeepsComponents
<1> QED
  BY <1>2, <1>3

\* restore rebuilds a component with the properties it records, and marks
\* "failed" what it cannot rebuild.
LEMMA StartKeepsComponents ==
  ASSUME IInv, NEW Broken \in SUBSET Instances, Start(Broken)
  PROVE  ComponentsOK'
<1> DEFINE rebuilt == {i \in Restorable : store.instances[i].enabled}
<1>1. \A i \in Restorable : i \in Instances /\ store.instances[i] \in Record
  BY DEF IInv, TypeOK, Restorable, Persisted, RecordOrNone
<1>2. ASSUME NEW i \in Instances PROVE ComponentOKNext(i)
  <2>1. CASE i \notin Restorable
    BY <2>1 DEF Start, ComponentOKNext
  <2>2. CASE i \in Restorable
    <3> DEFINE was == store.instances[i]
               status == IF i \notin rebuilt THEN "disabled"
                         ELSE IF i \in Broken THEN "failed" ELSE "active"
    <3>1. instances'[i] = [was EXCEPT !.status = status]
      BY <2>2 DEF Start
    <3>2. /\ instances'[i].status = status
          /\ instances'[i].props = was.props
          /\ instances'[i].enabled = was.enabled
          /\ instances'[i] # None
      <4>1. was \in Record /\ status \in Status
        BY <1>1, <2>2 DEF Status
      <4>2. [was EXCEPT !.status = status] \in Record
        BY <4>1 DEF Record
      <4> QED
        BY <3>1, <4>1, <4>2, RecordAssumption DEF Record
    <3>3. /\ components'[i] = IF i \in rebuilt \ Broken THEN was.props ELSE None
          /\ user_properties'[i] = IF i \in rebuilt THEN was.props ELSE None
      BY DEF Start
    <3> QED
      BY <3>2, <3>3 DEF ComponentOKNext
  <2> QED
    BY <2>1, <2>2
<1> QED
  BY <1>2, ComponentsOKNext

LEMMA InitComponents == Init => ComponentsOK
  BY DEF Init, ComponentsOK, ComponentsAreRecorded, Living, Recorded

LEMMA NextKeepsComponents ==
  ASSUME EverySaveAccepted, NoEmptyOverride, IInv, ComponentsOK, [Next]_vars
  PROVE  ComponentsOK'
<1>1. CASE DefinitionNext
  BY <1>1, UntouchedInstances DEF DefinitionNext, Install, Uninstall
<1>2. CASE ScopeNext
  <2>1. ASSUME NEW s \in Scopes, NEW saved \in BOOLEAN,
               AddScope(s) \/ RemoveScope(s, saved)
        PROVE  ComponentsOK'
    BY <2>1, UntouchedInstances DEF AddScope, RemoveScope
  <2>2. ASSUME NEW s \in Scopes, NEW saved \in BOOLEAN,
               RemoveSubtree(s, saved) \/ RemoveSubtreeAborts(s)
        PROVE  ComponentsOK'
    BY <2>2, ForgettingKeepsComponents DEF RemoveSubtree, RemoveSubtreeAborts
  <2> QED
    BY <1>2, <2>1, <2>2 DEF ScopeNext
<1>3. CASE InstanceNext
  BY <1>3, CreateKeepsComponents, DeleteKeepsComponents, UpdateKeepsComponents,
     ApplyConfigKeepsComponents, EnsureKeepsComponents
  DEF InstanceNext
<1>4. CASE ProcessNext
  <2>1. CASE \E Broken \in SUBSET Instances : Start(Broken)
    BY <2>1, StartKeepsComponents
  <2>2. CASE Crash
    BY <2>2 DEF Crash, Stop, ComponentsOK, ComponentsAreRecorded, Living, Recorded
  <2>3. CASE StartAborts
    BY <2>3, UntouchedInstances DEF StartAborts
  <2>4. ASSUME NEW d \in Definitions, NEW v \in Versions \union {None}, Repackage(d, v)
        PROVE  ComponentsOK'
    BY <2>4, UntouchedInstances DEF Repackage
  <2> QED
    BY <1>4, <2>1, <2>2, <2>3, <2>4 DEF ProcessNext
<1>5. CASE UNCHANGED vars
  BY <1>5, UntouchedInstances DEF vars
<1> QED
  BY <1>1, <1>2, <1>3, <1>4, <1>5 DEF Next

LEMMA ComponentsInvariance ==
  ASSUME EverySaveAccepted, NoEmptyOverride
  PROVE  Spec => [](IInv /\ ComponentsOK)
<1>1. Init => IInv /\ ComponentsOK
  BY InitHolds, InitComponents
<1>2. IInv /\ ComponentsOK /\ [Next]_vars => (IInv /\ ComponentsOK)'
  BY NextKeeps, NextKeepsComponents
<1> QED
  BY <1>1, <1>2, PTL DEF Spec

\* While the store accepts what it is given, no component runs but for an
\* active record with the same properties: create_instance, update_instance,
\* apply_config, delete_instance, remove_scope and restore leak none, also
\* when iPOPO refuses to build one.
THEOREM ComponentsAlwaysRecorded ==
  ASSUME EverySaveAccepted, NoEmptyOverride
  PROVE  Spec => []ComponentsAreRecorded
<1>1. IInv /\ ComponentsOK => ComponentsAreRecorded
  BY DEF ComponentsOK
<1> QED
  BY <1>1, ComponentsInvariance, PTL

\* What a restart rebuilds of a running instance, whatever is in its
\* properties: the instance, enabled, with what _json_safe keeps of them.
RestartRebuildsConverted ==
  \A i \in Instances : Living(i) =>
    i \in Persisted /\ store.instances[i].enabled
                   /\ store.instances[i].props = JsonSafe[components[i]]

LEMMA DurableComponents == IInv /\ ComponentsOK => RestartRebuildsConverted
<1> SUFFICES ASSUME IInv, ComponentsOK, NEW i \in Instances, Living(i)
             PROVE  /\ i \in Persisted /\ store.instances[i].enabled
                    /\ store.instances[i].props = JsonSafe[components[i]]
  BY DEF RestartRebuildsConverted
<1>1. /\ i \in Recorded /\ instances[i].enabled
      /\ instances[i].props = components[i]
  BY DEF ComponentsOK, ComponentsAreRecorded
<1>2. instances[i] \in Record /\ instances[i] # None
  BY <1>1 DEF IInv, TypeOK, RecordOrNone, Recorded
<1>3. store.instances[i] = [instances[i] EXCEPT !.props = JsonSafe[instances[i].props]]
  BY <1>1, <1>2 DEF IInv, MemoryIsDurable, Saved
<1>4. store.instances[i] # None
  BY <1>1, <1>2, SavedRecord DEF IInv, MemoryIsDurable, RecordOrNone
<1> QED
  BY <1>1, <1>2, <1>3, <1>4 DEF Persisted, Record

\* A crash, wherever it falls, changes what runs by no more than the
\* conversion of the properties to JSON.
THEOREM RestartAlwaysRebuildsConverted ==
  ASSUME EverySaveAccepted, NoEmptyOverride
  PROVE  Spec => []RestartRebuildsConverted
  BY ComponentsInvariance, DurableComponents, PTL

\* With JSON values for properties, the converted ones are the same.
THEOREM RestartAlwaysRebuildsWhatRuns ==
  ASSUME EverySaveAccepted, NoEmptyOverride, \A p \in Props : JsonSafe[p] = p
  PROVE  Spec => []RestartRebuildsWhatRuns
<1>1. IInv /\ ComponentsOK => RestartRebuildsWhatRuns
  <2> SUFFICES ASSUME IInv, ComponentsOK PROVE RestartRebuildsWhatRuns
    OBVIOUS
  <2>1. RestartRebuildsConverted
    BY DurableComponents
  <2>2. \A i \in Instances : Living(i) => components[i] \in Props
    BY DEF IInv, TypeOK, Living, PropsOrNone
  <2> QED
    BY <2>1, <2>2 DEF RestartRebuildsConverted, RestartRebuildsWhatRuns
<1> QED
  BY <1>1, ComponentsInvariance, PTL

-----------------------------------------------------------------------------
(* The manager implements the catalog: each action is one of the catalog's *)
(* or leaves it alone.                                                     *)

\* What the catalog says of an entry is not lost when its record is saved.
LEMMA SavedContent ==
  ASSUME NEW r \in RecordOrNone
  PROVE  Content(Saved(r)) = Content(r) /\ Content(r) \in Contents \union {None}
<1>1. CASE r = None
  BY <1>1 DEF Saved, Content
<1>2. CASE r # None
  <2>1. r \in Record /\ JsonSafe[r.props] \in Props
        /\ JsonSafe[JsonSafe[r.props]] = JsonSafe[r.props]
    BY <1>2, ConstantsAssumption, CatalogAssumption DEF RecordOrNone, Record
  <2>2. /\ Saved(r) \in Record
        /\ Saved(r) = [r EXCEPT !.props = JsonSafe[r.props]]
    BY <1>2, <2>1 DEF Saved, Record
  <2>3. /\ Saved(r).def = r.def /\ Saved(r).scope = r.scope
        /\ Saved(r).enabled = r.enabled /\ Saved(r).props = JsonSafe[r.props]
    BY <2>1, <2>2 DEF Record
  <2>4. Saved(r) # None
    BY <2>2, RecordAssumption
  <2>5. Content(r) \in Contents
    BY <1>2, <2>1 DEF Content, Contents, Record
  <2> QED
    BY <1>2, <2>1, <2>3, <2>4, <2>5 DEF Content
<1> QED
  BY <1>1, <1>2

LEMMA SavedEntered ==
  ASSUME NEW S, NEW P \in [Definitions -> VersionOrNone],
         NEW I \in [Instances -> RecordOrNone], NEW s, s = Snapshot(S, P, I)
  PROVE  /\ Entered(s.plugins, s.instances) = Entered(P, I)
         /\ Entered(P, I) \in [CatalogNames -> (Versions \union Contents) \union {None}]
<1>1. /\ s.plugins = P
      /\ \A i \in Instances : Content(s.instances[i]) = Content(I[i])
  BY SavedContent DEF Snapshot
<1>2. \A i \in Instances : Content(I[i]) \in Contents \union {None}
  BY SavedContent
<1> QED
  BY <1>1, <1>2 DEF Entered, CatalogNames, VersionOrNone

\* What is shown, and whether the step that leaves it so has kept it
ShownNow == Entered(plugins, instances)

LEMMA EntersOrKeeps ==
  ASSUME TypeOK, TypeOK', store' = store \/ Saves
  PROVE  /\ ShownNow \in [CatalogNames -> (Versions \union Contents) \union {None}]
         /\ ShownNow' \in [CatalogNames -> (Versions \union Contents) \union {None}]
         /\ store' = store => Entered(store.plugins, store.instances)'
                                = Entered(store.plugins, store.instances)
         /\ Saves => Entered(store.plugins, store.instances)' = ShownNow'
<1>1. ShownNow \in [CatalogNames -> (Versions \union Contents) \union {None}]
  BY SavedEntered DEF TypeOK, ShownNow
<1>2. /\ plugins' \in [Definitions -> VersionOrNone]
      /\ instances' \in [Instances -> RecordOrNone]
  BY DEF TypeOK
<1>3. ShownNow' \in [CatalogNames -> (Versions \union Contents) \union {None}]
  BY <1>2, SavedEntered DEF ShownNow
<1>4. Saves => Entered(store'.plugins, store'.instances) = Entered(plugins', instances')
  BY <1>2, SavedEntered DEF Saves
<1> QED
  BY <1>1, <1>3, <1>4 DEF ShownNow

\* A step after which nothing is shown that was not shown before
LEMMA Removing ==
  ASSUME TypeOK, TypeOK', phase = "up", phase' = "up", store' = store \/ Saves,
         \A d \in Definitions : plugins'[d] \in {plugins[d], None},
         \A i \in Instances : instances'[i] \in {instances[i], None}
  PROVE  Catalog!Next
<1>1. \A n \in CatalogNames : ShownNow'[n] \in {ShownNow[n], None}
  <2>1. TAKE n \in CatalogNames
  <2>2. ShownNow[n] = IF n \in Definitions THEN plugins[n] ELSE Content(instances[n])
    BY DEF ShownNow, Entered
  <2>3. ShownNow'[n] = IF n \in Definitions THEN plugins'[n] ELSE Content(instances'[n])
    BY DEF ShownNow, Entered
  <2>4. n \notin Definitions => n \in Instances
    BY DEF CatalogNames
  <2> QED
    BY <2>2, <2>3, <2>4 DEF Content
<1>2. ShownNow' \in Catalog!Remains(ShownNow)
  BY <1>1, EntersOrKeeps DEF Catalog!Remains
<1>3. Entered(store.plugins, store.instances)'
        \in {Entered(store.plugins, store.instances), ShownNow'}
  BY EntersOrKeeps
<1>4. Catalog!Remove
  BY <1>2, <1>3 DEF Catalog!Remove, ShownNow
<1> QED
  BY <1>4 DEF Catalog!Next

\* A step that changes one entry and saves it
LEMMA Putting ==
  ASSUME TypeOK, TypeOK', phase = "up", phase' = "up", Saves, NEW n \in CatalogNames,
         \A m \in CatalogNames \ {n} : ShownNow'[m] = ShownNow[m], ShownNow'[n] # None
  PROVE  Catalog!Next
<1>1. ShownNow'[n] \in Versions \union Contents
  BY EntersOrKeeps
<1>2. ShownNow' = [ShownNow EXCEPT ![n] = ShownNow'[n]]
  BY EntersOrKeeps
<1>3. Entered(store.plugins, store.instances)' = ShownNow'
  BY EntersOrKeeps
<1>4. Catalog!Put
  BY <1>1, <1>2, <1>3 DEF Catalog!Put, ShownNow
<1> QED
  BY <1>4 DEF Catalog!Next


LEMMA InstallEnters ==
  ASSUME IInv, IInv', NEW d \in Definitions, NEW saved \in BOOLEAN, Install(d, saved)
  PROVE  Catalog!Next
<1>1. /\ TypeOK /\ TypeOK' /\ phase = "up" /\ phase' = "up" /\ instances' = instances
      /\ store' = store \/ Saves
  BY DEF IInv, Install, instanceVars, PersistState, Saves
<1>2. CASE saved
  <2>1. /\ plugins' = [plugins EXCEPT ![d] = packaged[d]] /\ packaged[d] # None /\ Saves
    BY <1>2 DEF Install, PersistState, Saves
  <2>2. \A n \in CatalogNames : ShownNow'[n] = IF n \in Definitions THEN plugins'[n]
                                        ELSE Content(instances[n])
    BY <1>1 DEF ShownNow, Entered
  <2>3. \A n \in CatalogNames : ShownNow[n] = IF n \in Definitions THEN plugins[n]
                                       ELSE Content(instances[n])
    BY DEF ShownNow, Entered
  <2>4. d \in CatalogNames /\ \A n \in CatalogNames \ {d} : ShownNow'[n] = ShownNow[n]
    BY <1>1, <2>1, <2>2, <2>3 DEF TypeOK, CatalogNames
  <2>5. ShownNow'[d] # None
    BY <1>1, <2>1, <2>2, <2>4 DEF TypeOK
  <2> QED
    BY <1>1, <2>1, <2>4, <2>5, Putting
<1>3. CASE ~saved
  <2>1. plugins' = [plugins EXCEPT ![d] = None]
    BY <1>3 DEF Install
  <2>2. \A e \in Definitions : plugins'[e] \in {plugins[e], None}
    BY <1>1, <2>1 DEF TypeOK
  <2> QED
    BY <1>1, <2>2, Removing
<1> QED
  BY <1>2, <1>3

LEMMA UninstallEnters ==
  ASSUME IInv, IInv', NEW d \in Definitions, NEW saved \in BOOLEAN, Uninstall(d, saved)
  PROVE  Catalog!Next
<1>1. /\ TypeOK /\ TypeOK' /\ phase = "up" /\ phase' = "up" /\ instances' = instances
      /\ store' = store \/ Saves
  BY DEF IInv, Uninstall, instanceVars, PersistState, Saves
<1>2. \A e \in Definitions : plugins'[e] \in {plugins[e], None}
  BY <1>1 DEF Uninstall, TypeOK
<1> QED
  BY <1>1, <1>2, Removing

\* A step about one instance: its record is written and saved, or at most lost.
LEMMA RecordEnters ==
  ASSUME TypeOK, TypeOK', phase = "up", SameDefinitions, NEW i \in Instances,
         \A j \in Instances \ {i} : instances'[j] = instances[j],
         \/ Saves
         \/ store' = store /\ instances'[i] \in {instances[i], None}
  PROVE  Catalog!Next
<1>1. phase' = "up" /\ plugins' = plugins
  BY DEF SameDefinitions, definitionVars
<1>2. CASE instances'[i] \in {instances[i], None}
  <2>1. \A j \in Instances : instances'[j] \in {instances[j], None}
    BY <1>2
  <2> QED
    BY <1>1, <2>1, Removing
<1>3. CASE Saves /\ instances'[i] # None
  <2>1. i \in CatalogNames /\ i \notin Definitions
    BY CatalogAssumption DEF CatalogNames
  <2>2. \A n \in CatalogNames : /\ n \notin Definitions => n \in Instances
                                /\ ShownNow'[n] = IF n \in Definitions THEN plugins'[n]
                                                  ELSE Content(instances'[n])
                                /\ ShownNow[n] = IF n \in Definitions THEN plugins[n]
                                                 ELSE Content(instances[n])
    BY DEF ShownNow, Entered, CatalogNames
  <2>3. \A n \in CatalogNames \ {i} : ShownNow'[n] = ShownNow[n]
    BY <1>1, <2>2
  <2>4. CASE ShownNow'[i] # None
    BY <1>1, <1>3, <2>1, <2>3, <2>4, Putting
  <2>5. CASE ShownNow'[i] = None
    <3>1. ShownNow' \in Catalog!Remains(ShownNow)
      BY <1>3, <2>3, <2>5, EntersOrKeeps DEF Catalog!Remains
    <3>2. Entered(store.plugins, store.instances)' = ShownNow'
      BY <1>3, EntersOrKeeps
    <3>3. Catalog!Remove
      BY <1>1, <3>1, <3>2 DEF Catalog!Remove, ShownNow
    <3> QED
      BY <3>3 DEF Catalog!Next
  <2> QED
    BY <2>4, <2>5
<1> QED
  BY <1>2, <1>3

LEMMA ScopeStepsEnter ==
  ASSUME IInv, IInv', ScopeNext
  PROVE  Catalog!Next
<1>1. PICK s \in Scopes :
        \/ AddScope(s)
        \/ \E saved \in BOOLEAN : RemoveScope(s, saved) \/ RemoveSubtree(s, saved)
        \/ RemoveSubtreeAborts(s)
  BY DEF ScopeNext
<1>2. /\ TypeOK /\ TypeOK' /\ phase = "up" /\ phase' = "up" /\ plugins' = plugins
      /\ store' = store \/ Saves
  BY <1>1 DEF IInv, AddScope, RemoveScope, RemoveSubtree, RemoveSubtreeAborts, definitionVars,
              PersistState, Saves
<1>3. \A i \in Instances : instances'[i] \in {instances[i], None}
  <2>1. CASE instances' = instances
    BY <2>1
  <2>2. CASE \E Gone : ForgetInstances(Gone)
    BY <2>2, <1>2 DEF ForgetInstances
  <2> QED
    BY <1>1, <2>1, <2>2 DEF AddScope, RemoveScope, RemoveSubtree, RemoveSubtreeAborts,
                            instanceVars
<1> QED
  BY <1>2, <1>3, Removing

LEMMA CreateEnters ==
  ASSUME IInv, IInv', NEW i \in Instances, NEW d \in Definitions, NEW s \in Scopes,
         NEW p \in Props, NEW enabled \in BOOLEAN, NEW saved \in BOOLEAN,
         Create(i, d, s, p, enabled, saved)
  PROVE  Catalog!Next
<1>1. /\ TypeOK /\ TypeOK' /\ phase = "up" /\ SameDefinitions
      /\ saved => Saves
      /\ ~saved => store' = store
  BY DEF IInv, Create, SameDefinitions, PersistState, Saves
<1>2. /\ \A j \in Instances \ {i} : instances'[j] = instances[j]
      /\ ~saved => instances'[i] = None
  BY <1>1 DEF Create, TypeOK
<1> QED
  BY <1>1, <1>2, RecordEnters

LEMMA DeleteEnters ==
  ASSUME IInv, IInv', NEW i \in Instances, NEW built \in BOOLEAN, NEW saved \in BOOLEAN,
         Delete(i, built, saved)
  PROVE  Catalog!Next
<1>1. /\ TypeOK /\ TypeOK' /\ phase = "up" /\ SameDefinitions
      /\ saved => Saves
      /\ ~saved => store' = store
  BY DEF IInv, Delete, SameDefinitions, PersistState, Saves
<1>2. \A j \in Instances : instances'[j] = instances[j] \/ (j = i /\ instances'[j] = None)
  BY <1>1 DEF Delete, ForgetInstances, TypeOK
<1> QED
  BY <1>1, <1>2, RecordEnters

LEMMA UpdateEnters ==
  ASSUME IInv, IInv', NEW i \in Instances, NEW base, NEW p, NEW enabled \in BOOLEAN,
         NEW saved \in BOOLEAN,
         \/ Reconfigure(i, base, p, enabled, saved)
         \/ ReconfigureRaises(i, base, p, enabled)
  PROVE  Catalog!Next
<1>1. TypeOK /\ TypeOK' /\ phase = "up" /\ SameDefinitions
  BY DEF IInv, Reconfigure, ReconfigureRaises, SameDefinitions
<1>2. \A j \in Instances \ {i} : instances'[j] = instances[j]
  BY <1>1 DEF Reconfigure, ReconfigureRaises, TypeOK
<1>3. Saves \/ (store' = store /\ instances' = instances)
  BY DEF Reconfigure, ReconfigureRaises, PersistState, Saves
<1> QED
  BY <1>1, <1>2, <1>3, RecordEnters

LEMMA EnsureEnters ==
  ASSUME IInv, IInv', NEW d \in Builtin, NEW s \in BuiltinScopes, NEW p \in Props,
         NEW enabled \in BOOLEAN, NEW saved \in BOOLEAN, Ensure(d, s, p, enabled, saved)
  PROVE  Catalog!Next
<1> DEFINE matching == {i \in InstancesOf(d) : instances[i].scope = s}
<1>1. d \in Definitions /\ s \in Scopes
  BY ConstantsAssumption
<1>2. CASE matching # {}
  <2>1. PICK i \in matching : Update(i, p, enabled, saved)
    BY <1>2 DEF Ensure
  <2>2. i \in Instances
    BY DEF InstancesOf, Recorded
  <2> QED
    BY <2>1, <2>2, UpdateEnters DEF Update
<1>3. CASE matching = {}
  <2>1. PICK i \in Instances : Create(i, d, s, p, enabled, saved)
    BY <1>3 DEF Ensure
  <2> QED
    BY <1>1, <2>1, CreateEnters
<1> QED
  BY <1>2, <1>3

\* A start shows what is kept, the instances of agents' scopes apart.
LEMMA StartRecovers ==
  ASSUME IInv, IInv', NEW Broken \in SUBSET Instances, Start(Broken)
  PROVE  Catalog!Next
<1> DEFINE before == Entered(store.plugins, store.instances)
           derived == {c \in Contents : c.scope \in AgentScopes}
<1>1. /\ TypeOK /\ TypeOK' /\ phase = "down" /\ phase' = "up"
      /\ plugins' = store.plugins /\ Saves
  BY DEF IInv, Start, Saves
<1>2. /\ store.plugins \in [Definitions -> VersionOrNone]
      /\ store.instances \in [Instances -> RecordOrNone]
  BY <1>1 DEF TypeOK
<1>3. \A i \in Instances :
        Content(instances'[i]) = IF Content(store.instances[i]) \in derived THEN None
                                 ELSE Content(store.instances[i])
  <2>1. TAKE i \in Instances
  <2>2. CASE store.instances[i] = None
    BY <2>2 DEF Start, Restorable, Persisted, Content
  <2>3. CASE store.instances[i] # None
    <3> DEFINE r == store.instances[i]
    <3>1. r \in Record
      BY <1>2, <2>3 DEF RecordOrNone
    <3>2. Content(r) \in Contents /\ Content(r).scope = r.scope
      BY <2>3, <3>1, ConstantsAssumption DEF Content, Contents, Record
    <3>3. i \in Restorable <=> r.scope \notin AgentScopes
      BY <2>3 DEF Restorable, Persisted
    <3>4. CASE i \notin Restorable
      <4>1. instances'[i] = None
        BY <3>4 DEF Start
      <4> QED
        BY <3>2, <3>3, <3>4, <4>1 DEF Content
    <3>5. CASE i \in Restorable
      <4>1. PICK st : st \in Status /\ instances'[i] = [r EXCEPT !.status = st]
        BY <3>5 DEF Start, Status
      <4>2. /\ instances'[i].def = r.def /\ instances'[i].scope = r.scope
            /\ instances'[i].props = r.props /\ instances'[i].enabled = r.enabled
            /\ instances'[i] \in Record
        BY <3>1, <4>1 DEF Record
      <4>3. instances'[i] # None
        BY <4>2, RecordAssumption
      <4> QED
        BY <2>3, <3>2, <3>3, <3>5, <4>2, <4>3 DEF Content
    <3> QED
      BY <3>4, <3>5
  <2> QED
    BY <2>2, <2>3
<1>4. \A d \in Definitions : store.plugins[d] \notin derived \/ store.plugins[d] = None
  BY <1>2, CatalogAssumption DEF VersionOrNone
<1>5. ShownNow' = [n \in CatalogNames |-> IF before[n] \in derived THEN None ELSE before[n]]
  <2>1. ASSUME NEW n \in CatalogNames
        PROVE  ShownNow'[n] = IF before[n] \in derived THEN None ELSE before[n]
    <3>1. /\ ShownNow'[n] = IF n \in Definitions THEN store.plugins[n]
                            ELSE Content(instances'[n])
          /\ before[n] = IF n \in Definitions THEN store.plugins[n]
                         ELSE Content(store.instances[n])
          /\ n \notin Definitions => n \in Instances
      BY <1>1 DEF ShownNow, Entered, CatalogNames
    <3> QED
      BY <1>3, <1>4, <3>1
  <2>2. ShownNow' = [n \in CatalogNames |-> ShownNow'[n]]
    BY DEF ShownNow, Entered
  <2> QED
    BY <2>1, <2>2
<1>6. before' = ShownNow'
  BY <1>1, EntersOrKeeps
<1>7. Catalog!Recover
  BY <1>1, <1>5, <1>6 DEF Catalog!Recover, ShownNow
<1> QED
  BY <1>7 DEF Catalog!Next

LEMMA CrashStops ==
  ASSUME Crash
  PROVE  Catalog!Next
<1>1. ShownNow' = [n \in CatalogNames |-> None]
  BY DEF Crash, Stop, ShownNow, Entered, CatalogNames, Content
<1>2. phase = "up" /\ phase' = "down" /\ store' = store
  BY DEF Crash
<1>3. Catalog!Stop
  BY <1>1, <1>2 DEF Catalog!Stop, Catalog!Empty, ShownNow
<1> QED
  BY <1>3 DEF Catalog!Next

LEMMA CatalogStep ==
  ASSUME IInv, IInv', [Next]_vars
  PROVE  [Catalog!Next]_Catalog!vars
<1>1. CASE DefinitionNext
  BY <1>1, InstallEnters, UninstallEnters DEF DefinitionNext
<1>2. CASE ScopeNext
  BY <1>2, ScopeStepsEnter
<1>3. CASE InstanceNext
  <2>1. PICK enabled \in BOOLEAN, saved \in BOOLEAN :
          \/ \E i \in Instances :
               \/ \E d \in Definitions, s \in Scopes, p \in Props :
                    Create(i, d, s, p, enabled, saved)
               \/ Delete(i, enabled, saved)
               \/ \E p \in Props : Update(i, p, enabled, saved)
               \/ \E p \in Overrides : ApplyConfig(i, p, enabled, saved)
          \/ \E d \in Builtin, s \in BuiltinScopes, p \in Props :
               Ensure(d, s, p, enabled, saved)
    BY <1>3 DEF InstanceNext
  <2>2. CASE \E i \in Instances, d \in Definitions, s \in Scopes, p \in Props :
               Create(i, d, s, p, enabled, saved)
    BY <2>2, CreateEnters
  <2>3. CASE \E i \in Instances : Delete(i, enabled, saved)
    BY <2>3, DeleteEnters
  <2>4. CASE \E i \in Instances : \E p \in Props : Update(i, p, enabled, saved)
    BY <2>4, UpdateEnters DEF Update
  <2>5. CASE \E i \in Instances : \E p \in Overrides : ApplyConfig(i, p, enabled, saved)
    BY <2>5, UpdateEnters DEF ApplyConfig
  <2>6. CASE \E d \in Builtin, s \in BuiltinScopes, p \in Props :
               Ensure(d, s, p, enabled, saved)
    BY <2>6, EnsureEnters
  <2> QED
    BY <2>1, <2>2, <2>3, <2>4, <2>5, <2>6
<1>4. CASE ProcessNext
  <2>1. CASE \E Broken \in SUBSET Instances : Start(Broken)
    BY <2>1, StartRecovers
  <2>2. CASE Crash
    BY <2>2, CrashStops
  <2>3. CASE StartAborts \/ \E d \in Definitions, v \in Versions \union {None} : Repackage(d, v)
    <3>1. /\ UNCHANGED <<plugins, instances, store>>
          /\ phase # "up" /\ phase' # "up"
      BY <2>3 DEF StartAborts, Repackage, definitionVars, instanceVars
    <3> QED
      BY <3>1 DEF Catalog!vars
  <2> QED
    BY <1>4, <2>1, <2>2, <2>3 DEF ProcessNext
<1>5. CASE UNCHANGED vars
  BY <1>5 DEF vars, definitionVars, instanceVars, Catalog!vars
<1> QED
  BY <1>1, <1>2, <1>3, <1>4, <1>5 DEF Next

LEMMA CatalogInit ==
  ASSUME Init
  PROVE  Catalog!Init
<1>1. ShownNow = [n \in CatalogNames |-> None]
  BY DEF Init, ShownNow, Entered, CatalogNames, Content
<1>2. Entered(store.plugins, store.instances) = [n \in CatalogNames |-> None]
  BY DEF Init, EmptySnapshot, Snapshot, Saved, Entered, CatalogNames, Content
<1> QED
  BY <1>1, <1>2 DEF Init, Catalog!Init, Catalog!Empty, ShownNow

\* The manager implements the durable catalog: whatever is refused, cannot be
\* built or crashes, what it shows is kept, and what is kept is shown again.
THEOREM ManagerKeepsCatalog == Spec => KeepsCatalog
<1>1. Init => Catalog!Init
  BY CatalogInit
<1>2. IInv /\ IInv' /\ [Next]_vars => [Catalog!Next]_Catalog!vars
  BY CatalogStep
<1> QED
  BY Invariance, <1>1, <1>2, PTL DEF Spec, KeepsCatalog, Catalog!Spec


-----------------------------------------------------------------------------
(* The coordinator *)

\* What the memory and the stored snapshot have in common, of instances I
\* and registrations R: the instance of a registration is an instance of the
\* definition of the registered contribution, ...
InstancesMatch(I, R) ==
  \A i \in Instances :
    I[i] # None /\ R[i] # None => I[i].def = DefOf[R[i].contribution]

\* ... an instance that is no adapter is where its contribution belongs, ...
Placed(I) ==
  \A i \in Instances : I[i] # None /\ I[i].def # AdapterDef =>
    \E c \in Contributions : I[i].def = DefOf[c] /\ I[i].scope = ScopeOf[c]

\* ... and a key is used once.
KeyUsedOnce(R) ==
  \A i, j \in Instances :
    /\ R[i] # None /\ R[j] # None
    /\ R[i].contribution = R[j].contribution /\ R[i].key = R[j].key /\ R[i].key # None
    /\ ServerScoped(R[i].contribution)
    => i = j

MemoryMatches ==
  /\ InstancesMatch(instances, registrations) /\ Placed(instances)
  /\ KeyUsedOnce(registrations)

StoreMatches ==
  /\ InstancesMatch(store.instances, stored_registrations) /\ Placed(store.instances)
  /\ KeyUsedOnce(stored_registrations)

\* What is known of an operation in flight, by its kind.
Installing ==
  /\ op.kind = "install" /\ op.todo = {}
  /\ op.reg \in Registration /\ op.reg.enabled
  /\ \/ /\ op.at \in {"define", "create"}
        /\ op.reg.key # None => Keyed(op.reg.contribution, op.reg.key) = {}
     \/ /\ op.at \in {"adapter", "finish", "undo", "unregister"}
        /\ op.i \in Registered /\ registrations[op.i] = op.reg
        /\ op.at = "unregister" => adapters[op.i] = None

Switching ==
  /\ op.kind \in {"enable", "disable"} /\ op.todo = {}
  /\ op.at \in {"finish", IF op.kind = "enable" THEN "adapter" ELSE "kill"}
  /\ op.i \in Registered
  /\ op.reg = [registrations[op.i] EXCEPT !.enabled = (op.kind = "enable")]
  /\ op.at = "finish" /\ op.kind = "disable" => adapters[op.i] = None

Upgrading ==
  /\ op.kind = "upgrade" /\ op.at \in {"kill", "delete", "finish"}
  /\ op.i \in Registered /\ op.reg \in Registration
  /\ op.reg.contribution = registrations[op.i].contribution
  /\ op.reg.key = registrations[op.i].key
  /\ \E j \in Instances \ {op.i} :
       /\ op.todo = {j} /\ registrations[j] = None
       /\ instances[j] # None /\ instances[j].def = DefOf[op.reg.contribution]
  /\ op.at # "kill" => adapters[op.i] = None

Uninstalling ==
  /\ op.kind = "uninstall" /\ op.todo = {}
  /\ op.at \in {"kill", "delete", "finish"}
  /\ op.i \in Registered
  /\ op.at # "kill" => adapters[op.i] = None

Changing == op.kind = "properties" /\ op.at = "finish" /\ op.todo = {}

Restoring ==
  /\ op.kind = "restore"
  /\ \/ /\ op.at = "rebuild"
        /\ \A i \in op.todo : i \in Registered /\ ScopeOfReg(i) \in AgentScopes
     \/ /\ op.at = "adapters"
        /\ \A i \in op.todo : i \in Registered /\ registrations[i].enabled

Operation == [at: {"idle", "define", "create", "adapter", "finish", "kill", "delete",
                   "undo", "unregister", "rebuild", "adapters"},
              kind: {"idle", "install", "enable", "disable", "upgrade", "uninstall",
                     "properties", "restore"},
              i: Instances \union {None}, reg: RegistrationOrNone,
              todo: SUBSET Instances]

OpOK ==
  /\ op \in Operation
  /\ \/ op = Idle
     \/ /\ phase = "up"
        /\ \/ Installing \/ Switching \/ Upgrading
           \/ Uninstalling \/ Changing \/ Restoring

CoordinatorTypes ==
  /\ catalog \in [Contributions -> Releases]
  /\ registrations \in [Instances -> RegistrationOrNone]
  /\ stored_registrations \in [Instances -> RegistrationOrNone]
  /\ adapters \in [Instances -> Instances \union {None}]

\* An adapter belongs to a registration that is enabled, or is about to be.
AdaptersOK ==
  /\ \A i \in Instances : adapters[i] # None =>
       /\ i \in Registered
       /\ \/ registrations[i].enabled
          \/ op.kind = "enable" /\ op.at = "finish" /\ op.i = i
       /\ adapters[i] \in InstancesOf(AdapterDef)
  /\ \A i, j \in Instances :
       adapters[i] # None /\ adapters[i] = adapters[j] => i = j

CInv ==
  /\ IInv
  /\ CoordinatorTypes
  /\ MemoryMatches
  /\ StoreMatches
  /\ OpOK
  /\ AdaptersOK

-----------------------------------------------------------------------------
(* What a manager call does to the instances and the store *)

\* The call saves, or its save is refused; with the snapshot go the
\* registrations as they are then.
Stored(saved) == IF saved THEN Saves ELSE store' = store
Kept(saved) ==
  /\ Stored(saved)
  /\ stored_registrations' = IF saved THEN registrations' ELSE stored_registrations

LEMMA Definitional ==
  /\ AdapterDef \in Definitions /\ AdapterProps \in Props /\ NoProps \in Props
  /\ \A c \in Contributions : /\ DefOf[c] \in Definitions /\ DefOf[c] # AdapterDef
                              /\ ScopeOf[c] \in Scopes /\ AdapterScope[c] \in Scopes
  /\ \A r \in Registration : /\ r # None /\ r.contribution \in Contributions
                             /\ r.version \in Releases /\ r.enabled \in BOOLEAN
                             /\ r.key \in Keys
  /\ \A i \in Instances : i \in Registered <=> registrations[i] # None
  BY CoordinatorAssumption, ConstantsAssumption, RegistrationAssumption
  DEF Registration, Registered

LEMMA InstallEffect ==
  ASSUME NEW d, NEW saved \in BOOLEAN, Install(d, saved)
  PROVE  /\ instances' = instances /\ phase = "up" /\ phase' = "up" /\ Stored(saved)
  BY DEF Install, instanceVars, PersistState, Stored, Saves

LEMMA CreateEffect ==
  ASSUME IInv, NEW i \in Instances, NEW d \in Definitions, NEW s \in Scopes,
         NEW p \in Props, NEW enabled \in BOOLEAN, NEW saved \in BOOLEAN,
         Create(i, d, s, p, enabled, saved)
  PROVE  /\ instances[i] = None /\ phase = "up" /\ phase' = "up" /\ Stored(saved)
         /\ ~saved => instances' = instances
         /\ saved => /\ instances'[i] # None /\ instances'[i].def = d
                     /\ instances'[i].scope = s /\ instances'[i].enabled = enabled
         /\ \A j \in Instances : j # i => instances'[j] = instances[j]
<1> DEFINE record == [def |-> d, scope |-> s, props |-> p, enabled |-> enabled,
                      status |-> IF enabled THEN "active" ELSE "disabled"]
<1>1. record \in Record /\ record # None
  <2>1. record \in Record
    BY DEF Record, Status
  <2> QED
    BY <2>1, RecordAssumption
<1>2. /\ saved => instances' = [instances EXCEPT ![i] = record]
      /\ ~saved => instances' = [instances EXCEPT ![i] = None]
      /\ instances[i] = None /\ phase = "up" /\ phase' = "up" /\ Stored(saved)
  BY DEF Create, Fresh, PersistState, Stored, Saves
<1>3. instances \in [Instances -> RecordOrNone]
  BY DEF IInv, TypeOK
<1>4. saved => instances'[i] = record
  BY <1>2, <1>3
<1> QED
  BY <1>1, <1>2, <1>3, <1>4

LEMMA DeleteEffect ==
  ASSUME IInv, NEW i \in Instances, NEW built \in BOOLEAN, NEW saved \in BOOLEAN,
         Delete(i, built, saved)
  PROVE  /\ instances[i] # None /\ phase = "up" /\ phase' = "up" /\ Stored(saved)
         /\ instances'[i] = None \/ instances'[i] = instances[i]
         /\ saved => instances'[i] = None
         /\ \A j \in Instances : j # i => instances'[j] = instances[j]
<1>1. /\ instances[i] # None /\ phase = "up" /\ phase' = "up" /\ Stored(saved)
  BY DEF Delete, Recorded, PersistState, Stored, Saves
<1>2. CASE saved \/ ~built
  BY <1>1, <1>2 DEF Delete, ForgetInstances
<1>3. CASE ~(saved \/ ~built)
  BY <1>1, <1>3 DEF Delete
<1> QED
  BY <1>1, <1>2, <1>3

LEMMA ReconfigureEffect ==
  ASSUME IInv, NEW i \in Instances, NEW base \in PropsOrNone, NEW p \in Props,
         NEW enabled \in BOOLEAN, NEW saved \in BOOLEAN,
         Reconfigure(i, base, p, enabled, saved)
  PROVE  /\ instances[i] # None /\ phase = "up" /\ phase' = "up" /\ Stored(saved)
         /\ ~saved => instances' = instances
         /\ saved => instances'[i].enabled = enabled
         /\ instances'[i] # None /\ instances'[i].def = instances[i].def
         /\ instances'[i].scope = instances[i].scope
         /\ \A j \in Instances : j # i => instances'[j] = instances[j]
<1> DEFINE cur  == instances[i]
           user == NewUser(base, p)
           new  == [cur EXCEPT !.props = user, !.enabled = enabled,
                               !.status = IF enabled THEN "active" ELSE "disabled"]
<1>1. /\ instances[i] # None /\ phase = "up" /\ phase' = "up" /\ Stored(saved)
      /\ ~saved => instances' = instances
      /\ saved => instances' = [instances EXCEPT ![i] = new]
  BY DEF Reconfigure, Recorded, PersistState, Stored, Saves
<1>2. cur \in Record /\ user \in Props
  BY <1>1, ConstantsAssumption
  DEF IInv, TypeOK, RecordOrNone, PropsOrNone, NewUser, Merge
<1>3. /\ new.def = cur.def /\ new.scope = cur.scope /\ new.enabled = enabled
      /\ new # None
  <2>1. new \in Record
    BY <1>2 DEF Record, Status
  <2> QED
    BY <1>2, <2>1, RecordAssumption DEF Record
<1>4. instances \in [Instances -> RecordOrNone]
  BY DEF IInv, TypeOK
<1>5. saved => instances'[i] = new
  BY <1>1, <1>4
<1> QED
  BY <1>1, <1>3, <1>4, <1>5

\* The snapshot shows of the instances what the memory shows.
LEMMA SnapshotShows ==
  ASSUME IInv', Saves
  PROVE  \A i \in Instances :
           /\ store'.instances[i] = Saved(instances'[i])
           /\ store'.instances[i] = None <=> instances'[i] = None
           /\ instances'[i] # None =>
                /\ store'.instances[i].def = instances'[i].def
                /\ store'.instances[i].scope = instances'[i].scope
                /\ store'.instances[i].enabled = instances'[i].enabled
<1>1. \A i \in Instances : instances'[i] \in RecordOrNone
  BY DEF IInv, TypeOK
<1>2. \A i \in Instances : store'.instances[i] = Saved(instances'[i])
  BY DEF Saves, Snapshot
<1> QED
  BY <1>1, <1>2, SavedRecord

\* Saving what matches leaves a snapshot that matches.
LEMMA SavedMatches ==
  ASSUME IInv', Saves, NEW R, stored_registrations' = R,
         InstancesMatch(instances', R), Placed(instances'), KeyUsedOnce(R)
  PROVE  StoreMatches'
<1>1. InstancesMatch(store'.instances, R)
  BY SnapshotShows DEF InstancesMatch
<1>2. Placed(store'.instances)
  BY SnapshotShows DEF Placed
<1> QED
  BY <1>1, <1>2 DEF StoreMatches

LEMMA StoreKeeps ==
  ASSUME IInv', StoreMatches, MemoryMatches', NEW saved \in BOOLEAN, Kept(saved)
  PROVE  StoreMatches'
<1>1. CASE saved
  BY <1>1, SavedMatches DEF Kept, Stored, MemoryMatches
<1>2. CASE ~saved
  BY <1>2 DEF Kept, Stored, StoreMatches
<1> QED
  BY <1>1, <1>2

\* The final manager._persist_state() of an operation.
LEMMA PersistKeeps ==
  ASSUME IInv, phase = "up", NEW saved \in BOOLEAN, PersistRegistrations(saved)
  PROVE  IInv' /\ Kept(saved) /\ instances' = instances /\ phase' = "up"
<1>1. /\ UNCHANGED <<phase, packaged, definitionVars, scopes, instanceVars>>
      /\ Kept(saved) /\ (Saves \/ store' = store)
  BY DEF PersistRegistrations, PersistState, SaveRegistrations, Kept, Stored, Saves
<1>2. InstancesDefined' /\ (Saves \/ Shrinks)
  BY <1>1 DEF IInv, InstancesDefined, Installed, Recorded, definitionVars, instanceVars,
     Shrinks
<1> QED
  BY <1>1, <1>2, SameDefinitionsKeeps
  DEF IInv, TypeOK, SameDefinitions, definitionVars, instanceVars

LEMMA GotoEffect ==
  ASSUME op \in Operation, NEW at, Goto(at),
         at \in {"idle", "define", "create", "adapter", "finish", "kill", "delete",
                 "undo", "unregister", "rebuild", "adapters"}
  PROVE  /\ op' \in Operation /\ op'.at = at /\ op'.kind = op.kind /\ op'.i = op.i
         /\ op'.reg = op.reg /\ op'.todo = op.todo
  BY DEF Goto, Operation

LEMMA IdleIsOperation ==
  /\ Idle \in Operation /\ Idle.at = "idle" /\ Idle.kind = "idle" /\ Idle.i = None
  /\ Idle.todo = {}
  BY DEF Idle, Operation, RegistrationOrNone

\* A step that changes neither the instances nor the registrations, in memory
\* or in the store.
QuietStep == UNCHANGED <<vars, registrations, stored_registrations>>

LEMMA QuietMatches ==
  ASSUME CInv, QuietStep
  PROVE  IInv' /\ MemoryMatches' /\ StoreMatches'
<1>1. IInv'
  BY NextKeeps DEF CInv, QuietStep
<1>2. UNCHANGED <<instances, store, registrations, stored_registrations>>
  BY DEF QuietStep, vars, instanceVars
<1> QED
  BY <1>1, <1>2 DEF CInv, MemoryMatches, StoreMatches

\* A step that keeps the adapters' instances and registrations, when no
\* adapter waits for its registration to be enabled.
LEMMA AdaptersStay ==
  ASSUME CInv, adapters' = adapters, registrations' = registrations, op.at # "finish",
         \A j \in Instances : instances[j] # None /\ instances[j].def = AdapterDef =>
           instances'[j] # None /\ instances'[j].def = AdapterDef
  PROVE  AdaptersOK'
<1>1. \A i \in Instances : adapters'[i] # None =>
        /\ registrations'[i] # None /\ registrations'[i].enabled
        /\ adapters'[i] \in Instances
        /\ instances'[adapters'[i]] # None /\ instances'[adapters'[i]].def = AdapterDef
  BY DEF CInv, AdaptersOK, CoordinatorTypes, Registered, InstancesOf, Recorded
<1>2. \A i, j \in Instances : adapters'[i] # None /\ adapters'[i] = adapters'[j] => i = j
  BY DEF CInv, AdaptersOK
<1> QED
  BY <1>1, <1>2 DEF AdaptersOK, Registered, InstancesOf, Recorded

\* The same instances, registrations, adapters and catalog, for a step that
\* only moves the operation on.
LEMMA OnlyOpMoves ==
  ASSUME CInv, QuietStep, UNCHANGED <<catalog, adapters>>, op.at # "finish", OpOK'
  PROVE  CInv'
<1>1. IInv' /\ MemoryMatches' /\ StoreMatches'
  BY QuietMatches
<1>2. instances' = instances /\ registrations' = registrations
  BY DEF QuietStep, vars, instanceVars
<1>3. AdaptersOK'
  BY <1>2, AdaptersStay
<1>4. CoordinatorTypes'
  BY DEF CInv, CoordinatorTypes, QuietStep
<1> QED
  BY <1>1, <1>3, <1>4 DEF CInv

-----------------------------------------------------------------------------
(* Agents and requests *)

\* The agent directory's steps change the scopes, and the snapshot that goes
\* with them.
LEMMA AgentKeeps ==
  ASSUME CInv, AgentNext
  PROVE  CInv'
<1>1. PICK s \in AgentScopes :
        AgentCreated(s) \/ \E saved \in BOOLEAN : AgentRemoved(s, saved)
  BY DEF AgentNext
<1>2. s \in Scopes /\ IInv
  BY ConstantsAssumption DEF CInv
<1>3. /\ UNCHANGED <<catalog, registrations, adapters, op>>
      /\ instances' = instances /\ phase' = phase
  BY <1>1 DEF AgentCreated, AgentRemoved, AddScope, RemoveScope, coordinatorVars, instanceVars
<1>4. IInv'
  BY <1>1, <1>2, AddScopeKeeps, RemoveScopeKeeps DEF AgentCreated, AgentRemoved
<1>5. MemoryMatches'
  BY <1>3 DEF CInv, MemoryMatches
<1>6. StoreMatches'
  <2>1. CASE AgentCreated(s)
    BY <2>1 DEF AgentCreated, AddScope, coordinatorVars, CInv, StoreMatches
  <2>2. ASSUME NEW saved \in BOOLEAN, AgentRemoved(s, saved)
        PROVE  StoreMatches'
    <3>1. Kept(saved)
      BY <2>2 DEF AgentRemoved, RemoveScope, PersistState, SaveRegistrations, Kept, Stored,
         Saves
    <3> QED
      BY <1>4, <1>5, <3>1, StoreKeeps DEF CInv
  <2> QED
    BY <1>1, <2>1, <2>2
<1>7. CoordinatorTypes'
  <2>1. stored_registrations' \in {registrations, stored_registrations}
    BY <1>1, <1>3 DEF AgentCreated, AgentRemoved, SaveRegistrations, coordinatorVars
  <2> QED
    BY <1>3, <2>1 DEF CInv, CoordinatorTypes
<1>8. OpOK'
  BY <1>3 DEF CInv, OpOK, Installing, Switching, Upgrading, Uninstalling, Changing,
     Restoring, Keyed, Named, Registered, ScopeOfReg
<1>9. AdaptersOK'
  BY <1>3 DEF CInv, AdaptersOK, Registered, InstancesOf, Recorded
<1> QED
  BY <1>4, <1>5, <1>6, <1>7, <1>8, <1>9 DEF CInv

LEMMA BeginInstallKeeps ==
  ASSUME CInv, NEW c \in Contributions, NEW key \in Keys, BeginInstall(c, key)
  PROVE  CInv'
<1> DEFINE reg == [contribution |-> c, version |-> catalog[c], enabled |-> TRUE, key |-> key]
<1>1. reg \in Registration
  BY DEF CInv, CoordinatorTypes, Registration
<1>2. QuietStep /\ UNCHANGED <<catalog, adapters>> /\ op.at # "finish" /\ phase' = "up"
  BY IdleIsOperation DEF BeginInstall, QuietStep, vars
<1>3. /\ op' \in Operation /\ op'.at = "define" /\ op'.kind = "install"
      /\ op'.reg = reg /\ op'.todo = {}
  BY <1>1 DEF BeginInstall, Busy, Operation, RegistrationOrNone
<1>4. reg.key = key /\ reg.contribution = c /\ reg.enabled
  OBVIOUS
<1>5. key # None => Keyed(c, key)' = {}
  BY DEF BeginInstall, Keyed, Named, Registered
<1>6. OpOK'
  BY <1>1, <1>2, <1>3, <1>4, <1>5 DEF OpOK, Installing
<1> QED
  BY <1>2, <1>6, OnlyOpMoves

LEMMA SetEnabledKeeps ==
  ASSUME CInv, NEW i \in Instances, NEW enabled \in BOOLEAN, NEW saved \in BOOLEAN,
         SetEnabled(i, enabled, saved)
  PROVE  CInv'
<1> DEFINE r == registrations[i]
           new == [r EXCEPT !.enabled = enabled]
<1>1. /\ op.at # "finish" /\ i \in Registered /\ r \in Registration /\ r.enabled # enabled
      /\ UNCHANGED <<catalog, registrations, adapters>>
  BY IdleIsOperation
  DEF SetEnabled, Unique, Registered, CInv, CoordinatorTypes, RegistrationOrNone
<1>2. user_properties[i] \in PropsOrNone /\ NoProps \in Props /\ IInv
  BY Definitional DEF CInv, IInv, TypeOK
<1>3. IInv' /\ Kept(saved)
  BY <1>2, ReconfigureKeeps, ReconfigureEffect DEF SetEnabled, SaveRegistrations, Kept
<1>4. /\ phase' = "up" /\ instances'[i] # None /\ instances[i] # None
      /\ instances'[i].def = instances[i].def /\ instances'[i].scope = instances[i].scope
      /\ \A j \in Instances : j # i => instances'[j] = instances[j]
  BY <1>2, ReconfigureEffect DEF SetEnabled
<1>5. MemoryMatches'
  BY <1>1, <1>4 DEF CInv, MemoryMatches, InstancesMatch, Placed
<1>6. StoreMatches'
  BY <1>3, <1>5, StoreKeeps DEF CInv
<1>7. CoordinatorTypes'
  BY <1>1, <1>3 DEF CInv, CoordinatorTypes, Kept
<1>8. AdaptersOK'
  BY <1>1, <1>4, AdaptersStay
<1>9. OpOK'
  <2>1. CASE ~saved
    BY <2>1, IdleIsOperation DEF SetEnabled, OpOK
  <2>2. CASE saved
    <3> DEFINE at == AfterUpdate(r.contribution, enabled)
               kind == IF enabled THEN "enable" ELSE "disable"
    <3>1. new \in Registration
      BY <1>1 DEF Registration
    <3>2. op' = Busy(at, kind, i, new, {})
      BY <2>2 DEF SetEnabled
    <3>3. \/ kind = "enable" /\ at \in {"adapter", "finish"} /\ enabled = TRUE
          \/ kind = "disable" /\ at = "kill" /\ enabled = FALSE
      BY DEF AfterUpdate
    <3> HIDE DEF new, at, kind
    <3>4. /\ op' \in Operation /\ op'.at = at /\ op'.kind = kind /\ op'.i = i
          /\ op'.reg = new /\ op'.todo = {}
      BY <3>1, <3>2, <3>3 DEF Busy, Operation, RegistrationOrNone
    <3>5. i \in Registered' /\ registrations'[i] = r
      BY <1>1 DEF Registered
    <3>6. enabled = (kind = "enable")
      BY <3>3
    <3>7. Switching'
      BY <3>3, <3>4, <3>5, <3>6 DEF Switching, new
    <3> QED
      BY <1>4, <3>4, <3>7 DEF OpOK
  <2> QED
    BY <2>1, <2>2
<1> QED
  BY <1>3, <1>5, <1>6, <1>7, <1>8, <1>9 DEF CInv

LEMMA UpdatePropertiesKeeps ==
  ASSUME CInv, NEW i \in Instances, NEW p \in Settings, NEW saved \in BOOLEAN,
         UpdateProperties(i, p, saved)
  PROVE  CInv'
<1>1. /\ op.at # "finish" /\ UNCHANGED <<catalog, registrations, adapters>>
      /\ p \in Props /\ instances[i].enabled \in BOOLEAN
  <2>1. instances[i] \in Record
    BY DEF UpdateProperties, Recorded, CInv, IInv, TypeOK, RecordOrNone
  <2> QED
    BY <2>1, IdleIsOperation, CoordinatorAssumption DEF UpdateProperties, Record
<1>2. user_properties[i] \in PropsOrNone /\ IInv
  BY DEF CInv, IInv, TypeOK
<1>3. IInv' /\ Kept(saved)
  BY <1>1, <1>2, ReconfigureKeeps, ReconfigureEffect
  DEF UpdateProperties, SaveRegistrations, Kept
<1>4. /\ phase' = "up" /\ instances'[i] # None /\ instances[i] # None
      /\ instances'[i].def = instances[i].def /\ instances'[i].scope = instances[i].scope
      /\ \A j \in Instances : j # i => instances'[j] = instances[j]
  BY <1>1, <1>2, ReconfigureEffect DEF UpdateProperties
<1>5. MemoryMatches'
  BY <1>1, <1>4 DEF CInv, MemoryMatches, InstancesMatch, Placed
<1>6. StoreMatches'
  BY <1>3, <1>5, StoreKeeps DEF CInv
<1>7. CoordinatorTypes'
  BY <1>1, <1>3 DEF CInv, CoordinatorTypes, Kept
<1>8. AdaptersOK'
  BY <1>1, <1>4, AdaptersStay
<1>9. OpOK'
  <2>1. CASE ~saved
    BY <2>1, IdleIsOperation DEF UpdateProperties, OpOK
  <2>2. CASE saved
    <3>1. /\ op' \in Operation /\ op'.at = "finish" /\ op'.kind = "properties"
          /\ op'.todo = {}
      BY <2>2 DEF UpdateProperties, Busy, Operation, RegistrationOrNone
    <3> QED
      BY <1>4, <3>1 DEF OpOK, Changing
  <2> QED
    BY <2>1, <2>2
<1> QED
  BY <1>3, <1>5, <1>6, <1>7, <1>8, <1>9 DEF CInv

LEMMA UpdateRaisesKeeps ==
  ASSUME CInv, NEW i \in Instances, NEW p \in Settings \union {NoProps},
         NEW enabled \in BOOLEAN, UpdateRaises(i, p, enabled)
  PROVE  CInv'
<1>1. p \in Props /\ user_properties[i] \in PropsOrNone /\ IInv
  BY CoordinatorAssumption, Definitional DEF CInv, IInv, TypeOK
<1>2. IInv'
  BY <1>1, ReconfigureRaisesKeeps DEF UpdateRaises
<1>3. UNCHANGED <<phase, instances, store, catalog, registrations, stored_registrations,
                  adapters, op>>
  BY DEF UpdateRaises, ReconfigureRaises
<1>4. MemoryMatches' /\ StoreMatches' /\ CoordinatorTypes'
  BY <1>3 DEF CInv, MemoryMatches, StoreMatches, CoordinatorTypes
<1>5. OpOK'
  BY <1>3, IdleIsOperation DEF UpdateRaises, OpOK
<1>6. AdaptersOK'
  BY <1>3 DEF CInv, AdaptersOK, Registered, InstancesOf, Recorded
<1> QED
  BY <1>2, <1>4, <1>5, <1>6 DEF CInv

LEMMA BeginUninstallKeeps ==
  ASSUME CInv, NEW i \in Instances, BeginUninstall(i)
  PROVE  CInv'
<1>1. /\ QuietStep /\ UNCHANGED <<catalog, adapters>> /\ op.at # "finish" /\ phase' = "up"
      /\ i \in Registered' /\ registrations[i] \in Registration
  BY IdleIsOperation
  DEF BeginUninstall, QuietStep, vars, Unique, Registered, CInv, CoordinatorTypes,
      RegistrationOrNone
<1>2. /\ op' \in Operation /\ op'.at = "kill" /\ op'.kind = "uninstall"
      /\ op'.i = i /\ op'.todo = {}
  BY <1>1 DEF BeginUninstall, Busy, Operation, RegistrationOrNone
<1>3. OpOK'
  BY <1>1, <1>2 DEF OpOK, Uninstalling
<1> QED
  BY <1>1, <1>3, OnlyOpMoves

LEMMA RescanKeeps ==
  ASSUME CInv, NEW c \in Contributions, NEW v \in Releases, Rescan(c, v)
  PROVE  CInv'
<1>1. /\ UNCHANGED <<vars, registrations, stored_registrations, adapters, op>>
      /\ catalog' \in [Contributions -> Releases] /\ QuietStep
  BY DEF Rescan, CInv, CoordinatorTypes, QuietStep
<1>2. IInv' /\ MemoryMatches' /\ StoreMatches'
  BY <1>1, QuietMatches
<1>3. CoordinatorTypes' /\ OpOK'
  BY <1>1, IdleIsOperation DEF CInv, CoordinatorTypes, Rescan, OpOK
<1>4. AdaptersOK'
  BY <1>1 DEF CInv, AdaptersOK, Registered, InstancesOf, Recorded, vars, instanceVars
<1> QED
  BY <1>2, <1>3, <1>4 DEF CInv

LEMMA BeginUpgradeKeeps ==
  ASSUME CInv, NEW i \in Instances, NEW j \in Instances, NEW saved \in BOOLEAN,
         BeginUpgrade(i, j, saved)
  PROVE  CInv'
<1> DEFINE r == registrations[i]
           c == r.contribution
           new == [r EXCEPT !.version = catalog[c]]
<1>1. /\ op.at # "finish" /\ i \in Registered /\ r \in Registration
      /\ UNCHANGED <<catalog, registrations, adapters>>
      /\ registrations[j] = None /\ c \in Contributions /\ r.enabled \in BOOLEAN
  BY IdleIsOperation
  DEF BeginUpgrade, Unique, Registered, FreshUUID, CInv, CoordinatorTypes,
      RegistrationOrNone, Registration
<1>2. /\ DefOf[c] \in Definitions /\ ScopeOf[c] \in Scopes /\ NoProps \in Props /\ IInv
      /\ DefOf[c] # AdapterDef
  BY <1>1, Definitional DEF CInv
<1>3. Create(j, DefOf[c], ScopeOf[c], NoProps, r.enabled, saved)
  BY DEF BeginUpgrade
<1>4. IInv'
  BY <1>1, <1>2, <1>3, CreateKeeps
<1>5. /\ instances[j] = None /\ phase' = "up" /\ Stored(saved)
      /\ ~saved => instances' = instances
      /\ saved => /\ instances'[j] # None /\ instances'[j].def = DefOf[c]
                  /\ instances'[j].scope = ScopeOf[c]
      /\ \A k \in Instances : k # j => instances'[k] = instances[k]
  BY <1>1, <1>2, <1>3, CreateEffect
<1>6. Kept(saved)
  BY <1>5 DEF BeginUpgrade, SaveRegistrations, Kept
<1>7. MemoryMatches'
  BY <1>1, <1>2, <1>5 DEF CInv, MemoryMatches, InstancesMatch, Placed
<1>8. StoreMatches'
  BY <1>4, <1>6, <1>7, StoreKeeps DEF CInv
<1>9. CoordinatorTypes'
  BY <1>1, <1>6 DEF CInv, CoordinatorTypes, Kept
<1>10. AdaptersOK'
  BY <1>1, <1>5, AdaptersStay
<1>11. OpOK'
  <2>1. CASE ~saved
    BY <2>1, IdleIsOperation DEF BeginUpgrade, OpOK
  <2>2. CASE saved
    <3>1. /\ new \in Registration /\ new.contribution = c /\ new.key = r.key
      BY <1>1 DEF CInv, CoordinatorTypes, Registration
    <3>2. op' = Busy("kill", "upgrade", i, new, {j})
      BY <2>2 DEF BeginUpgrade
    <3> HIDE DEF new
    <3>3. /\ op' \in Operation /\ op'.at = "kill" /\ op'.kind = "upgrade"
          /\ op'.i = i /\ op'.reg = new /\ op'.todo = {j}
      BY <3>1, <3>2 DEF Busy, Operation, RegistrationOrNone
    <3>4. /\ j \in Instances \ {i} /\ i \in Registered' /\ registrations'[i] = r
          /\ registrations'[j] = None
      BY <1>1 DEF Registered
    <3>5. Upgrading'
      BY <1>5, <2>2, <3>1, <3>3, <3>4 DEF Upgrading
    <3> QED
      BY <1>5, <3>3, <3>5 DEF OpOK
  <2> QED
    BY <2>1, <2>2
<1> QED
  BY <1>4, <1>7, <1>8, <1>9, <1>10, <1>11 DEF CInv

-----------------------------------------------------------------------------
(* The steps of install *)

\* Which operation is at a step.
LEMMA AtStep ==
  ASSUME CInv
  PROVE  /\ op \in Operation
         /\ op # Idle <=> op.at # "idle"
         /\ op.at # "idle" => phase = "up"
         /\ op.at \in {"define", "create", "undo", "unregister"} => Installing
         /\ op.at = "adapter" => Installing \/ (Switching /\ op.kind = "enable")
         /\ op.at = "kill" =>
              (Switching /\ op.kind = "disable") \/ Upgrading \/ Uninstalling
         /\ op.at = "delete" => Upgrading \/ Uninstalling
         /\ op.at = "finish" =>
              Installing \/ Switching \/ Upgrading \/ Uninstalling \/ Changing
         /\ op.at \in {"rebuild", "adapters"} => Restoring
  BY IdleIsOperation
  DEF CInv, OpOK, Installing, Switching, Upgrading, Uninstalling, Changing, Restoring

\* A step that only forgets instances and registrations keeps what matches.
LEMMA ForgettingMatches ==
  ASSUME MemoryMatches,
         \A j \in Instances :
           /\ instances'[j] = None \/ instances'[j] = instances[j]
           /\ registrations'[j] = None \/ registrations'[j] = registrations[j]
  PROVE  MemoryMatches'
<1>1. InstancesMatch(instances', registrations') /\ Placed(instances')
  BY DEF MemoryMatches, InstancesMatch, Placed
<1>2. KeyUsedOnce(registrations')
  BY DEF MemoryMatches, KeyUsedOnce
<1> QED
  BY <1>1, <1>2 DEF MemoryMatches

LEMMA DefineKeeps ==
  ASSUME CInv, NEW saved \in BOOLEAN, Define(saved)
  PROVE  CInv'
<1> DEFINE d == DefOf[op.reg.contribution]
<1>1. /\ op \in Operation /\ op.at = "define" /\ Installing /\ phase = "up"
      /\ UNCHANGED <<catalog, registrations, adapters>>
  BY AtStep DEF Define
<1>2. d \in Definitions /\ IInv
  BY <1>1, Definitional DEF Installing, CInv
<1>3. OpOK' \/ ~(phase' = "up")
  <2>1. CASE Goto("create")
    <3>1. /\ op' \in Operation /\ op'.at = "create" /\ op'.kind = op.kind /\ op'.i = op.i
          /\ op'.reg = op.reg /\ op'.todo = op.todo
      BY <1>1, <2>1, GotoEffect
    <3>2. Installing'
      BY <1>1, <3>1 DEF Installing, Keyed, Named, Registered
    <3> QED
      BY <3>1, <3>2 DEF OpOK
  <2>2. CASE op' = Idle
    BY <2>2, IdleIsOperation DEF OpOK
  <2> QED
    BY <2>1, <2>2 DEF Define
<1>4. CASE registry[FactoryOf[d]] # None
  <2>1. QuietStep /\ phase' = "up" /\ op.at # "finish"
    BY <1>1, <1>4 DEF Define, QuietStep, vars
  <2> QED
    BY <1>1, <1>3, <2>1, OnlyOpMoves
<1>5. CASE registry[FactoryOf[d]] = None
  <2>1. Install(d, saved) /\ SaveRegistrations(saved)
    BY <1>5 DEF Define
  <2>2. IInv' /\ instances' = instances /\ phase' = "up" /\ Kept(saved)
    BY <1>2, <2>1, InstallKeeps, InstallEffect DEF SaveRegistrations, Kept
  <2>3. MemoryMatches'
    BY <1>1, <2>2 DEF CInv, MemoryMatches
  <2>4. StoreMatches'
    BY <2>2, <2>3, StoreKeeps DEF CInv
  <2>5. CoordinatorTypes'
    BY <1>1, <2>2 DEF CInv, CoordinatorTypes, Kept
  <2>6. AdaptersOK'
    BY <1>1, <2>2, AdaptersStay
  <2> QED
    BY <1>3, <2>2, <2>3, <2>4, <2>5, <2>6 DEF CInv
<1> QED
  BY <1>4, <1>5

LEMMA CreateRegisteredKeeps ==
  ASSUME CInv, NEW i \in Instances, NEW saved \in BOOLEAN, CreateRegistered(i, saved)
  PROVE  CInv'
<1> DEFINE c == op.reg.contribution
<1>1. /\ op \in Operation /\ op.at = "create" /\ Installing
      /\ UNCHANGED <<catalog, adapters>>
      /\ registrations[i] = None /\ stored_registrations[i] = None /\ adapters[i] = None
  BY AtStep DEF CreateRegistered, FreshUUID
<1>2. /\ c \in Contributions /\ DefOf[c] \in Definitions /\ ScopeOf[c] \in Scopes
      /\ DefOf[c] # AdapterDef /\ NoProps \in Props /\ IInv
      /\ op.reg \in Registration /\ op.reg # None
  BY <1>1, Definitional DEF Installing, CInv
<1>3. PICK on \in BOOLEAN : Create(i, DefOf[c], ScopeOf[c], NoProps, on, saved)
  BY DEF CreateRegistered
<1>4. IInv'
  BY <1>2, <1>3, CreateKeeps
<1>5. /\ instances[i] = None /\ phase' = "up" /\ Stored(saved)
      /\ ~saved => instances' = instances
      /\ saved => /\ instances'[i] # None /\ instances'[i].def = DefOf[c]
                  /\ instances'[i].scope = ScopeOf[c]
      /\ \A k \in Instances : k # i => instances'[k] = instances[k]
  BY <1>2, <1>3, CreateEffect
<1>6. /\ registrations' = IF saved THEN [registrations EXCEPT ![i] = op.reg] ELSE registrations
      /\ stored_registrations' = IF saved THEN registrations ELSE stored_registrations
  BY DEF CreateRegistered
<1>7. CoordinatorTypes'
  BY <1>1, <1>2, <1>6 DEF CInv, CoordinatorTypes, RegistrationOrNone
<1>8. \A k \in Instances :
        registrations'[k] = IF saved /\ k = i THEN op.reg ELSE registrations[k]
  BY <1>6 DEF CInv, CoordinatorTypes
<1>9. MemoryMatches'
  <2>1. InstancesMatch(instances', registrations') /\ Placed(instances')
    BY <1>1, <1>2, <1>5, <1>8 DEF CInv, MemoryMatches, InstancesMatch, Placed
  <2>2. \A k \in Instances : registrations[k] # None /\ registrations[k].contribution = c =>
          registrations[k].key # op.reg.key \/ op.reg.key = None
    BY <1>1 DEF Installing, Keyed, Named, Registered
  <2>3. KeyUsedOnce(registrations')
    BY <1>8, <2>2 DEF CInv, MemoryMatches, KeyUsedOnce
  <2> QED
    BY <2>1, <2>3 DEF MemoryMatches
<1>10. StoreMatches'
  <2>1. CASE saved
    <3>1. InstancesMatch(instances', registrations) /\ KeyUsedOnce(registrations)
      BY <1>1, <1>5 DEF CInv, MemoryMatches, InstancesMatch
    <3> QED
      BY <1>4, <1>5, <1>6, <1>9, <2>1, <3>1, SavedMatches DEF MemoryMatches, Stored
  <2>2. CASE ~saved
    BY <1>5, <1>6, <2>2 DEF CInv, StoreMatches, Stored
  <2> QED
    BY <2>1, <2>2
<1>11. AdaptersOK'
  <2>1. \A k \in Instances : adapters[k] # None =>
          /\ registrations'[k] # None /\ registrations'[k].enabled
          /\ adapters[k] \in Instances
          /\ instances'[adapters[k]] # None /\ instances'[adapters[k]].def = AdapterDef
    BY <1>1, <1>5, <1>8
    DEF CInv, AdaptersOK, CoordinatorTypes, Registered, InstancesOf, Recorded
  <2>2. \A k, l \in Instances : adapters[k] # None /\ adapters[k] = adapters[l] => k = l
    BY DEF CInv, AdaptersOK
  <2> QED
    BY <1>1, <2>1, <2>2 DEF AdaptersOK, Registered, InstancesOf, Recorded
<1>12. OpOK'
  <2>1. CASE ~saved
    BY <2>1, IdleIsOperation DEF CreateRegistered, OpOK
  <2>2. CASE saved
    <3> DEFINE at == IF c \in Exporting THEN "adapter" ELSE "finish"
    <3>1. op' = [op EXCEPT !.i = i, !.at = at]
      BY <2>2 DEF CreateRegistered
    <3>2. at \in {"adapter", "finish"}
      OBVIOUS
    <3> HIDE DEF at
    <3>3. /\ op' \in Operation /\ op'.at = at /\ op'.kind = op.kind /\ op'.i = i
          /\ op'.reg = op.reg /\ op'.todo = op.todo
      BY <1>1, <3>1, <3>2 DEF Operation
    <3>4. i \in Registered' /\ registrations'[i] = op.reg
      BY <1>2, <1>8, <2>2 DEF Registered
    <3>5. Installing'
      BY <1>1, <3>2, <3>3, <3>4 DEF Installing
    <3> QED
      BY <1>5, <3>3, <3>5 DEF OpOK
  <2> QED
    BY <2>1, <2>2
<1> QED
  BY <1>4, <1>7, <1>9, <1>10, <1>11, <1>12 DEF CInv

LEMMA CreateRaisesKeeps ==
  ASSUME CInv, CreateRaises
  PROVE  CInv'
<1>1. QuietStep /\ UNCHANGED <<catalog, adapters>> /\ op.at # "finish"
  BY DEF CreateRaises, QuietStep
<1>2. OpOK'
  BY IdleIsOperation DEF CreateRaises, OpOK
<1> QED
  BY <1>1, <1>2, OnlyOpMoves

\* The places an operation is sent to when its adapter cannot be had.
LEMMA AdapterFails ==
  ASSUME CInv, op.at = "adapter", phase' = "up",
         UNCHANGED <<registrations>>,
         IF op.kind = "install" THEN Goto("undo") ELSE op' = Idle
  PROVE  OpOK'
<1>1. CASE op.kind = "install"
  <2>1. op \in Operation /\ Installing
    BY <1>1, AtStep DEF Switching
  <2>2. /\ op' \in Operation /\ op'.at = "undo" /\ op'.kind = op.kind /\ op'.i = op.i
        /\ op'.reg = op.reg /\ op'.todo = op.todo
    BY <1>1, <2>1, GotoEffect
  <2>3. Installing'
    BY <2>1, <2>2 DEF Installing, Registered
  <2> QED
    BY <2>2, <2>3 DEF OpOK
<1>2. CASE op.kind # "install"
  BY <1>2, IdleIsOperation DEF OpOK
<1> QED
  BY <1>1, <1>2

\* The adapter is built, or its descriptor installed: the operation goes on.
LEMMA AdapterGoesOn ==
  ASSUME CInv, op.at = "adapter", phase' = "up", UNCHANGED <<registrations>>,
         op' = op \/ Goto("finish")
  PROVE  OpOK' /\ op'.kind = op.kind /\ op'.i = op.i
<1>1. op \in Operation /\ (Installing \/ (Switching /\ op.kind = "enable"))
  BY AtStep
<1>2. /\ op' \in Operation /\ op'.at \in {"adapter", "finish"} /\ op'.kind = op.kind
      /\ op'.i = op.i /\ op'.reg = op.reg /\ op'.todo = op.todo
  BY <1>1, GotoEffect
<1>3. CASE Installing
  <2>1. Installing'
    BY <1>2, <1>3 DEF Installing, Registered
  <2> QED
    BY <1>2, <2>1 DEF OpOK
<1>4. CASE Switching /\ op.kind = "enable"
  <2>1. Switching'
    BY <1>2, <1>4 DEF Switching, Registered
  <2> QED
    BY <1>2, <2>1 DEF OpOK
<1> QED
  BY <1>1, <1>3, <1>4

LEMMA DefineAdapterKeeps ==
  ASSUME CInv, NEW saved \in BOOLEAN, DefineAdapter(saved)
  PROVE  CInv'
<1>1. /\ op.at = "adapter" /\ UNCHANGED <<catalog, registrations, adapters>>
      /\ Install(AdapterDef, saved)
  BY DEF DefineAdapter
<1>2. IInv' /\ instances' = instances /\ phase' = "up" /\ Kept(saved)
  BY <1>1, Definitional, InstallKeeps, InstallEffect
  DEF DefineAdapter, SaveRegistrations, Kept, CInv
<1>3. MemoryMatches'
  BY <1>1, <1>2 DEF CInv, MemoryMatches
<1>4. StoreMatches'
  BY <1>2, <1>3, StoreKeeps DEF CInv
<1>5. CoordinatorTypes'
  BY <1>1, <1>2 DEF CInv, CoordinatorTypes, Kept
<1>6. AdaptersOK'
  BY <1>1, <1>2, AdaptersStay
<1>7. OpOK'
  BY <1>1, <1>2, AdapterFails, AdapterGoesOn DEF DefineAdapter
<1> QED
  BY <1>2, <1>3, <1>4, <1>5, <1>6, <1>7 DEF CInv

LEMMA BuildAdapterKeeps ==
  ASSUME CInv, NEW a \in Instances, NEW saved \in BOOLEAN, BuildAdapter(a, saved)
  PROVE  CInv'
<1> DEFINE c == registrations[op.i].contribution
<1>1. /\ op.at = "adapter" /\ UNCHANGED <<catalog, registrations>>
      /\ op.i \in Instances /\ op.i \in Registered /\ registrations[op.i] \in Registration
      /\ registrations[op.i].enabled \/ op.kind = "enable"
      /\ registrations[a] = None /\ stored_registrations[a] = None
  BY AtStep DEF BuildAdapter, FreshUUID, Installing, Switching, Registered, CInv,
     CoordinatorTypes, RegistrationOrNone
<1>2. c \in Contributions /\ AdapterScope[c] \in Scopes /\ IInv
  BY <1>1, Definitional DEF CInv
<1>3. PICK on \in BOOLEAN : Create(a, AdapterDef, AdapterScope[c], AdapterProps, on, saved)
  BY DEF BuildAdapter
<1>4. IInv'
  BY <1>2, <1>3, Definitional, CreateKeeps
<1>5. /\ instances[a] = None /\ phase' = "up" /\ Stored(saved)
      /\ ~saved => instances' = instances
      /\ saved => instances'[a] # None /\ instances'[a].def = AdapterDef
      /\ \A k \in Instances : k # a => instances'[k] = instances[k]
  BY <1>2, <1>3, Definitional, CreateEffect
<1>6. Kept(saved)
  BY <1>5 DEF BuildAdapter, SaveRegistrations, Kept
<1>7. MemoryMatches'
  BY <1>1, <1>5 DEF CInv, MemoryMatches, InstancesMatch, Placed
<1>8. StoreMatches'
  BY <1>4, <1>6, <1>7, StoreKeeps DEF CInv
<1>9. adapters' = IF saved THEN [adapters EXCEPT ![op.i] = a] ELSE adapters
  BY DEF BuildAdapter
<1>10. CoordinatorTypes'
  BY <1>1, <1>6, <1>9 DEF CInv, CoordinatorTypes, Kept
<1>11. OpOK' /\ (saved => op'.kind = op.kind /\ op'.i = op.i /\ op'.at = "finish")
  <2>1. CASE saved
    BY <1>1, <1>5, <2>1, AdapterGoesOn, AtStep, GotoEffect DEF BuildAdapter
  <2>2. CASE ~saved
    BY <1>1, <1>5, <2>2, AdapterFails DEF BuildAdapter
  <2> QED
    BY <2>1, <2>2
<1>12. AdaptersOK'
  <2>1. CASE ~saved
    BY <1>1, <1>5, <1>9, <2>1, AdaptersStay
  <2>2. CASE saved
    <3>1. \A k \in Instances : adapters'[k] = IF k = op.i THEN a ELSE adapters[k]
      BY <1>1, <1>9, <2>2 DEF CInv, CoordinatorTypes
    <3>2. \A k \in Instances : adapters[k] # None =>
            /\ registrations[k] # None /\ registrations[k].enabled
            /\ adapters[k] \in Instances /\ adapters[k] # a
            /\ instances[adapters[k]] # None /\ instances[adapters[k]].def = AdapterDef
      BY <1>1, <1>5 DEF CInv, AdaptersOK, CoordinatorTypes, Registered, InstancesOf, Recorded
    <3>3. \A k, l \in Instances : adapters'[k] # None /\ adapters'[k] = adapters'[l] => k = l
      BY <3>1, <3>2 DEF CInv, AdaptersOK
    <3>4. \A k \in Instances : adapters'[k] # None =>
            /\ registrations'[k] # None
            /\ registrations'[k].enabled \/ (op.kind = "enable" /\ k = op.i)
            /\ adapters'[k] \in Instances
            /\ instances'[adapters'[k]] # None /\ instances'[adapters'[k]].def = AdapterDef
      BY <1>1, <1>5, <2>2, <3>1, <3>2 DEF Registered
    <3> QED
      BY <1>11, <2>2, <3>3, <3>4 DEF AdaptersOK, Registered, InstancesOf, Recorded
  <2> QED
    BY <2>1, <2>2
<1> QED
  BY <1>4, <1>7, <1>8, <1>10, <1>11, <1>12 DEF CInv

LEMMA NoTargetKeeps ==
  ASSUME CInv, NoTarget
  PROVE  CInv'
<1>1. QuietStep /\ UNCHANGED <<catalog, adapters>> /\ op.at = "adapter" /\ phase' = "up"
  BY AtStep DEF NoTarget, QuietStep, vars
<1>2. OpOK'
  BY <1>1, AdapterFails DEF NoTarget, QuietStep
<1> QED
  BY <1>1, <1>2, OnlyOpMoves

-----------------------------------------------------------------------------
(* The steps that take away *)

\* The adapter is forgotten: what is next, for each operation.
LEMMA AfterKill ==
  ASSUME CInv, op.at \in {"kill", "undo"}, phase' = "up", UNCHANGED <<registrations>>,
         op.i \in Instances => adapters'[op.i] = None,
         \A j \in Instances : instances[j] # None /\ instances[j].def # AdapterDef =>
           instances'[j] = instances[j],
         Goto(CASE op.at = "undo" -> "unregister"
                [] op.kind = "disable" -> "finish"
                [] OTHER -> "delete")
  PROVE  OpOK'
<1> DEFINE at == CASE op.at = "undo" -> "unregister"
                   [] op.kind = "disable" -> "finish"
                   [] OTHER -> "delete"
<1>0. op.at = "undo" => op.kind = "install"
  BY AtStep DEF Installing
<1>1. at \in {"unregister", "finish", "delete"} /\ op \in Operation /\ Goto(at)
  <2>1. at \in {"unregister", "finish", "delete"}
    OBVIOUS
  <2>2. op \in Operation
    BY AtStep
  <2>3. Goto(at)
    OBVIOUS
  <2> QED
    BY <2>1, <2>2, <2>3
<1>2. /\ op.at = "undo" => at = "unregister"
      /\ op.at = "kill" => at = IF op.kind = "disable" THEN "finish" ELSE "delete"
  BY <1>0
<1> HIDE DEF at
<1>3. /\ op' \in Operation /\ op'.at = at /\ op'.kind = op.kind /\ op'.i = op.i
      /\ op'.reg = op.reg /\ op'.todo = op.todo
  BY <1>1, GotoEffect
<1>4. CASE op.at = "undo"
  <2>1. Installing'
    BY <1>2, <1>3, <1>4, AtStep DEF Installing, Registered
  <2> QED
    BY <1>3, <2>1 DEF OpOK
<1>5. CASE op.at = "kill"
  <2>1. CASE Switching /\ op.kind = "disable"
    <3>1. Switching'
      BY <1>2, <1>3, <1>5, <2>1 DEF Switching, Registered
    <3> QED
      BY <1>3, <3>1 DEF OpOK
  <2>2. CASE Upgrading
    <3>1. PICK j \in Instances \ {op.i} :
            /\ op.todo = {j} /\ registrations[j] = None
            /\ instances[j] # None /\ instances[j].def = DefOf[op.reg.contribution]
      BY <2>2 DEF Upgrading
    <3>2. instances'[j] = instances[j] /\ at = "delete" /\ op.i \in Instances
      BY <1>2, <1>5, <2>2, <3>1, Definitional DEF Upgrading, Registered
    <3>3. Upgrading'
      BY <1>3, <2>2, <3>1, <3>2 DEF Upgrading, Registered
    <3> QED
      BY <1>3, <3>3 DEF OpOK
  <2>3. CASE Uninstalling
    <3>1. Uninstalling'
      BY <1>2, <1>3, <1>5, <2>3 DEF Uninstalling, Registered
    <3> QED
      BY <1>3, <3>1 DEF OpOK
  <2> QED
    BY <1>5, <2>1, <2>2, <2>3, AtStep
<1> QED
  BY <1>4, <1>5

LEMMA KillAdapterKeeps ==
  ASSUME CInv, NEW saved \in BOOLEAN, KillAdapter(saved)
  PROVE  CInv'
<1> DEFINE a == adapters[op.i]
           gone == a = None \/ a \notin Recorded \/ Unkillable(a)
<1>1. /\ op.at \in {"kill", "undo"} /\ UNCHANGED <<catalog, registrations>> /\ phase = "up"
      /\ op.i \in Instances
      /\ adapters' = [adapters EXCEPT ![op.i] = None]
  BY AtStep DEF KillAdapter, Installing, Switching, Upgrading, Uninstalling, Registered
<1>2. \A k \in Instances : adapters'[k] = IF k = op.i THEN None ELSE adapters[k]
  BY <1>1 DEF CInv, CoordinatorTypes
<1>3. /\ phase' = "up"
      /\ \A j \in Instances : \/ instances'[j] = instances[j]
                              \/ instances'[j] = None /\ j = a /\ instances[j].def = AdapterDef
      /\ IInv'
      /\ Kept(saved) \/ (store' = store /\ stored_registrations' = stored_registrations)
  <2>1. CASE gone
    <3>1. UNCHANGED vars /\ stored_registrations' = stored_registrations
      BY <2>1 DEF KillAdapter
    <3>2. QuietStep /\ instances' = instances /\ store' = store
      BY <1>1, <3>1 DEF QuietStep, vars, instanceVars
    <3>3. IInv' /\ phase' = "up"
      BY <1>1, <3>1, <3>2, QuietMatches DEF vars
    <3> QED
      BY <3>1, <3>2, <3>3
  <2>2. CASE ~gone
    <3>1. a \in Instances /\ a \in Recorded /\ instances[a].def = AdapterDef
      BY <1>1, <2>2 DEF CInv, AdaptersOK, CoordinatorTypes, InstancesOf
    <3>2. PICK built \in BOOLEAN : Delete(a, built, saved)
      BY <2>2 DEF KillAdapter
    <3>3. SaveRegistrations(saved)
      BY <2>2 DEF KillAdapter
    <3>4. IInv'
      BY <3>1, <3>2, DeleteKeeps DEF CInv
    <3>5. /\ phase' = "up" /\ Stored(saved)
          /\ instances'[a] = None \/ instances'[a] = instances[a]
          /\ \A j \in Instances : j # a => instances'[j] = instances[j]
      BY <3>1, <3>2, DeleteEffect DEF CInv
    <3> QED
      BY <3>1, <3>3, <3>4, <3>5 DEF SaveRegistrations, Kept
  <2> QED
    BY <2>1, <2>2
<1>4. MemoryMatches'
  BY <1>1, <1>3, ForgettingMatches DEF CInv
<1>5. StoreMatches'
  BY <1>3, <1>4, StoreKeeps DEF CInv, StoreMatches
<1>6. CoordinatorTypes'
  BY <1>1, <1>3 DEF CInv, CoordinatorTypes, Kept
<1>7. OpOK'
  BY <1>1, <1>2, <1>3, AfterKill DEF KillAdapter
<1>8. AdaptersOK'
  <2>1. \A k \in Instances : adapters'[k] # None =>
          /\ registrations'[k] # None /\ registrations'[k].enabled
          /\ adapters'[k] \in Instances /\ adapters'[k] = adapters[k] /\ adapters[k] # a
          /\ instances'[adapters'[k]] # None /\ instances'[adapters'[k]].def = AdapterDef
    BY <1>1, <1>2, <1>3
    DEF CInv, AdaptersOK, CoordinatorTypes, Registered, InstancesOf, Recorded
  <2>2. \A k, l \in Instances : adapters'[k] # None /\ adapters'[k] = adapters'[l] => k = l
    BY <1>2 DEF CInv, AdaptersOK
  <2> QED
    BY <2>1, <2>2 DEF AdaptersOK, Registered, InstancesOf, Recorded
<1> QED
  BY <1>3, <1>4, <1>5, <1>6, <1>7, <1>8 DEF CInv

LEMMA UnregisterKeeps ==
  ASSUME CInv, NEW saved \in BOOLEAN, Unregister(saved)
  PROVE  CInv'
<1>1. /\ op.at = "unregister" /\ Installing /\ UNCHANGED <<catalog, adapters>>
      /\ op.i \in Instances /\ registrations[op.i] = op.reg /\ op.reg \in Registration
      /\ adapters[op.i] = None /\ op' = Idle
      /\ registrations' = [registrations EXCEPT ![op.i] = None]
  BY AtStep DEF Unregister, Installing, Registered
<1>2. PICK built \in BOOLEAN : Delete(op.i, built, saved)
  BY DEF Unregister
<1>3. IInv'
  BY <1>1, <1>2, DeleteKeeps DEF CInv
<1>4. /\ instances[op.i] # None /\ phase' = "up" /\ Stored(saved)
      /\ instances'[op.i] = None \/ instances'[op.i] = instances[op.i]
      /\ \A j \in Instances : j # op.i => instances'[j] = instances[j]
  BY <1>1, <1>2, DeleteEffect DEF CInv
<1>5. Kept(saved)
  BY <1>4 DEF Unregister, SaveRegistrations, Kept
<1>6. \A k \in Instances : registrations'[k] = IF k = op.i THEN None ELSE registrations[k]
  BY <1>1 DEF CInv, CoordinatorTypes
<1>7. MemoryMatches'
  BY <1>4, <1>6, ForgettingMatches DEF CInv
<1>8. StoreMatches'
  BY <1>3, <1>5, <1>7, StoreKeeps DEF CInv
<1>9. CoordinatorTypes'
  BY <1>1, <1>5 DEF CInv, CoordinatorTypes, RegistrationOrNone, Kept
<1>10. OpOK'
  BY <1>1, IdleIsOperation DEF OpOK
<1>11. instances[op.i].def # AdapterDef
  BY <1>1, <1>4, Definitional DEF CInv, MemoryMatches, InstancesMatch
<1>12. AdaptersOK'
  <2>1. \A k \in Instances : adapters[k] # None =>
          /\ registrations'[k] # None /\ registrations'[k].enabled
          /\ adapters[k] \in Instances
          /\ instances'[adapters[k]] # None /\ instances'[adapters[k]].def = AdapterDef
    BY <1>1, <1>4, <1>6, <1>11
    DEF CInv, AdaptersOK, CoordinatorTypes, Registered, InstancesOf, Recorded
  <2>2. \A k, l \in Instances : adapters[k] # None /\ adapters[k] = adapters[l] => k = l
    BY DEF CInv, AdaptersOK
  <2> QED
    BY <1>1, <2>1, <2>2 DEF AdaptersOK, Registered, InstancesOf, Recorded
<1> QED
  BY <1>3, <1>7, <1>8, <1>9, <1>10, <1>12 DEF CInv

LEMMA DeleteOldKeeps ==
  ASSUME CInv, NEW saved \in BOOLEAN, DeleteOld(saved)
  PROVE  CInv'
<1>1. /\ op.at = "delete" /\ UNCHANGED <<catalog, registrations, adapters>>
      /\ op \in Operation /\ phase = "up" /\ (Upgrading \/ Uninstalling)
      /\ op.i \in Instances /\ registrations[op.i] # None /\ adapters[op.i] = None
  BY AtStep DEF DeleteOld, Upgrading, Uninstalling, Registered
<1>2. CASE ~(op.i \in Recorded /\ ~Unkillable(op.i))
  <2>1. QuietStep /\ op' = Idle
    BY <1>1, <1>2 DEF DeleteOld, QuietStep
  <2>2. OpOK'
    BY <2>1, IdleIsOperation DEF OpOK
  <2> QED
    BY <1>1, <2>1, <2>2, OnlyOpMoves
<1>3. CASE op.i \in Recorded /\ ~Unkillable(op.i)
  <2>1. PICK built \in BOOLEAN : Delete(op.i, built, saved)
    BY <1>3 DEF DeleteOld
  <2>2. IInv'
    BY <1>1, <2>1, DeleteKeeps DEF CInv
  <2>3. /\ instances[op.i] # None /\ phase' = "up" /\ Stored(saved)
        /\ instances'[op.i] = None \/ instances'[op.i] = instances[op.i]
        /\ \A j \in Instances : j # op.i => instances'[j] = instances[j]
    BY <1>1, <2>1, DeleteEffect DEF CInv
  <2>4. Kept(saved)
    BY <1>3, <2>3 DEF DeleteOld, SaveRegistrations, Kept
  <2>5. MemoryMatches'
    BY <1>1, <2>3, ForgettingMatches DEF CInv
  <2>6. StoreMatches'
    BY <2>2, <2>4, <2>5, StoreKeeps DEF CInv
  <2>7. CoordinatorTypes'
    BY <1>1, <2>4 DEF CInv, CoordinatorTypes, Kept
  <2>8. instances[op.i].def # AdapterDef
    <3>1. registrations[op.i] \in Registration
      BY <1>1 DEF CInv, CoordinatorTypes, RegistrationOrNone
    <3> QED
      BY <1>1, <2>3, <3>1, Definitional DEF CInv, MemoryMatches, InstancesMatch
  <2>9. AdaptersOK'
    BY <1>1, <2>3, <2>8, AdaptersStay
  <2>10. OpOK'
    <3>1. CASE ~saved
      BY <1>3, <3>1, IdleIsOperation DEF DeleteOld, OpOK
    <3>2. CASE saved
      <4>1. Goto("finish")
        BY <1>3, <3>2 DEF DeleteOld
      <4>2. /\ op' \in Operation /\ op'.at = "finish" /\ op'.kind = op.kind
            /\ op'.i = op.i /\ op'.reg = op.reg /\ op'.todo = op.todo
        BY <1>1, <4>1, GotoEffect
      <4>3. CASE Uninstalling
        <5>1. Uninstalling'
          BY <1>1, <4>2, <4>3 DEF Uninstalling, Registered
        <5> QED
          BY <2>3, <4>2, <5>1 DEF OpOK
      <4>4. CASE Upgrading
        <5>1. PICK j \in Instances \ {op.i} :
                /\ op.todo = {j} /\ registrations[j] = None
                /\ instances[j] # None /\ instances[j].def = DefOf[op.reg.contribution]
          BY <4>4 DEF Upgrading
        <5>2. Upgrading'
          BY <1>1, <2>3, <4>2, <4>4, <5>1 DEF Upgrading, Registered
        <5> QED
          BY <2>3, <4>2, <5>2 DEF OpOK
      <4> QED
        BY <1>1, <4>3, <4>4
    <3> QED
      BY <3>1, <3>2
  <2> QED
    BY <2>2, <2>5, <2>6, <2>7, <2>9, <2>10 DEF CInv
<1> QED
  BY <1>2, <1>3

\* What FinalRegistrations makes of the registrations, operation by operation.
LEMMA FinalByKind ==
  ASSUME CInv, op.at # "idle"
  PROVE  /\ (Installing \/ Changing) =>
              \A k \in Instances : FinalRegistrations[k] = registrations[k]
         /\ Switching => \A k \in Instances :
              FinalRegistrations[k] = IF k = op.i THEN op.reg ELSE registrations[k]
         /\ Upgrading => \A j \in op.todo : \A k \in Instances :
              FinalRegistrations[k] = IF k = j THEN op.reg
                                      ELSE IF k = op.i THEN None ELSE registrations[k]
         /\ Uninstalling => \A k \in Instances :
              FinalRegistrations[k] = IF k = op.i THEN None ELSE registrations[k]
  BY DEF FinalRegistrations, Installing, Changing, Switching, Upgrading, Uninstalling

LEMMA FinalMatches ==
  ASSUME CInv, op.at = "finish"
  PROVE  /\ FinalRegistrations \in [Instances -> RegistrationOrNone]
         /\ InstancesMatch(instances, FinalRegistrations)
         /\ KeyUsedOnce(FinalRegistrations)
<1> DEFINE F == FinalRegistrations
<1>1. /\ op.reg \in RegistrationOrNone /\ op.at # "idle"
      /\ Installing \/ Switching \/ Upgrading \/ Uninstalling \/ Changing
  BY AtStep DEF Operation
<1>2. F \in [Instances -> RegistrationOrNone]
  BY <1>1 DEF FinalRegistrations, CInv, CoordinatorTypes, RegistrationOrNone
<1>3. InstancesMatch(instances, registrations) /\ KeyUsedOnce(registrations)
  BY DEF CInv, MemoryMatches
<1>4. CASE Installing \/ Changing
  <2>1. \A k \in Instances : F[k] = registrations[k]
    BY <1>1, <1>4, FinalByKind
  <2> HIDE DEF F
  <2>2. InstancesMatch(instances, F) /\ KeyUsedOnce(F)
    BY <1>3, <2>1 DEF InstancesMatch, KeyUsedOnce
  <2> QED
    BY <1>2, <2>2 DEF F
<1>5. CASE Switching
  <2>1. \A k \in Instances : F[k] = IF k = op.i THEN op.reg ELSE registrations[k]
    BY <1>1, <1>5, FinalByKind
  <2>2. /\ op.i \in Instances /\ registrations[op.i] # None
        /\ op.reg.contribution = registrations[op.i].contribution
        /\ op.reg.key = registrations[op.i].key
    <3>1. op.i \in Instances /\ registrations[op.i] \in Registration
      BY <1>5 DEF Switching, Registered, CInv, CoordinatorTypes, RegistrationOrNone
    <3> QED
      BY <1>5, <3>1, RegistrationAssumption DEF Switching, Registration
  <2> HIDE DEF F
  <2>3. InstancesMatch(instances, F) /\ KeyUsedOnce(F)
    BY <1>3, <2>1, <2>2 DEF InstancesMatch, KeyUsedOnce
  <2> QED
    BY <1>2, <2>3 DEF F
<1>6. CASE Upgrading
  <2>1. PICK j \in Instances \ {op.i} :
          /\ op.todo = {j} /\ registrations[j] = None
          /\ instances[j] # None /\ instances[j].def = DefOf[op.reg.contribution]
    BY <1>6 DEF Upgrading
  <2>2. \A k \in Instances : F[k] = IF k = j THEN op.reg
                                    ELSE IF k = op.i THEN None ELSE registrations[k]
    BY <1>1, <1>6, <2>1, FinalByKind
  <2>3. /\ op.i \in Instances /\ registrations[op.i] # None
        /\ op.reg.contribution = registrations[op.i].contribution
        /\ op.reg.key = registrations[op.i].key
    BY <1>6 DEF Upgrading, Registered
  <2> HIDE DEF F
  <2>4. InstancesMatch(instances, F)
    BY <1>3, <2>1, <2>2 DEF InstancesMatch
  <2>5. KeyUsedOnce(F)
    BY <1>3, <2>1, <2>2, <2>3 DEF KeyUsedOnce
  <2> QED
    BY <1>2, <2>4, <2>5 DEF F
<1>7. CASE Uninstalling
  <2>1. \A k \in Instances : F[k] = IF k = op.i THEN None ELSE registrations[k]
    BY <1>1, <1>7, FinalByKind
  <2> HIDE DEF F
  <2>2. InstancesMatch(instances, F) /\ KeyUsedOnce(F)
    BY <1>3, <2>1 DEF InstancesMatch, KeyUsedOnce
  <2> QED
    BY <1>2, <2>2 DEF F
<1> QED
  BY <1>1, <1>4, <1>5, <1>6, <1>7

LEMMA FinishKeeps ==
  ASSUME CInv, NEW saved \in BOOLEAN, Finish(saved)
  PROVE  CInv'
<1>1. /\ op.at = "finish" /\ registrations' = FinalRegistrations
      /\ UNCHANGED <<catalog, adapters>> /\ phase = "up" /\ op \in Operation
      /\ Installing \/ Switching \/ Upgrading \/ Uninstalling \/ Changing
  BY AtStep DEF Finish
<1>2. IInv' /\ Kept(saved) /\ instances' = instances /\ phase' = "up"
  BY <1>1, PersistKeeps DEF Finish, CInv
<1>3. MemoryMatches'
  BY <1>1, <1>2, FinalMatches DEF CInv, MemoryMatches
<1>4. StoreMatches'
  BY <1>2, <1>3, StoreKeeps DEF CInv
<1>5. CoordinatorTypes'
  BY <1>1, <1>2, FinalMatches DEF CInv, CoordinatorTypes, Kept
<1>6. OpOK'
  <2>1. CASE ~saved /\ op.kind = "install"
    <3>1. Installing /\ Goto("undo")
      BY <1>1, <2>1 DEF Finish, Switching, Upgrading, Uninstalling, Changing
    <3>2. /\ op' \in Operation /\ op'.at = "undo" /\ op'.kind = op.kind
          /\ op'.i = op.i /\ op'.reg = op.reg /\ op'.todo = op.todo
      BY <1>1, <3>1, GotoEffect
    <3>3. op.i \in Instances /\ registrations'[op.i] = registrations[op.i]
      BY <1>1, <3>1, FinalByKind DEF Installing, Registered
    <3>4. Installing'
      BY <1>1, <3>1, <3>2, <3>3 DEF Installing, Registered
    <3> QED
      BY <1>2, <3>2, <3>4 DEF OpOK
  <2>2. CASE ~(~saved /\ op.kind = "install")
    BY <2>2, IdleIsOperation DEF Finish, OpOK
  <2> QED
    BY <2>1, <2>2
<1>7. AdaptersOK'
  <2>1. \A k \in Instances : adapters[k] # None =>
          /\ registrations'[k] # None /\ registrations'[k].enabled
    <3>1. \A k \in Instances : adapters[k] # None =>
            /\ registrations[k] # None
            /\ registrations[k].enabled \/ (op.kind = "enable" /\ k = op.i)
      BY DEF CInv, AdaptersOK, Registered
    <3>2. CASE Installing \/ Changing
      BY <1>1, <3>1, <3>2, FinalByKind DEF Installing, Changing
    <3>3. CASE Switching
      <4>1. op.kind = "enable" => op.reg # None /\ op.reg.enabled
        <5>1. registrations[op.i] \in Registration
          BY <3>3 DEF Switching, Registered, CInv, CoordinatorTypes, RegistrationOrNone
        <5> QED
          BY <3>3, <5>1, RegistrationAssumption DEF Switching, Registration
      <4>2. op.kind # "enable" => adapters[op.i] = None
        BY <1>1, <3>3 DEF Switching
      <4> QED
        BY <1>1, <3>1, <3>3, <4>1, <4>2, FinalByKind
    <3>4. CASE Upgrading
      <4>1. PICK j \in Instances \ {op.i} : op.todo = {j} /\ registrations[j] = None
        BY <3>4 DEF Upgrading
      <4>2. adapters[op.i] = None /\ op.kind # "enable"
        BY <1>1, <3>4 DEF Upgrading
      <4> QED
        BY <1>1, <3>1, <3>4, <4>1, <4>2, FinalByKind
    <3>5. CASE Uninstalling
      BY <1>1, <3>1, <3>5, FinalByKind DEF Uninstalling
    <3> QED
      BY <1>1, <3>2, <3>3, <3>4, <3>5
  <2>2. \A k \in Instances : adapters[k] # None => adapters[k] \in InstancesOf(AdapterDef)'
    BY <1>2 DEF CInv, AdaptersOK, InstancesOf, Recorded
  <2>3. \A k, l \in Instances : adapters[k] # None /\ adapters[k] = adapters[l] => k = l
    BY DEF CInv, AdaptersOK
  <2> QED
    BY <1>1, <2>1, <2>2, <2>3 DEF AdaptersOK, Registered
<1> QED
  BY <1>2, <1>3, <1>4, <1>5, <1>6, <1>7 DEF CInv

-----------------------------------------------------------------------------
(* restore and crashes *)

LEMMA StartEffect ==
  ASSUME IInv, NEW Broken \in SUBSET Instances, Start(Broken)
  PROVE  /\ phase = "down" /\ phase' = "up" /\ Saves
         /\ \A i \in Instances :
              /\ instances'[i] # None <=> i \in Restorable
              /\ instances'[i] # None =>
                   /\ store.instances[i] # None
                   /\ instances'[i].def = store.instances[i].def
                   /\ instances'[i].scope = store.instances[i].scope
                   /\ instances'[i].enabled = store.instances[i].enabled
<1> DEFINE rebuilt == {i \in Restorable : store.instances[i].enabled}
<1>1. phase = "down" /\ phase' = "up" /\ Saves
  BY DEF Start, Saves
<1>2. ASSUME NEW i \in Instances
      PROVE  /\ instances'[i] # None <=> i \in Restorable
             /\ instances'[i] # None =>
                  /\ store.instances[i] # None
                  /\ instances'[i].def = store.instances[i].def
                  /\ instances'[i].scope = store.instances[i].scope
                  /\ instances'[i].enabled = store.instances[i].enabled
  <2>1. CASE i \notin Restorable
    BY <2>1 DEF Start
  <2>2. CASE i \in Restorable
    <3> DEFINE was == store.instances[i]
               status == IF i \notin rebuilt THEN "disabled"
                         ELSE IF i \in Broken THEN "failed" ELSE "active"
    <3>1. instances'[i] = [was EXCEPT !.status = status]
      BY <2>2 DEF Start
    <3>2. was \in Record /\ was # None
      BY <2>2, RecordAssumption DEF IInv, TypeOK, Restorable, Persisted, RecordOrNone
    <3>3. status \in Status
      BY DEF Status
    <3> HIDE DEF status
    <3>4. [was EXCEPT !.status = status] \in Record
      BY <3>2, <3>3 DEF Record
    <3> QED
      BY <2>2, <3>1, <3>2, <3>4, RecordAssumption DEF Record
  <2> QED
    BY <2>1, <2>2
<1> QED
  BY <1>1, <1>2

LEMMA BeginRestoreKeeps ==
  ASSUME CInv, NEW Broken \in SUBSET Instances, BeginRestore(Broken)
  PROVE  CInv'
<1> DEFINE todo == {i \in Instances : stored_registrations[i] # None
                      /\ ScopeOf[stored_registrations[i].contribution] \in AgentScopes}
<1>1. /\ Start(Broken) /\ catalog' = catalog
      /\ registrations' = stored_registrations /\ stored_registrations' = stored_registrations
      /\ adapters' = [i \in Instances |-> None]
      /\ op' = Busy("rebuild", "restore", None, None, todo)
  BY DEF BeginRestore, SaveRegistrations
<1>2. IInv' /\ phase' = "up" /\ Saves
  BY <1>1, StartKeeps, StartEffect DEF CInv
<1>3. \A i \in Instances : instances'[i] # None =>
        /\ store.instances[i] # None
        /\ instances'[i].def = store.instances[i].def
        /\ instances'[i].scope = store.instances[i].scope
  BY <1>1, StartEffect DEF CInv
<1>4. MemoryMatches'
  <2>1. InstancesMatch(instances', stored_registrations) /\ Placed(instances')
    BY <1>3 DEF CInv, StoreMatches, InstancesMatch, Placed
  <2> QED
    BY <1>1, <2>1 DEF CInv, StoreMatches, MemoryMatches
<1>5. StoreMatches'
  BY <1>1, <1>2, <1>4, SavedMatches DEF MemoryMatches
<1>6. CoordinatorTypes'
  BY <1>1 DEF CInv, CoordinatorTypes
<1>7. OpOK'
  <2>1. /\ op' \in Operation /\ op'.at = "rebuild" /\ op'.kind = "restore"
        /\ op'.todo = todo
    BY <1>1 DEF Busy, Operation, RegistrationOrNone
  <2>2. Restoring'
    BY <1>1, <2>1 DEF Restoring, Registered, ScopeOfReg
  <2> QED
    BY <1>2, <2>1, <2>2 DEF OpOK
<1>8. AdaptersOK'
  BY <1>1 DEF AdaptersOK
<1> QED
  BY <1>2, <1>4, <1>5, <1>6, <1>7, <1>8 DEF CInv

\* The operation has one registration less to do.
LEMMA OneDone ==
  ASSUME CInv, op.at \in {"rebuild", "adapters"}, NEW i, phase' = "up",
         op' = [op EXCEPT !.todo = @ \ {i}],
         \A k \in op.todo : registrations'[k] = registrations[k]
  PROVE  OpOK' /\ op'.at = op.at /\ op'.kind = "restore"
<1>1. Restoring /\ op \in Operation
  BY AtStep
<1>2. /\ op' \in Operation /\ op'.at = op.at /\ op'.kind = op.kind
      /\ op'.todo = op.todo \ {i}
  BY <1>1 DEF Operation
<1>3. Restoring'
  BY <1>1, <1>2 DEF Restoring, Registered, ScopeOfReg
<1> QED
  BY <1>1, <1>2, <1>3 DEF OpOK, Restoring

LEMMA RebuildKeeps ==
  ASSUME CInv, NEW i \in Instances, NEW j \in Instances, Rebuild(i, j)
  PROVE  CInv'
<1> DEFINE r == registrations[i]
           c == r.contribution
<1>1. /\ op.at = "rebuild" /\ i \in op.todo /\ Restoring
      /\ UNCHANGED <<catalog, adapters>>
      /\ r \in Registration /\ ScopeOf[c] \in AgentScopes
      /\ registrations[j] = None
      /\ stored_registrations' = registrations
      /\ registrations' = [registrations EXCEPT ![j] = r]
      /\ op' = [op EXCEPT !.todo = @ \ {i}]
  BY AtStep DEF Rebuild, FreshUUID, Restoring, Registered, ScopeOfReg, CInv,
     CoordinatorTypes, RegistrationOrNone
<1>2. /\ c \in Contributions /\ DefOf[c] \in Definitions /\ ScopeOf[c] \in Scopes
      /\ DefOf[c] # AdapterDef /\ NoProps \in Props /\ IInv
      /\ r # None /\ r.enabled \in BOOLEAN /\ ~ServerScoped(c)
  BY <1>1, Definitional DEF CInv, ServerScoped
<1>3. PICK saved \in BOOLEAN :
        saved = TRUE /\ Create(j, DefOf[c], ScopeOf[c], NoProps, r.enabled, saved)
  BY DEF Rebuild
<1>4. Create(j, DefOf[c], ScopeOf[c], NoProps, r.enabled, saved)
  BY <1>3
<1>5. /\ instances[j] = None /\ phase' = "up" /\ Stored(saved)
      /\ saved => /\ instances'[j] # None /\ instances'[j].def = DefOf[c]
                  /\ instances'[j].scope = ScopeOf[c]
      /\ \A k \in Instances : k # j => instances'[k] = instances[k]
  BY <1>2, <1>4, CreateEffect
<1>5a. IInv'
  BY <1>2, <1>4, CreateKeeps
<1>6. \A k \in Instances : registrations'[k] = IF k = j THEN r ELSE registrations[k]
  BY <1>1 DEF CInv, CoordinatorTypes
<1>7. MemoryMatches'
  <2>1. InstancesMatch(instances', registrations') /\ Placed(instances')
    BY <1>2, <1>3, <1>5, <1>6 DEF CInv, MemoryMatches, InstancesMatch, Placed
  <2>2. KeyUsedOnce(registrations')
    BY <1>2, <1>6 DEF CInv, MemoryMatches, KeyUsedOnce
  <2> QED
    BY <2>1, <2>2 DEF MemoryMatches
<1>8. StoreMatches'
  <2>1. InstancesMatch(instances', registrations) /\ KeyUsedOnce(registrations)
    BY <1>1, <1>5 DEF CInv, MemoryMatches, InstancesMatch
  <2>2. Saves
    BY <1>3, <1>5 DEF Stored
  <2> QED
    BY <1>1, <1>5a, <1>7, <2>1, <2>2, SavedMatches DEF MemoryMatches
<1>9. CoordinatorTypes'
  BY <1>1, <1>2 DEF CInv, CoordinatorTypes, RegistrationOrNone
<1>10. OpOK' /\ op'.at = "rebuild" /\ op'.kind = "restore"
  <2>1. \A k \in op.todo : registrations'[k] = registrations[k]
    BY <1>1, <1>6 DEF Restoring, Registered
  <2> QED
    BY <1>1, <1>5, <2>1, OneDone
<1>11. AdaptersOK'
  <2>1. \A k \in Instances : adapters[k] # None =>
          /\ registrations'[k] # None /\ registrations'[k].enabled
          /\ adapters[k] \in Instances
          /\ instances'[adapters[k]] # None /\ instances'[adapters[k]].def = AdapterDef
    BY <1>1, <1>5, <1>6
    DEF CInv, AdaptersOK, CoordinatorTypes, Registered, InstancesOf, Recorded
  <2>2. \A k, l \in Instances : adapters[k] # None /\ adapters[k] = adapters[l] => k = l
    BY DEF CInv, AdaptersOK
  <2> QED
    BY <1>1, <2>1, <2>2 DEF AdaptersOK, Registered, InstancesOf, Recorded
<1> QED
  BY <1>5a, <1>7, <1>8, <1>9, <1>10, <1>11 DEF CInv

LEMMA RebuiltKeeps ==
  ASSUME CInv, Rebuilt
  PROVE  CInv'
<1> DEFINE todo == {i \in Registered : /\ registrations[i].enabled
                                       /\ registrations[i].contribution \in Exporting}
<1>1. /\ QuietStep /\ UNCHANGED <<catalog, adapters>> /\ op.at = "rebuild" /\ phase' = "up"
      /\ op' = Busy("adapters", "restore", None, None, todo)
  BY AtStep DEF Rebuilt, QuietStep, vars
<1>2. /\ op' \in Operation /\ op'.at = "adapters" /\ op'.kind = "restore"
      /\ op'.todo = todo
  BY <1>1 DEF Busy, Operation, RegistrationOrNone, Registered
<1>3. Restoring'
  BY <1>1, <1>2 DEF Restoring, Registered, QuietStep
<1>4. OpOK'
  BY <1>1, <1>2, <1>3 DEF OpOK
<1> QED
  BY <1>1, <1>4, OnlyOpMoves

LEMMA ReadaptKeeps ==
  ASSUME CInv, NEW i \in Instances, NEW a \in Instances, Readapt(i, a)
  PROVE  CInv'
<1> DEFINE c == registrations[i].contribution
<1>1. /\ op.at = "adapters" /\ i \in op.todo /\ Restoring
      /\ UNCHANGED <<catalog, registrations>>
      /\ registrations[i] \in Registration /\ registrations[i].enabled
      /\ registrations[a] = None
      /\ stored_registrations' = registrations
      /\ adapters' = [adapters EXCEPT ![i] = a]
      /\ op' = [op EXCEPT !.todo = @ \ {i}]
  BY AtStep DEF Readapt, FreshUUID, Restoring, Registered, CInv, SaveRegistrations,
     CoordinatorTypes, RegistrationOrNone
<1>2. c \in Contributions /\ AdapterScope[c] \in Scopes /\ IInv /\ registrations[i] # None
  BY <1>1, Definitional DEF CInv
<1>3. PICK on, saved \in BOOLEAN :
        saved = TRUE /\ Create(a, AdapterDef, AdapterScope[c], AdapterProps, on, saved)
  BY DEF Readapt
<1>4. Create(a, AdapterDef, AdapterScope[c], AdapterProps, on, saved)
  BY <1>3
<1>5. /\ instances[a] = None /\ phase' = "up" /\ Stored(saved)
      /\ saved => instances'[a] # None /\ instances'[a].def = AdapterDef
      /\ \A k \in Instances : k # a => instances'[k] = instances[k]
  BY <1>2, <1>4, Definitional, CreateEffect
<1>5a. IInv'
  BY <1>2, <1>4, Definitional, CreateKeeps
<1>6. MemoryMatches'
  BY <1>1, <1>3, <1>5 DEF CInv, MemoryMatches, InstancesMatch, Placed
<1>7. StoreMatches'
  <2>1. Kept(saved)
    BY <1>1, <1>3, <1>5 DEF Kept
  <2> QED
    BY <1>5a, <1>6, <2>1, StoreKeeps DEF CInv
<1>8. CoordinatorTypes'
  BY <1>1 DEF CInv, CoordinatorTypes
<1>9. OpOK' /\ op'.kind = "restore"
  BY <1>1, <1>5, OneDone
<1>10. AdaptersOK'
  <2>1. \A k \in Instances : adapters'[k] = IF k = i THEN a ELSE adapters[k]
    BY <1>1 DEF CInv, CoordinatorTypes
  <2>2. \A k \in Instances : adapters[k] # None =>
          /\ registrations[k] # None /\ registrations[k].enabled
          /\ adapters[k] \in Instances /\ adapters[k] # a
          /\ instances[adapters[k]] # None /\ instances[adapters[k]].def = AdapterDef
    BY <1>1, <1>5 DEF CInv, AdaptersOK, CoordinatorTypes, Registered, InstancesOf, Recorded
  <2>3. \A k, l \in Instances : adapters'[k] # None /\ adapters'[k] = adapters'[l] => k = l
    BY <2>1, <2>2 DEF CInv, AdaptersOK
  <2>4. \A k \in Instances : adapters'[k] # None =>
          /\ registrations'[k] # None /\ registrations'[k].enabled
          /\ adapters'[k] \in Instances
          /\ instances'[adapters'[k]] # None /\ instances'[adapters'[k]].def = AdapterDef
    BY <1>1, <1>2, <1>3, <1>5, <2>1, <2>2
  <2> QED
    BY <2>3, <2>4 DEF AdaptersOK, Registered, InstancesOf, Recorded
<1> QED
  BY <1>5a, <1>6, <1>7, <1>8, <1>9, <1>10 DEF CInv

LEMMA PassOverKeeps ==
  ASSUME CInv, NEW i \in Instances, PassOver(i)
  PROVE  CInv'
<1>1. /\ QuietStep /\ UNCHANGED <<catalog, adapters>> /\ op.at = "adapters" /\ phase' = "up"
      /\ op' = [op EXCEPT !.todo = @ \ {i}]
  BY AtStep DEF PassOver, QuietStep, vars
<1>2. OpOK'
  BY <1>1, OneDone DEF QuietStep
<1> QED
  BY <1>1, <1>2, OnlyOpMoves

LEMMA RestoredKeeps ==
  ASSUME CInv, Restored
  PROVE  CInv'
<1>1. /\ op.at = "adapters" /\ UNCHANGED <<catalog, registrations, adapters>> /\ phase = "up"
      /\ op' = Idle
  BY AtStep DEF Restored
<1>2. PICK saved \in BOOLEAN : PersistRegistrations(saved)
  BY DEF Restored
<1>3. IInv' /\ Kept(saved) /\ instances' = instances /\ phase' = "up"
  BY <1>1, <1>2, PersistKeeps DEF CInv
<1>4. MemoryMatches'
  BY <1>1, <1>3 DEF CInv, MemoryMatches
<1>5. StoreMatches'
  BY <1>3, <1>4, StoreKeeps DEF CInv
<1>6. CoordinatorTypes'
  BY <1>1, <1>3 DEF CInv, CoordinatorTypes, Kept
<1>7. OpOK'
  BY <1>1, IdleIsOperation DEF OpOK
<1>8. AdaptersOK'
  BY <1>1, <1>3, AdaptersStay
<1> QED
  BY <1>3, <1>4, <1>5, <1>6, <1>7, <1>8 DEF CInv

LEMMA CrashEffect ==
  ASSUME CInv, CoordinatorCrash
  PROVE  CInv'
<1>1. /\ Crash /\ op' = Idle /\ catalog' = catalog
      /\ registrations' = [i \in Instances |-> None]
      /\ adapters' = [i \in Instances |-> None]
      /\ stored_registrations' = stored_registrations
  BY DEF CoordinatorCrash
<1>2. IInv'
  BY <1>1, CrashKeeps DEF CInv
<1>3. instances' = [i \in Instances |-> None] /\ store' = store
  BY <1>1 DEF Crash, Stop
<1>4. MemoryMatches'
  BY <1>1, <1>3 DEF MemoryMatches, InstancesMatch, Placed, KeyUsedOnce
<1>5. StoreMatches'
  BY <1>1, <1>3 DEF CInv, StoreMatches
<1>6. CoordinatorTypes'
  BY <1>1 DEF CInv, CoordinatorTypes, RegistrationOrNone
<1>7. OpOK' /\ AdaptersOK'
  BY <1>1, IdleIsOperation DEF OpOK, AdaptersOK
<1> QED
  BY <1>2, <1>4, <1>5, <1>6, <1>7 DEF CInv

-----------------------------------------------------------------------------
LEMMA CoordinatorInitHolds == CoordinatorInit => CInv
<1> SUFFICES ASSUME CoordinatorInit PROVE CInv
  OBVIOUS
<1>1. IInv
  BY InitHolds DEF CoordinatorInit
<1>2. /\ instances = [i \in Instances |-> None]
      /\ store.instances = [i \in Instances |-> None]
  BY DEF CoordinatorInit, Init, EmptySnapshot, Snapshot, Saved
<1>3. MemoryMatches /\ StoreMatches
  BY <1>2 DEF CoordinatorInit, MemoryMatches, StoreMatches, InstancesMatch, Placed, KeyUsedOnce
<1>4. CoordinatorTypes
  BY DEF CoordinatorInit, CoordinatorTypes, RegistrationOrNone
<1>5. OpOK /\ AdaptersOK
  BY IdleIsOperation DEF CoordinatorInit, OpOK, AdaptersOK
<1> QED
  BY <1>1, <1>3, <1>4, <1>5 DEF CInv

LEMMA RequestKeeps ==
  ASSUME CInv, RequestNext
  PROVE  CInv'
<1>1. ASSUME NEW i \in Instances, NEW saved \in BOOLEAN,
             \/ \E enabled \in BOOLEAN : SetEnabled(i, enabled, saved)
             \/ \E p \in Settings : UpdateProperties(i, p, saved)
             \/ \E j \in Instances : BeginUpgrade(i, j, saved)
      PROVE  CInv'
  BY <1>1, SetEnabledKeeps, UpdatePropertiesKeeps, BeginUpgradeKeeps
<1>2. ASSUME NEW i \in Instances, NEW p \in Settings \union {NoProps},
             NEW enabled \in BOOLEAN, UpdateRaises(i, p, enabled)
      PROVE  CInv'
  BY <1>2, UpdateRaisesKeeps
<1> QED
  BY <1>1, <1>2, BeginInstallKeeps, BeginUninstallKeeps, RescanKeeps DEF RequestNext

LEMMA StepKeeps ==
  ASSUME CInv, StepNext
  PROVE  CInv'
  BY CreateRaisesKeeps, NoTargetKeeps, DefineKeeps, DefineAdapterKeeps, KillAdapterKeeps,
     UnregisterKeeps, DeleteOldKeeps, FinishKeeps, CreateRegisteredKeeps, BuildAdapterKeeps
  DEF StepNext

LEMMA RestoreKeeps ==
  ASSUME CInv, RestoreNext
  PROVE  CInv'
  BY BeginRestoreKeeps, RebuiltKeeps, RestoredKeeps, CrashEffect, RebuildKeeps, ReadaptKeeps,
     PassOverKeeps
  DEF RestoreNext

LEMMA CoordinatorNextKeeps == CInv /\ [CoordinatorNext]_allVars => CInv'
<1> SUFFICES ASSUME CInv, [CoordinatorNext]_allVars PROVE CInv'
  OBVIOUS
<1>1. CASE UNCHANGED allVars
  <2>1. QuietStep /\ UNCHANGED <<catalog, adapters, op, instances, phase>>
    BY <1>1 DEF allVars, coordinatorVars, QuietStep, vars, instanceVars
  <2>2. IInv' /\ MemoryMatches' /\ StoreMatches'
    BY <2>1, QuietMatches
  <2>3. CoordinatorTypes'
    BY <2>1 DEF CInv, CoordinatorTypes, QuietStep
  <2>4. OpOK'
    BY <2>1 DEF CInv, OpOK, Installing, Switching, Upgrading, Uninstalling, Changing,
       Restoring, Keyed, Named, Registered, ScopeOfReg, QuietStep
  <2>5. AdaptersOK'
    BY <2>1 DEF CInv, AdaptersOK, Registered, InstancesOf, Recorded, QuietStep
  <2> QED
    BY <2>2, <2>3, <2>4, <2>5 DEF CInv
<1>2. CASE CoordinatorNext
  BY <1>2, AgentKeeps, RequestKeeps, StepKeeps, RestoreKeeps DEF CoordinatorNext
<1> QED
  BY <1>1, <1>2

\* The inductive invariant, with the manager's, holds of every run of the
\* coordinator.
THEOREM CoordinatorInvariance == CoordinatorSpec => []CInv
  BY CoordinatorInitHolds, CoordinatorNextKeeps, PTL DEF CoordinatorSpec

\* The coordinator's variables keep their types.
THEOREM CoordinatorTypeCorrect == CoordinatorSpec => []CoordinatorTypeOK
<1>1. CInv => CoordinatorTypeOK
  BY AtStep DEF CInv, CoordinatorTypes, CoordinatorTypeOK, Operation
<1> QED
  BY <1>1, CoordinatorInvariance, PTL

\* Installing under a key is idempotent, whatever saves are refused and
\* wherever the server crashes (install, upgrade, uninstall, restore).
THEOREM KeyedRegistrationAlwaysUnique == CoordinatorSpec => []UniqueKeyedRegistration
<1>1. CInv => UniqueKeyedRegistration
  BY DEF CInv, MemoryMatches, KeyUsedOnce, UniqueKeyedRegistration, Registered
<1> QED
  BY <1>1, CoordinatorInvariance, PTL

\* Between operations the adapters the coordinator answers for serve enabled
\* registrations, each its own (_install_adapters, _kill_adapters).
THEOREM AdaptersAlwaysServeEnabled == CoordinatorSpec => []AdaptersServeEnabled
<1>1. CInv => AdaptersServeEnabled
  BY IdleIsOperation DEF CInv, AdaptersOK, AdaptersServeEnabled
<1> QED
  BY <1>1, CoordinatorInvariance, PTL

-----------------------------------------------------------------------------
(* Registrations and instances, while nothing was cut short or refused *)

\* The run gives every contribution a definition of its own; two that shared
\* one would each be registered for half of its instances.
OwnDefinitions == \A b, c \in Contributions : DefOf[b] = DefOf[c] => b = c

\* An instance x (or None) and a registration r (or None) of one UUID, as far
\* as contributions outside the agents' scopes are concerned: a registration
\* has its instance, enabled alike, and a dynamic plugin's instance has its
\* registration.
AgreeAt(x, r) ==
  /\ r # None /\ ServerScoped(r.contribution) => x # None /\ x.enabled = r.enabled
  /\ x # None /\ r = None => \A c \in Contributions : x.def = DefOf[c] => ~ServerScoped(c)

Agree(I, R) == \A i \in Instances : AgreeAt(I[i], R[i])

\* The snapshot is up to date.
InSync ==
  /\ stored_registrations = registrations
  /\ \A i \in Instances : store.instances[i] = Saved(instances[i])

\* What the operation in flight makes of the registrations, and which of the
\* instances it has still to delete.
Outcome  == IF op.kind = "restore" THEN registrations ELSE FinalRegistrations
Replaced == IF op.kind \in {"upgrade", "uninstall"} THEN {op.i} ELSE {}
Staying  == [i \in Instances |-> IF i \in Replaced THEN None ELSE instances[i]]

\* While no operation was cut short and no save refused, the instances that
\* stay agree with the registrations as the operation will leave them; where
\* the operation may still end without a save, the snapshot is up to date.
AgreeOK ==
  clean =>
    /\ phase # "up" => Agree(store.instances, stored_registrations)
    /\ phase = "up" =>
         /\ Agree(Staying, Outcome)
         /\ op.at = "finish" => \A i \in Replaced : instances[i] = None
         /\ op.at \in {"idle", "define", "create"} => InSync
         /\ op.at \notin {"undo", "unregister"}

AInv == CInv /\ AgreeOK

\* Outcome and Staying, operation by operation.
OutcomeFacts ==
  /\ op.kind \in {"idle", "install", "properties", "restore"} =>
       \A k \in Instances : Outcome[k] = registrations[k] /\ Staying[k] = instances[k]
  /\ op.kind \in {"enable", "disable"} => \A k \in Instances :
       /\ Outcome[k] = IF k = op.i THEN op.reg ELSE registrations[k]
       /\ Staying[k] = instances[k]
  /\ op.kind = "upgrade" => \A k \in Instances :
       /\ Outcome[k] = IF k \in op.todo THEN op.reg
                       ELSE IF k = op.i THEN None ELSE registrations[k]
       /\ Staying[k] = IF k = op.i THEN None ELSE instances[k]
  /\ op.kind = "uninstall" => \A k \in Instances :
       /\ Outcome[k] = IF k = op.i THEN None ELSE registrations[k]
       /\ Staying[k] = IF k = op.i THEN None ELSE instances[k]

LEMMA OutcomeHolds == CInv => OutcomeFacts
<1> SUFFICES ASSUME CInv PROVE OutcomeFacts
  OBVIOUS
<1>1. op.kind \in {"idle", "install", "properties", "enable", "disable", "uninstall"} =>
        op.todo = {}
  BY IdleIsOperation
  DEF CInv, OpOK, Installing, Switching, Upgrading, Uninstalling, Changing, Restoring
<1> QED
  BY <1>1 DEF OutcomeFacts, Outcome, Staying, Replaced, FinalRegistrations

LEMMA OutcomeHoldsNext == CInv' => OutcomeFacts'
  BY OutcomeHolds, PTL

\* A call that was not refused, from a state in which nothing was.
LEMMA CleanSave ==
  ASSUME NEW saved \in BOOLEAN, Interrupted(saved), clean'
  PROVE  clean /\ saved
  BY DEF Interrupted

\* After a save the snapshot is up to date.
LEMMA SavedInSync ==
  ASSUME Saves, stored_registrations' = registrations'
  PROVE  InSync'
  BY DEF Saves, Snapshot, InSync

\* Between operations there is nothing to delete and nothing to come.
LEMMA IdleAgrees ==
  ASSUME CInv, op = Idle
  PROVE  Agree(Staying, Outcome) <=> Agree(instances, registrations)
<1>1. op.kind = "idle"
  BY IdleIsOperation
<1>2. \A k \in Instances : Outcome[k] = registrations[k] /\ Staying[k] = instances[k]
  BY <1>1, OutcomeHolds DEF OutcomeFacts
<1> QED
  BY <1>2 DEF Agree

-----------------------------------------------------------------------------
LEMMA AgentAgrees ==
  ASSUME AInv, CInv', AgentNext
  PROVE  AgreeOK'
<1>1. PICK s \in AgentScopes :
        AgentCreated(s) \/ \E saved \in BOOLEAN : AgentRemoved(s, saved)
  BY DEF AgentNext
<1>2. /\ UNCHANGED <<registrations, adapters, op>>
      /\ instances' = instances /\ phase = "up" /\ phase' = "up"
  BY <1>1 DEF AgentCreated, AgentRemoved, AddScope, RemoveScope, coordinatorVars, instanceVars
<1>3. UNCHANGED <<Staying, Outcome, Replaced>>
  BY <1>2 DEF Staying, Outcome, Replaced, FinalRegistrations
<1>4. CASE AgentCreated(s)
  <2>1. clean' = clean /\ store' = store /\ stored_registrations' = stored_registrations
    BY <1>4 DEF AgentCreated, AddScope, coordinatorVars
  <2> QED
    BY <1>2, <1>3, <2>1 DEF AInv, AgreeOK, InSync, Agree
<1>5. ASSUME NEW saved \in BOOLEAN, AgentRemoved(s, saved), clean'
      PROVE  AgreeOK'
  <2>1. clean /\ saved
    BY <1>5, CleanSave DEF AgentRemoved
  <2>2. Saves /\ stored_registrations' = registrations'
    BY <1>5, <2>1 DEF AgentRemoved, RemoveScope, PersistState, SaveRegistrations, Saves
  <2>3. InSync'
    BY <2>2, SavedInSync
  <2> QED
    BY <1>2, <1>3, <2>1, <2>3 DEF AInv, AgreeOK, Agree
<1> QED
  BY <1>1, <1>4, <1>5 DEF AgreeOK

\* From between operations into one that has done nothing yet, and back.
LEMMA NothingDone ==
  ASSUME AInv, CInv', QuietStep, clean' = clean, phase = "up",
         op.at \in {"idle", "define", "create"}, op.kind \in {"idle", "install"},
         op'.at \in {"idle", "define", "create"}, op'.kind \in {"idle", "install"}
  PROVE  AgreeOK'
<1>1. /\ instances' = instances /\ registrations' = registrations /\ store' = store
      /\ stored_registrations' = stored_registrations /\ phase' = "up"
  BY DEF QuietStep, vars, instanceVars
<1>2. \A k \in Instances : Staying'[k] = Staying[k] /\ Outcome'[k] = Outcome[k]
  BY <1>1, OutcomeHolds, OutcomeHoldsNext DEF OutcomeFacts, AInv
<1> QED
  BY <1>1, <1>2 DEF AInv, AgreeOK, Agree, InSync

LEMMA BeginInstallAgrees ==
  ASSUME AInv, CInv', NEW c \in Contributions, NEW key \in Keys, BeginInstall(c, key)
  PROVE  AgreeOK'
  BY NothingDone, IdleIsOperation DEF BeginInstall, QuietStep, Busy

LEMMA CreateRaisesAgrees ==
  ASSUME AInv, CInv', CreateRaises
  PROVE  AgreeOK'
<1>1. op.kind = "install" /\ phase = "up"
  BY AtStep DEF CreateRaises, AInv, Installing
<1> QED
  BY <1>1, NothingDone, IdleIsOperation DEF CreateRaises, QuietStep

LEMMA RescanAgrees ==
  ASSUME AInv, CInv', NEW c \in Contributions, NEW v \in Releases, Rescan(c, v)
  PROVE  AgreeOK'
  BY NothingDone, IdleIsOperation DEF Rescan, QuietStep

LEMMA BeginUninstallAgrees ==
  ASSUME AInv, CInv', NEW i \in Instances, BeginUninstall(i)
  PROVE  AgreeOK'
<1>1. /\ op = Idle /\ phase = "up" /\ phase' = "up" /\ clean' = clean /\ instances' = instances
      /\ registrations' = registrations
      /\ op'.at = "kill" /\ op'.kind = "uninstall" /\ op'.i = i
  BY DEF BeginUninstall, Busy, vars, instanceVars
<1>2. clean => Agree(instances, registrations)
  BY <1>1, IdleAgrees DEF AInv, AgreeOK
<1>3. \A k \in Instances :
        /\ Outcome'[k] = IF k = i THEN None ELSE registrations[k]
        /\ Staying'[k] = IF k = i THEN None ELSE instances[k]
  BY <1>1, OutcomeHoldsNext DEF OutcomeFacts
<1> QED
  BY <1>1, <1>2, <1>3 DEF AgreeOK, Agree, AgreeAt

LEMMA SetEnabledAgrees ==
  ASSUME AInv, CInv', NEW i \in Instances, NEW enabled \in BOOLEAN, NEW saved \in BOOLEAN,
         SetEnabled(i, enabled, saved), clean'
  PROVE  AgreeOK'
<1> DEFINE r == registrations[i]
           new == [r EXCEPT !.enabled = enabled]
           at == AfterUpdate(r.contribution, enabled)
           kind == IF enabled THEN "enable" ELSE "disable"
<1>1. /\ clean /\ saved /\ op = Idle /\ phase = "up" /\ registrations' = registrations
      /\ r \in Registration /\ r # None
  BY CleanSave, Definitional
  DEF SetEnabled, Unique, Registered, AInv, CInv, CoordinatorTypes, RegistrationOrNone
<1>2. user_properties[i] \in PropsOrNone /\ NoProps \in Props /\ IInv
  BY Definitional DEF AInv, CInv, IInv, TypeOK
<1>3. /\ phase' = "up" /\ instances'[i] # None /\ instances'[i].enabled = enabled
      /\ \A j \in Instances : j # i => instances'[j] = instances[j]
  BY <1>1, <1>2, ReconfigureEffect DEF SetEnabled
<1>4. op' = Busy(at, kind, i, new, {})
  BY <1>1 DEF SetEnabled
<1>5. /\ kind \in {"enable", "disable"}
      /\ at \in {"adapter", "finish", "kill"}
  BY DEF AfterUpdate
<1>6. new.enabled = enabled /\ new # None /\ new.contribution = r.contribution
  <2>1. new \in Registration /\ new.enabled = enabled /\ new.contribution = r.contribution
    BY <1>1 DEF Registration
  <2> QED
    BY <2>1, RegistrationAssumption
<1> HIDE DEF at, kind, new
<1>7. op'.at = at /\ op'.kind = kind /\ op'.i = i /\ op'.reg = new
  BY <1>4 DEF Busy
<1>8. \A k \in Instances :
        /\ Outcome'[k] = IF k = i THEN new ELSE registrations[k]
        /\ Staying'[k] = instances'[k]
  BY <1>1, <1>5, <1>7, OutcomeHoldsNext DEF OutcomeFacts
<1>9. Agree(instances, registrations)
  BY <1>1, IdleAgrees DEF AInv, AgreeOK
<1>10. Agree(Staying', Outcome')
  <2>1. AgreeAt(Staying'[i], Outcome'[i])
    BY <1>3, <1>6, <1>8 DEF AgreeAt
  <2>2. \A k \in Instances : k # i => AgreeAt(Staying'[k], Outcome'[k])
    BY <1>3, <1>8, <1>9 DEF Agree
  <2> QED
    BY <2>1, <2>2 DEF Agree
<1>11. Replaced' = {}
  BY <1>5, <1>7 DEF Replaced
<1> QED
  BY <1>3, <1>5, <1>7, <1>10, <1>11 DEF AgreeOK, Agree

LEMMA UpdatePropertiesAgrees ==
  ASSUME AInv, CInv', NEW i \in Instances, NEW p \in Settings, NEW saved \in BOOLEAN,
         UpdateProperties(i, p, saved), clean'
  PROVE  AgreeOK'
<1>1. /\ clean /\ saved /\ op = Idle /\ phase = "up" /\ registrations' = registrations
      /\ instances[i] \in Record /\ p \in Props
  BY CleanSave, CoordinatorAssumption
  DEF UpdateProperties, Recorded, AInv, CInv, IInv, TypeOK, RecordOrNone
<1>2. /\ user_properties[i] \in PropsOrNone /\ IInv
      /\ instances[i].enabled \in BOOLEAN
  BY <1>1 DEF AInv, CInv, IInv, TypeOK, Record
<1>3. /\ phase' = "up" /\ instances[i] # None
      /\ instances'[i] # None /\ instances'[i].enabled = instances[i].enabled
      /\ instances'[i].def = instances[i].def
      /\ \A j \in Instances : j # i => instances'[j] = instances[j]
  BY <1>1, <1>2, ReconfigureEffect DEF UpdateProperties
<1>4. op'.at = "finish" /\ op'.kind = "properties"
  BY <1>1 DEF UpdateProperties, Busy
<1>5. \A k \in Instances : Outcome'[k] = registrations[k] /\ Staying'[k] = instances'[k]
  BY <1>1, <1>4, OutcomeHoldsNext DEF OutcomeFacts
<1>6. Agree(instances, registrations)
  BY <1>1, IdleAgrees DEF AInv, AgreeOK
<1>7. Agree(Staying', Outcome')
  BY <1>3, <1>5, <1>6 DEF Agree, AgreeAt
<1>8. Replaced' = {}
  BY <1>4 DEF Replaced
<1> QED
  BY <1>3, <1>4, <1>7, <1>8 DEF AgreeOK, Agree

LEMMA BeginUpgradeAgrees ==
  ASSUME AInv, CInv', NEW i \in Instances, NEW j \in Instances, NEW saved \in BOOLEAN,
         BeginUpgrade(i, j, saved), clean'
  PROVE  AgreeOK'
<1> DEFINE r == registrations[i]
           c == r.contribution
           new == [r EXCEPT !.version = catalog[c]]
<1>1. /\ clean /\ saved /\ op = Idle /\ phase = "up" /\ registrations' = registrations
      /\ r \in Registration /\ r # None /\ registrations[j] = None
  BY CleanSave, Definitional
  DEF BeginUpgrade, Unique, Registered, FreshUUID, AInv, CInv, CoordinatorTypes,
      RegistrationOrNone
<1>2. /\ c \in Contributions /\ DefOf[c] \in Definitions /\ ScopeOf[c] \in Scopes
      /\ NoProps \in Props /\ IInv /\ r.enabled \in BOOLEAN
  BY <1>1, Definitional DEF AInv, CInv
<1>3. /\ phase' = "up" /\ instances'[j] # None /\ instances'[j].enabled = r.enabled
      /\ \A k \in Instances : k # j => instances'[k] = instances[k]
  <2>1. Create(j, DefOf[c], ScopeOf[c], NoProps, r.enabled, saved)
    BY DEF BeginUpgrade
  <2>2. /\ phase' = "up"
        /\ saved => instances'[j] # None /\ instances'[j].enabled = r.enabled
        /\ \A k \in Instances : k # j => instances'[k] = instances[k]
    BY <1>2, <2>1, CreateEffect
  <2> QED
    BY <1>1, <2>2
<1>4. /\ new # None /\ new.enabled = r.enabled
  <2>1. new \in Registration /\ new.enabled = r.enabled
    BY <1>1 DEF Registration, AInv, CInv, CoordinatorTypes
  <2> QED
    BY <2>1, RegistrationAssumption
<1>5. op' = Busy("kill", "upgrade", i, new, {j})
  BY <1>1 DEF BeginUpgrade
<1> HIDE DEF new
<1>6. op'.at = "kill" /\ op'.kind = "upgrade" /\ op'.i = i /\ op'.reg = new /\ op'.todo = {j}
  BY <1>5 DEF Busy
<1>7. \A k \in Instances :
        /\ Outcome'[k] = IF k = j THEN new ELSE IF k = i THEN None ELSE registrations[k]
        /\ Staying'[k] = IF k = i THEN None ELSE instances'[k]
  BY <1>1, <1>6, OutcomeHoldsNext DEF OutcomeFacts
<1>8. Agree(instances, registrations) /\ i # j
  BY <1>1, IdleAgrees DEF AInv, AgreeOK
<1>9. Agree(Staying', Outcome')
  <2>1. AgreeAt(Staying'[j], Outcome'[j])
    BY <1>3, <1>4, <1>7, <1>8 DEF AgreeAt
  <2>2. AgreeAt(Staying'[i], Outcome'[i])
    BY <1>7, <1>8 DEF AgreeAt
  <2>3. \A k \in Instances : k # i /\ k # j => AgreeAt(Staying'[k], Outcome'[k])
    BY <1>3, <1>7, <1>8 DEF Agree
  <2> QED
    BY <2>1, <2>2, <2>3 DEF Agree
<1> QED
  BY <1>3, <1>6, <1>9 DEF AgreeOK, Agree

-----------------------------------------------------------------------------
LEMMA DefineAgrees ==
  ASSUME AInv, CInv', NEW saved \in BOOLEAN, Define(saved), clean'
  PROVE  AgreeOK'
<1> DEFINE d == DefOf[op.reg.contribution]
<1>1. op.kind = "install" /\ phase = "up" /\ op \in Operation /\ op.at = "define"
  BY AtStep DEF Define, AInv, Installing
<1>2. CASE registry[FactoryOf[d]] # None
  <2>1. QuietStep /\ clean' = clean /\ Goto("create")
    BY <1>2 DEF Define, QuietStep
  <2>2. op'.at = "create" /\ op'.kind = "install"
    BY <1>1, <2>1, GotoEffect
  <2> QED
    BY <1>1, <2>1, <2>2, NothingDone
<1>3. CASE registry[FactoryOf[d]] = None
  <2>1. /\ Install(d, saved) /\ SaveRegistrations(saved) /\ clean /\ saved
        /\ Goto("create") /\ registrations' = registrations
    BY <1>3, CleanSave DEF Define
  <2>2. instances' = instances /\ phase' = "up" /\ Saves
    BY <2>1, InstallEffect DEF Stored
  <2>3. op'.at = "create" /\ op'.kind = "install"
    BY <1>1, <2>1, GotoEffect
  <2>4. \A k \in Instances : Staying'[k] = Staying[k] /\ Outcome'[k] = Outcome[k]
    BY <1>1, <2>1, <2>2, <2>3, OutcomeHolds, OutcomeHoldsNext DEF OutcomeFacts, AInv
  <2>5. InSync'
    BY <2>1, <2>2, SavedInSync DEF SaveRegistrations
  <2> QED
    BY <1>1, <2>1, <2>2, <2>3, <2>4, <2>5 DEF AInv, AgreeOK, Agree
<1> QED
  BY <1>2, <1>3

LEMMA CreateRegisteredAgrees ==
  ASSUME AInv, CInv', NEW i \in Instances, NEW saved \in BOOLEAN,
         CreateRegistered(i, saved), clean'
  PROVE  AgreeOK'
<1> DEFINE c == op.reg.contribution
<1>1. /\ op \in Operation /\ op.at = "create" /\ op.kind = "install" /\ op.reg.enabled
      /\ op.reg \in Registration /\ clean /\ saved /\ phase = "up"
  BY AtStep, CleanSave DEF CreateRegistered, Installing, AInv
<1>2. /\ c \in Contributions /\ DefOf[c] \in Definitions /\ ScopeOf[c] \in Scopes
      /\ NoProps \in Props /\ IInv
  BY <1>1, Definitional DEF AInv, CInv
<1>3. PICK on \in BOOLEAN :
        on = TRUE /\ Create(i, DefOf[c], ScopeOf[c], NoProps, on, saved)
  BY DEF CreateRegistered
<1>4. /\ phase' = "up" /\ instances'[i] # None /\ instances'[i].enabled = op.reg.enabled
      /\ \A k \in Instances : k # i => instances'[k] = instances[k]
  <2>1. Create(i, DefOf[c], ScopeOf[c], NoProps, on, saved)
    BY <1>3
  <2>2. /\ phase' = "up"
        /\ saved => instances'[i] # None /\ instances'[i].enabled = on
        /\ \A k \in Instances : k # i => instances'[k] = instances[k]
    BY <1>2, <2>1, CreateEffect
  <2>3. op.reg.enabled = on
    BY <1>1, <1>3, Definitional
  <2> QED
    BY <1>1, <2>2, <2>3
<1>5. registrations' = [registrations EXCEPT ![i] = op.reg]
  BY <1>1 DEF CreateRegistered
<1>6. \A k \in Instances : registrations'[k] = IF k = i THEN op.reg ELSE registrations[k]
  BY <1>5 DEF AInv, CInv, CoordinatorTypes
<1>7. op'.kind = "install" /\ op'.at \in {"adapter", "finish"}
  BY <1>1 DEF CreateRegistered, Operation
<1>8. \A k \in Instances :
        /\ Outcome'[k] = IF k = i THEN op.reg ELSE Outcome[k]
        /\ Staying'[k] = IF k = i THEN instances'[i] ELSE Staying[k]
  BY <1>1, <1>4, <1>6, <1>7, OutcomeHolds, OutcomeHoldsNext DEF OutcomeFacts, AInv
<1>9. Agree(Staying', Outcome')
  <2>1. Agree(Staying, Outcome)
    BY <1>1 DEF AInv, AgreeOK
  <2>2. AgreeAt(Staying'[i], Outcome'[i])
    BY <1>1, <1>4, <1>8, Definitional DEF AgreeAt
  <2>3. \A k \in Instances : k # i => AgreeAt(Staying'[k], Outcome'[k])
    BY <1>8, <2>1 DEF Agree
  <2> QED
    BY <2>2, <2>3 DEF Agree
<1>10. Replaced' = {}
  BY <1>7 DEF Replaced
<1> QED
  BY <1>4, <1>7, <1>9, <1>10 DEF AgreeOK, Agree

LEMMA DefineAdapterAgrees ==
  ASSUME AInv, CInv', NEW saved \in BOOLEAN, DefineAdapter(saved), clean'
  PROVE  AgreeOK'
<1>1. /\ clean /\ saved /\ op.at = "adapter" /\ phase = "up" /\ op' = op
      /\ registrations' = registrations
  BY AtStep, CleanSave DEF DefineAdapter, AInv
<1>2. instances' = instances /\ phase' = "up"
  BY InstallEffect DEF DefineAdapter
<1>3. UNCHANGED <<Staying, Outcome, Replaced>>
  BY <1>1, <1>2 DEF Staying, Outcome, Replaced, FinalRegistrations
<1> QED
  BY <1>1, <1>2, <1>3 DEF AInv, AgreeOK, Agree

\* A new adapter is no dynamic plugin's instance.
LEMMA AdapterIsNoPlugin ==
  ASSUME NEW x, x # None, x.def = AdapterDef
  PROVE  AgreeAt(x, None)
  BY Definitional DEF AgreeAt

LEMMA BuildAdapterAgrees ==
  ASSUME AInv, CInv', NEW a \in Instances, NEW saved \in BOOLEAN,
         BuildAdapter(a, saved), clean'
  PROVE  AgreeOK'
<1> DEFINE c == registrations[op.i].contribution
<1>1. /\ clean /\ saved /\ op.at = "adapter" /\ phase = "up" /\ op \in Operation
      /\ registrations' = registrations /\ registrations[a] = None
      /\ op.i \in Registered /\ op.kind \in {"install", "enable"}
      /\ Goto("finish")
  BY AtStep, CleanSave DEF BuildAdapter, FreshUUID, Installing, Switching, AInv
<1>2. /\ c \in Contributions /\ AdapterScope[c] \in Scopes /\ IInv
      /\ op.i \in Instances /\ op.i # a
  BY <1>1, Definitional DEF Registered, AInv, CInv, CoordinatorTypes, RegistrationOrNone
<1>3. PICK on \in BOOLEAN : Create(a, AdapterDef, AdapterScope[c], AdapterProps, on, saved)
  BY DEF BuildAdapter
<1>4. /\ phase' = "up"
      /\ saved => instances'[a] # None /\ instances'[a].def = AdapterDef
      /\ \A k \in Instances : k # a => instances'[k] = instances[k]
  BY <1>2, <1>3, Definitional, CreateEffect
<1>5. /\ op'.at = "finish" /\ op'.kind = op.kind /\ op'.i = op.i /\ op'.reg = op.reg
  BY <1>1, GotoEffect
<1>6. \A k \in Instances :
        /\ Outcome'[k] = IF k = a THEN None ELSE Outcome[k]
        /\ Staying'[k] = IF k = a THEN instances'[a] ELSE Staying[k]
  BY <1>1, <1>2, <1>4, <1>5, OutcomeHolds, OutcomeHoldsNext DEF OutcomeFacts, AInv
<1>7. Agree(Staying', Outcome')
  <2>1. Agree(Staying, Outcome)
    BY <1>1 DEF AInv, AgreeOK
  <2>2. AgreeAt(Staying'[a], Outcome'[a])
    BY <1>1, <1>4, <1>6, AdapterIsNoPlugin
  <2> QED
    BY <1>6, <2>1, <2>2 DEF Agree
<1>8. Replaced' = {}
  BY <1>1, <1>5 DEF Replaced
<1> QED
  BY <1>4, <1>5, <1>7, <1>8 DEF AgreeOK, Agree

LEMMA KillAdapterAgrees ==
  ASSUME AInv, CInv', NEW saved \in BOOLEAN, KillAdapter(saved), clean'
  PROVE  AgreeOK'
<1> DEFINE a == adapters[op.i]
           gone == a = None \/ a \notin Recorded \/ Unkillable(a)
           at == CASE op.at = "undo" -> "unregister"
                   [] op.kind = "disable" -> "finish"
                   [] OTHER -> "delete"
<1>1. /\ op.at \in {"kill", "undo"} /\ registrations' = registrations /\ phase = "up"
      /\ op \in Operation
  BY AtStep DEF KillAdapter, AInv
<1>2. clean
  <2>1. CASE gone
    BY <2>1 DEF KillAdapter
  <2>2. CASE ~gone
    BY <2>2, CleanSave DEF KillAdapter
  <2> QED
    BY <2>1, <2>2
<1>3. op.at = "kill" /\ op.i \in Instances
  BY <1>1, <1>2, AtStep
  DEF AInv, AgreeOK, Switching, Upgrading, Uninstalling, Registered
<1>4. at = (IF op.kind = "disable" THEN "finish" ELSE "delete") /\ Goto(at)
  <2>1. Goto(at)
    BY DEF KillAdapter
  <2> QED
    BY <1>3, <2>1
<1> HIDE DEF at
<1>5. /\ op'.at = at /\ op'.kind = op.kind /\ op'.i = op.i /\ op'.reg = op.reg
      /\ op'.todo = op.todo
  BY <1>1, <1>4, GotoEffect
<1>6. /\ phase' = "up"
      /\ \A j \in Instances : \/ instances'[j] = instances[j]
                              \/ instances'[j] = None /\ instances[j] # None
                                   /\ instances[j].def = AdapterDef
  <2>1. CASE gone
    BY <1>1, <2>1 DEF KillAdapter, vars, instanceVars
  <2>2. CASE ~gone
    <3>1. a \in Instances /\ a \in Recorded /\ instances[a].def = AdapterDef
      BY <1>3, <2>2 DEF AInv, CInv, AdaptersOK, CoordinatorTypes, InstancesOf
    <3>2. PICK built \in BOOLEAN : Delete(a, built, saved)
      BY <2>2 DEF KillAdapter
    <3>3. /\ phase' = "up"
          /\ instances'[a] = None \/ instances'[a] = instances[a]
          /\ \A j \in Instances : j # a => instances'[j] = instances[j]
      BY <3>1, <3>2, DeleteEffect DEF AInv, CInv
    <3> QED
      BY <3>1, <3>3 DEF Recorded
  <2> QED
    BY <2>1, <2>2
<1>7. op.kind \in {"disable", "upgrade", "uninstall"}
  BY <1>3, AtStep DEF AInv, Upgrading, Uninstalling
<1>8. \A k \in Instances :
        /\ Outcome'[k] = Outcome[k]
        /\ \/ Staying'[k] = Staying[k]
           \/ /\ Staying'[k] = None /\ instances'[k] = None
              /\ instances[k] # None /\ instances[k].def = AdapterDef
  BY <1>1, <1>5, <1>6, <1>7, OutcomeHolds, OutcomeHoldsNext DEF OutcomeFacts, AInv
<1>9. ASSUME NEW k \in Instances, instances'[k] = None, instances[k] # None,
             instances[k].def = AdapterDef
      PROVE  Outcome[k] = None
  <2>1. registrations[k] = None
    <3>1. registrations[k] # None => registrations[k] \in Registration
      BY DEF AInv, CInv, CoordinatorTypes, RegistrationOrNone
    <3> QED
      BY <1>9, <3>1, Definitional DEF AInv, CInv, MemoryMatches, InstancesMatch
  <2>2. CASE op.kind = "disable"
    <3>1. k # op.i
      BY <1>3, <2>1, <2>2, AtStep DEF AInv, Switching, Upgrading, Uninstalling, Registered
    <3> QED
      BY <2>1, <2>2, <3>1, OutcomeHolds DEF OutcomeFacts, AInv
  <2>3. CASE op.kind = "uninstall"
    BY <2>1, <2>3, OutcomeHolds DEF OutcomeFacts, AInv
  <2>4. CASE op.kind = "upgrade"
    <3>1. Upgrading
      BY <1>3, <2>4, AtStep DEF AInv, Uninstalling
    <3>2. op.reg.contribution \in Contributions
      BY <3>1, Definitional DEF Upgrading
    <3>3. k \notin op.todo
      BY <1>9, <3>1, <3>2, Definitional DEF Upgrading
    <3> QED
      BY <2>1, <2>4, <3>3, OutcomeHolds DEF OutcomeFacts, AInv
  <2> QED
    BY <1>7, <2>2, <2>3, <2>4
<1>10. Agree(Staying', Outcome')
  <2>1. Agree(Staying, Outcome)
    BY <1>1, <1>2 DEF AInv, AgreeOK
  <2>2. AgreeAt(None, None)
    BY DEF AgreeAt
  <2> QED
    BY <1>8, <1>9, <2>1, <2>2 DEF Agree
<1>11. op'.at = "finish" => Replaced' = {}
  BY <1>4, <1>5, <1>7 DEF Replaced
<1> QED
  BY <1>4, <1>5, <1>6, <1>10, <1>11 DEF AgreeOK, Agree

LEMMA DeleteOldAgrees ==
  ASSUME AInv, CInv', NEW saved \in BOOLEAN, DeleteOld(saved), clean'
  PROVE  AgreeOK'
<1>1. /\ op.at = "delete" /\ registrations' = registrations /\ phase = "up"
      /\ op \in Operation /\ op.i \in Instances /\ op.kind \in {"upgrade", "uninstall"}
  BY AtStep DEF DeleteOld, AInv, Upgrading, Uninstalling, Registered
<1>2. op.i \in Recorded /\ ~Unkillable(op.i) /\ clean /\ saved
  BY CleanSave DEF DeleteOld
<1>3. PICK built \in BOOLEAN : Delete(op.i, built, saved)
  BY <1>2 DEF DeleteOld
<1>4. /\ phase' = "up" /\ (saved => instances'[op.i] = None)
      /\ \A k \in Instances : k # op.i => instances'[k] = instances[k]
  BY <1>1, <1>3, DeleteEffect DEF AInv, CInv
<1>5. Goto("finish")
  BY <1>2 DEF DeleteOld
<1>6. /\ op'.at = "finish" /\ op'.kind = op.kind /\ op'.i = op.i /\ op'.reg = op.reg
      /\ op'.todo = op.todo
  BY <1>1, <1>5, GotoEffect
<1>7. \A k \in Instances : Outcome'[k] = Outcome[k] /\ Staying'[k] = Staying[k]
  BY <1>1, <1>4, <1>6, OutcomeHolds, OutcomeHoldsNext DEF OutcomeFacts, AInv
<1>8. \A i \in Replaced' : instances'[i] = None
  BY <1>1, <1>2, <1>4, <1>6 DEF Replaced
<1> QED
  BY <1>1, <1>2, <1>4, <1>6, <1>7, <1>8 DEF AInv, AgreeOK, Agree

LEMMA FinishAgrees ==
  ASSUME AInv, CInv', NEW saved \in BOOLEAN, Finish(saved), clean'
  PROVE  AgreeOK'
<1>1. /\ clean /\ saved /\ op.at = "finish" /\ phase = "up"
      /\ registrations' = FinalRegistrations /\ PersistRegistrations(saved)
      /\ op.kind # "restore" /\ IInv
  BY AtStep, CleanSave
  DEF Finish, PersistRegistrations, AInv, CInv, Installing, Switching, Upgrading,
      Uninstalling, Changing
<1>2. op' = Idle
  BY <1>1 DEF Finish
<1>3. Kept(saved) /\ instances' = instances /\ phase' = "up"
  BY <1>1, PersistKeeps
<1>4. InSync'
  BY <1>1, <1>3, SavedInSync DEF Kept, Stored
<1>5. /\ op'.kind = "idle" /\ op'.at = "idle"
  BY <1>2, IdleIsOperation
<1>6. \A k \in Instances : Outcome'[k] = Outcome[k] /\ Staying'[k] = Staying[k]
  <2>1. \A k \in Instances : Outcome'[k] = FinalRegistrations[k] /\ Staying'[k] = instances[k]
    BY <1>1, <1>3, <1>5, OutcomeHoldsNext DEF OutcomeFacts
  <2>2. \A k \in Instances : Staying[k] = instances[k]
    BY <1>1 DEF Staying, AInv, AgreeOK
  <2>3. Outcome = FinalRegistrations
    BY <1>1 DEF Outcome
  <2> QED
    BY <2>1, <2>2, <2>3
<1> QED
  BY <1>1, <1>3, <1>4, <1>5, <1>6 DEF AInv, AgreeOK, Agree

LEMMA UnregisterAgrees ==
  ASSUME AInv, NEW saved \in BOOLEAN, Unregister(saved), clean'
  PROVE  AgreeOK'
<1>1. clean /\ op.at = "unregister" /\ phase = "up"
  BY CleanSave, AtStep DEF Unregister, AInv
<1> QED
  BY <1>1 DEF AInv, AgreeOK

\* restore brings back every registration of a scope outside the agents' with
\* its instance: that instance is where its contribution belongs, so restore
\* does not drop it.
LEMMA BeginRestoreAgrees ==
  ASSUME AInv, CInv', OwnDefinitions, NEW Broken \in SUBSET Instances,
         BeginRestore(Broken), clean'
  PROVE  AgreeOK'
<1>1. /\ Start(Broken) /\ clean /\ registrations' = stored_registrations /\ IInv
      /\ op'.at = "rebuild" /\ op'.kind = "restore"
  BY DEF BeginRestore, Busy, AInv, CInv
<1>2. /\ phase = "down" /\ phase' = "up"
      /\ \A i \in Instances :
           /\ instances'[i] # None <=> i \in Restorable
           /\ instances'[i] # None =>
                /\ store.instances[i] # None
                /\ instances'[i].def = store.instances[i].def
                /\ instances'[i].enabled = store.instances[i].enabled
  BY <1>1, StartEffect
<1>3. Agree(store.instances, stored_registrations)
  BY <1>1, <1>2 DEF AInv, AgreeOK
<1>4. ASSUME NEW k \in Instances
      PROVE  AgreeAt(instances'[k], stored_registrations[k])
  <2> DEFINE r == stored_registrations[k]
             x == store.instances[k]
  <2>1. AgreeAt(x, r)
    BY <1>3 DEF Agree
  <2>2. ASSUME r # None, ServerScoped(r.contribution)
        PROVE  instances'[k] # None
    <3>1. r.contribution \in Contributions /\ x # None
      BY <2>1, <2>2, Definitional
      DEF AgreeAt, AInv, CInv, CoordinatorTypes, RegistrationOrNone
    <3>2. x.def = DefOf[r.contribution]
      BY <2>2, <3>1 DEF AInv, CInv, StoreMatches, InstancesMatch
    <3>3. x.scope = ScopeOf[r.contribution]
      <4>1. x.def # AdapterDef
        BY <3>1, <3>2, Definitional
      <4>2. PICK b \in Contributions : x.def = DefOf[b] /\ x.scope = ScopeOf[b]
        BY <3>1, <4>1 DEF AInv, CInv, StoreMatches, Placed
      <4> QED
        BY <3>1, <3>2, <4>2 DEF OwnDefinitions
    <3>4. k \in Restorable
      BY <2>2, <3>1, <3>3 DEF Restorable, Persisted, ServerScoped
    <3> QED
      BY <1>2, <3>4
  <2> QED
    BY <1>2, <2>1, <2>2 DEF AgreeAt
<1>5. \A k \in Instances :
        Outcome'[k] = stored_registrations[k] /\ Staying'[k] = instances'[k]
  BY <1>1, OutcomeHoldsNext DEF OutcomeFacts
<1>6. Agree(Staying', Outcome')
  BY <1>4, <1>5 DEF Agree
<1> QED
  BY <1>1, <1>2, <1>6 DEF AgreeOK, Agree

\* What restore builds after that is for registrations in the agents' scopes,
\* or an adapter.
LEMMA RebuildAgrees ==
  ASSUME AInv, CInv', NEW i \in Instances, NEW j \in Instances, Rebuild(i, j), clean'
  PROVE  AgreeOK'
<1> DEFINE r == registrations[i]
           c == r.contribution
<1>1. /\ op.at = "rebuild" /\ op.kind = "restore" /\ op \in Operation /\ phase = "up"
      /\ clean /\ r \in Registration /\ ~ServerScoped(c)
      /\ registrations' = [registrations EXCEPT ![j] = r]
      /\ op' = [op EXCEPT !.todo = @ \ {i}]
  BY AtStep DEF Rebuild, Restoring, Registered, ScopeOfReg, AInv, CInv,
     CoordinatorTypes, RegistrationOrNone, ServerScoped
<1>2. /\ c \in Contributions /\ DefOf[c] \in Definitions /\ ScopeOf[c] \in Scopes
      /\ NoProps \in Props /\ IInv /\ r # None /\ r.enabled \in BOOLEAN
  BY <1>1, Definitional DEF AInv, CInv
<1>3. PICK saved \in BOOLEAN :
        saved = TRUE /\ Create(j, DefOf[c], ScopeOf[c], NoProps, r.enabled, saved)
  BY DEF Rebuild
<1>4. /\ phase' = "up"
      /\ \A k \in Instances : k # j => instances'[k] = instances[k]
  <2>1. Create(j, DefOf[c], ScopeOf[c], NoProps, r.enabled, saved)
    BY <1>3
  <2> QED
    BY <1>2, <2>1, CreateEffect
<1>5. op'.at = "rebuild" /\ op'.kind = "restore"
  BY <1>1 DEF Operation
<1>6. \A k \in Instances : registrations'[k] = IF k = j THEN r ELSE registrations[k]
  BY <1>1 DEF AInv, CInv, CoordinatorTypes
<1>7. \A k \in Instances :
        /\ Outcome'[k] = IF k = j THEN r ELSE Outcome[k]
        /\ k # j => Staying'[k] = Staying[k]
  BY <1>1, <1>4, <1>5, <1>6, OutcomeHolds, OutcomeHoldsNext DEF OutcomeFacts, AInv
<1>8. Agree(Staying', Outcome')
  <2>1. Agree(Staying, Outcome)
    BY <1>1 DEF AInv, AgreeOK
  <2>2. AgreeAt(Staying'[j], Outcome'[j])
    BY <1>1, <1>2, <1>7 DEF AgreeAt
  <2> QED
    BY <1>7, <2>1, <2>2 DEF Agree
<1> QED
  BY <1>4, <1>5, <1>8 DEF AgreeOK, Agree

LEMMA RebuiltAgrees ==
  ASSUME AInv, CInv', Rebuilt, clean'
  PROVE  AgreeOK'
<1>1. /\ op.kind = "restore" /\ phase = "up" /\ clean /\ op'.at = "adapters"
      /\ op'.kind = "restore" /\ QuietStep
  BY AtStep DEF Rebuilt, Restoring, QuietStep, Busy, AInv
<1>2. instances' = instances /\ registrations' = registrations /\ phase' = "up"
  BY <1>1 DEF QuietStep, vars, instanceVars
<1>3. \A k \in Instances : Outcome'[k] = Outcome[k] /\ Staying'[k] = Staying[k]
  BY <1>1, <1>2, OutcomeHolds, OutcomeHoldsNext DEF OutcomeFacts, AInv
<1> QED
  BY <1>1, <1>2, <1>3 DEF AInv, AgreeOK, Agree

LEMMA ReadaptAgrees ==
  ASSUME AInv, CInv', NEW i \in Instances, NEW a \in Instances, Readapt(i, a), clean'
  PROVE  AgreeOK'
<1> DEFINE c == registrations[i].contribution
<1>1. /\ op.at = "adapters" /\ op.kind = "restore" /\ op \in Operation /\ phase = "up"
      /\ clean /\ registrations[i] \in Registration /\ registrations[a] = None
      /\ registrations' = registrations /\ op' = [op EXCEPT !.todo = @ \ {i}]
  BY AtStep DEF Readapt, FreshUUID, Restoring, Registered, AInv, CInv,
     CoordinatorTypes, RegistrationOrNone
<1>2. c \in Contributions /\ AdapterScope[c] \in Scopes /\ IInv
  BY <1>1, Definitional DEF AInv, CInv
<1>3. PICK on, saved \in BOOLEAN :
        saved = TRUE /\ Create(a, AdapterDef, AdapterScope[c], AdapterProps, on, saved)
  BY DEF Readapt
<1>4. /\ phase' = "up"
      /\ saved => instances'[a] # None /\ instances'[a].def = AdapterDef
      /\ \A k \in Instances : k # a => instances'[k] = instances[k]
  <2>1. Create(a, AdapterDef, AdapterScope[c], AdapterProps, on, saved)
    BY <1>3
  <2> QED
    BY <1>2, <2>1, Definitional, CreateEffect
<1>5. op'.at = "adapters" /\ op'.kind = "restore"
  BY <1>1 DEF Operation
<1>6. \A k \in Instances :
        /\ Outcome'[k] = IF k = a THEN None ELSE Outcome[k]
        /\ Staying'[k] = IF k = a THEN instances'[a] ELSE Staying[k]
  BY <1>1, <1>4, <1>5, OutcomeHolds, OutcomeHoldsNext DEF OutcomeFacts, AInv
<1>7. Agree(Staying', Outcome')
  <2>1. Agree(Staying, Outcome)
    BY <1>1 DEF AInv, AgreeOK
  <2>2. AgreeAt(Staying'[a], Outcome'[a])
    BY <1>3, <1>4, <1>6, AdapterIsNoPlugin
  <2> QED
    BY <1>6, <2>1, <2>2 DEF Agree
<1> QED
  BY <1>4, <1>5, <1>7 DEF AgreeOK, Agree

LEMMA PassOverAgrees ==
  ASSUME AInv, CInv', NEW i \in Instances, PassOver(i), clean'
  PROVE  AgreeOK'
<1>1. /\ op.kind = "restore" /\ phase = "up" /\ clean /\ op \in Operation
      /\ op.at = "adapters" /\ op' = [op EXCEPT !.todo = @ \ {i}] /\ QuietStep
  BY AtStep DEF PassOver, Restoring, QuietStep, AInv
<1>2. op'.at = "adapters" /\ op'.kind = "restore"
  BY <1>1 DEF Operation
<1>3. instances' = instances /\ registrations' = registrations /\ phase' = "up"
  BY <1>1 DEF QuietStep, vars, instanceVars
<1>4. \A k \in Instances : Outcome'[k] = Outcome[k] /\ Staying'[k] = Staying[k]
  BY <1>1, <1>2, <1>3, OutcomeHolds, OutcomeHoldsNext DEF OutcomeFacts, AInv
<1> QED
  BY <1>1, <1>2, <1>3, <1>4 DEF AInv, AgreeOK, Agree

LEMMA RestoredAgrees ==
  ASSUME AInv, CInv', Restored, clean'
  PROVE  AgreeOK'
<1>1. /\ op.kind = "restore" /\ op.at = "adapters" /\ phase = "up" /\ op' = Idle
      /\ registrations' = registrations /\ IInv
  BY AtStep DEF Restored, Restoring, AInv, CInv
<1>2. PICK saved \in BOOLEAN : saved = TRUE /\ PersistRegistrations(saved)
  BY DEF Restored
<1>3. PersistRegistrations(saved)
  BY <1>2
<1>4. Kept(saved) /\ instances' = instances /\ phase' = "up" /\ clean
  BY <1>1, <1>3, PersistKeeps, CleanSave DEF PersistRegistrations
<1>5. InSync'
  BY <1>2, <1>4, SavedInSync DEF Kept, Stored
<1>6. op'.at = "idle" /\ op'.kind = "idle"
  BY <1>1, IdleIsOperation
<1>7. \A k \in Instances : Outcome'[k] = Outcome[k] /\ Staying'[k] = Staying[k]
  BY <1>1, <1>4, <1>6, OutcomeHolds, OutcomeHoldsNext DEF OutcomeFacts, AInv
<1> QED
  BY <1>1, <1>4, <1>5, <1>6, <1>7 DEF AInv, AgreeOK, Agree

\* A crash between operations leaves a snapshot that is up to date.
LEMMA CrashAgrees ==
  ASSUME AInv, CInv', CoordinatorCrash, clean'
  PROVE  AgreeOK'
<1>1. /\ phase = "up" /\ phase' = "down" /\ store' = store /\ op = Idle /\ clean
      /\ stored_registrations' = stored_registrations
  BY DEF CoordinatorCrash, Crash
<1>2. InSync /\ Agree(instances, registrations)
  BY <1>1, IdleIsOperation, IdleAgrees DEF AInv, AgreeOK
<1>3. Agree(store.instances, stored_registrations)
  <2>1. \A k \in Instances : instances[k] \in RecordOrNone
    BY DEF AInv, CInv, IInv, TypeOK
  <2>2. \A k \in Instances :
          /\ store.instances[k] = None <=> instances[k] = None
          /\ instances[k] # None =>
               /\ store.instances[k].def = instances[k].def
               /\ store.instances[k].enabled = instances[k].enabled
    BY <1>2, <2>1, SavedRecord DEF InSync
  <2>3. \A k \in Instances : stored_registrations[k] = registrations[k]
    BY <1>2 DEF InSync
  <2> QED
    BY <1>2, <2>2, <2>3 DEF Agree, AgreeAt
<1> QED
  BY <1>1, <1>3 DEF AgreeOK, Agree

LEMMA NextAgrees ==
  ASSUME OwnDefinitions, AInv, CInv', [CoordinatorNext]_allVars
  PROVE  AgreeOK'
<1> SUFFICES ASSUME clean' PROVE AgreeOK'
  BY DEF AgreeOK
<1>1. CASE UNCHANGED allVars
  <2>1. /\ UNCHANGED <<instances, phase, store, registrations, stored_registrations>>
        /\ UNCHANGED <<op, clean>>
    BY <1>1 DEF allVars, coordinatorVars, vars, instanceVars
  <2>2. UNCHANGED <<Staying, Outcome, Replaced, InSync>>
    BY <2>1 DEF Staying, Outcome, Replaced, FinalRegistrations, InSync
  <2> QED
    BY <2>1, <2>2 DEF AInv, AgreeOK, Agree
<1>2. CASE AgentNext
  BY <1>2, AgentAgrees
<1>3. CASE RequestNext
  <2>1. ASSUME NEW i \in Instances, NEW p \in Settings \union {NoProps},
               NEW enabled \in BOOLEAN, UpdateRaises(i, p, enabled)
        PROVE  AgreeOK'
    BY <2>1 DEF UpdateRaises
  <2>2. ASSUME NEW i \in Instances, NEW saved \in BOOLEAN,
               \/ \E enabled \in BOOLEAN : SetEnabled(i, enabled, saved)
               \/ \E p \in Settings : UpdateProperties(i, p, saved)
               \/ \E j \in Instances : BeginUpgrade(i, j, saved)
        PROVE  AgreeOK'
    BY <2>2, SetEnabledAgrees, UpdatePropertiesAgrees, BeginUpgradeAgrees
  <2> QED
    BY <1>3, <2>1, <2>2, BeginInstallAgrees, BeginUninstallAgrees, RescanAgrees
    DEF RequestNext
<1>4. CASE StepNext
  <2>1. ~NoTarget
    BY DEF NoTarget
  <2> QED
    BY <1>4, <2>1, CreateRaisesAgrees, DefineAgrees, DefineAdapterAgrees, KillAdapterAgrees,
       UnregisterAgrees, DeleteOldAgrees, FinishAgrees, CreateRegisteredAgrees,
       BuildAdapterAgrees
    DEF StepNext
<1>5. CASE RestoreNext
  BY <1>5, BeginRestoreAgrees, RebuiltAgrees, RestoredAgrees, CrashAgrees, RebuildAgrees,
     ReadaptAgrees, PassOverAgrees
  DEF RestoreNext
<1> QED
  BY <1>1, <1>2, <1>3, <1>4, <1>5 DEF CoordinatorNext

LEMMA InitAgrees == CoordinatorInit => AgreeOK
<1> SUFFICES ASSUME CoordinatorInit PROVE AgreeOK
  OBVIOUS
<1>1. /\ phase = "down" /\ stored_registrations = [i \in Instances |-> None]
      /\ store.instances = [i \in Instances |-> None]
  BY DEF CoordinatorInit, Init, EmptySnapshot, Snapshot, Saved
<1>2. Agree(store.instances, stored_registrations)
  BY <1>1 DEF Agree, AgreeAt
<1> QED
  BY <1>1, <1>2 DEF AgreeOK

\* Between operations the registrations and the manager's instances tell the
\* same story, also after restarts: the invariant follows every operation
\* from call to call, what it will make of the registrations against what is
\* left of the instances.
THEOREM RegistrationsAlwaysAgree ==
  ASSUME OwnDefinitions
  PROVE  CoordinatorSpec => []RegistrationsAgree
<1>1. CoordinatorInit => AInv
  BY CoordinatorInitHolds, InitAgrees DEF AInv
<1>2. AInv /\ [CoordinatorNext]_allVars => AInv'
  <2> SUFFICES ASSUME AInv, [CoordinatorNext]_allVars PROVE AInv'
    OBVIOUS
  <2>1. CInv'
    BY CoordinatorNextKeeps DEF AInv
  <2> QED
    BY <2>1, NextAgrees DEF AInv
<1>3. AInv => RegistrationsAgree
  <2> SUFFICES ASSUME AInv, clean, op = Idle, phase = "up",
                      NEW c \in Contributions, ServerScoped(c)
               PROVE  /\ Named(c) = InstancesOf(DefOf[c])
                      /\ \A i \in Named(c) :
                           /\ instances[i].scope = ScopeOf[c]
                           /\ instances[i].enabled = registrations[i].enabled
    BY DEF RegistrationsAgree
  <2>1. Agree(instances, registrations)
    BY IdleAgrees DEF AInv, AgreeOK
  <2>2. \A i \in Instances :
          registrations[i] # None => registrations[i].contribution \in Contributions
    BY Definitional DEF AInv, CInv, CoordinatorTypes, RegistrationOrNone
  <2>3. ASSUME NEW i \in Named(c)
        PROVE  /\ i \in Instances /\ instances[i] # None
               /\ instances[i].enabled = registrations[i].enabled
               /\ instances[i].def = DefOf[c]
    BY <2>1 DEF Named, Registered, Agree, AgreeAt, AInv, CInv, MemoryMatches,
       InstancesMatch
  <2>4. ASSUME NEW i \in InstancesOf(DefOf[c])
        PROVE  i \in Named(c)
    BY <2>1, <2>2 DEF InstancesOf, Recorded, Named, Registered, Agree, AgreeAt, AInv, CInv,
       MemoryMatches, InstancesMatch, OwnDefinitions
  <2>5. Named(c) = InstancesOf(DefOf[c])
    BY <2>3, <2>4 DEF InstancesOf, Recorded
  <2>6. ASSUME NEW i \in Named(c)
        PROVE  instances[i].scope = ScopeOf[c]
    BY <2>3, Definitional DEF AInv, CInv, MemoryMatches, Placed, OwnDefinitions
  <2> QED
    BY <2>3, <2>5, <2>6
<1> QED
  BY <1>1, <1>2, <1>3, PTL DEF CoordinatorSpec

-----------------------------------------------------------------------------
(* No plugin is lost *)

\* An instance of the contribution is there after the step.
Survives(c) == InstancesOf(DefOf[c])' # {}

\* What the calls of an operation do to an instance of a dynamic plugin: none
\* but the deletions of an uninstallation and of a failed installation takes
\* it away for good; that of an upgrade leaves its replacement.
LEMMA OthersKeep ==
  ASSUME NEW c, NEW i \in InstancesOf(DefOf[c]),
         instances'[i] # None, instances'[i].def = instances[i].def
  PROVE  Survives(c)
  BY DEF Survives, InstancesOf, Recorded

LEMMA AgentSurvives ==
  ASSUME CInv, NEW c \in Contributions, NEW i \in InstancesOf(DefOf[c]), AgentNext
  PROVE  Survives(c)
<1>1. instances' = instances
  BY DEF AgentNext, AgentCreated, AgentRemoved, AddScope, RemoveScope, instanceVars
<1> QED
  BY <1>1, OthersKeep DEF InstancesOf, Recorded

LEMMA RequestSurvives ==
  ASSUME CInv, NEW c \in Contributions, NEW x \in InstancesOf(DefOf[c]), RequestNext
  PROVE  Survives(c)
<1> SUFFICES instances'[x] # None /\ instances'[x].def = instances[x].def
  BY OthersKeep
<1>0. x \in Instances /\ instances[x] # None
  BY DEF InstancesOf, Recorded
<1>1. CASE \E b \in Contributions, key \in Keys : BeginInstall(b, key)
  BY <1>0, <1>1 DEF BeginInstall, vars, instanceVars
<1>2. ASSUME NEW i \in Instances, NEW saved \in BOOLEAN, NEW enabled \in BOOLEAN,
             SetEnabled(i, enabled, saved)
      PROVE  instances'[x] # None /\ instances'[x].def = instances[x].def
  <2>1. Reconfigure(i, user_properties[i], NoProps, enabled, saved) /\ IInv
    BY <1>2 DEF SetEnabled, CInv
  <2>2. user_properties[i] \in PropsOrNone
    BY DEF CInv, IInv, TypeOK
  <2> QED
    BY <1>0, <2>1, <2>2, Definitional, ReconfigureEffect
<1>3. ASSUME NEW i \in Instances, NEW saved \in BOOLEAN, NEW p \in Settings,
             UpdateProperties(i, p, saved)
      PROVE  instances'[x] # None /\ instances'[x].def = instances[x].def
  <2>1. /\ Reconfigure(i, user_properties[i], p, instances[i].enabled, saved)
        /\ IInv /\ i \in Recorded /\ p \in Props
    BY <1>3, CoordinatorAssumption DEF UpdateProperties, CInv
  <2>2. user_properties[i] \in PropsOrNone /\ instances[i].enabled \in BOOLEAN
    BY <2>1 DEF IInv, TypeOK, Recorded, Record, RecordOrNone
  <2> QED
    BY <1>0, <2>1, <2>2, ReconfigureEffect
<1>4. ASSUME NEW i \in Instances, NEW j \in Instances, NEW saved \in BOOLEAN,
             BeginUpgrade(i, j, saved)
      PROVE  instances'[x] # None /\ instances'[x].def = instances[x].def
  <2> DEFINE r == registrations[i]
             b == r.contribution
  <2>1. /\ Create(j, DefOf[b], ScopeOf[b], NoProps, r.enabled, saved) /\ IInv
        /\ r \in Registration
    BY <1>4 DEF BeginUpgrade, Unique, Registered, CInv, CoordinatorTypes, RegistrationOrNone
  <2>2. /\ DefOf[b] \in Definitions /\ ScopeOf[b] \in Scopes
        /\ NoProps \in Props /\ r.enabled \in BOOLEAN
    BY <2>1, Definitional
  <2>3. /\ instances[j] = None
        /\ \A k \in Instances : k # j => instances'[k] = instances[k]
    BY <2>1, <2>2, CreateEffect
  <2> QED
    BY <1>0, <2>3
<1>5. CASE \E i \in Instances, p \in Settings \union {NoProps}, enabled \in BOOLEAN :
             UpdateRaises(i, p, enabled)
  BY <1>0, <1>5 DEF UpdateRaises, ReconfigureRaises
<1>6. CASE \E i \in Instances : BeginUninstall(i)
  BY <1>0, <1>6 DEF BeginUninstall, vars, instanceVars
<1>7. CASE \E b \in Contributions, v \in Releases : Rescan(b, v)
  BY <1>0, <1>7 DEF Rescan, vars, instanceVars
<1> QED
  BY <1>1, <1>2, <1>3, <1>4, <1>5, <1>6, <1>7 DEF RequestNext

\* Deletions: an adapter, an instance of a failed installation, and the old
\* instance of an upgrade or of an uninstallation.
LEMMA KillAdapterSurvives ==
  ASSUME CInv, NEW c \in Contributions, NEW x \in InstancesOf(DefOf[c]),
         NEW saved \in BOOLEAN, KillAdapter(saved)
  PROVE  Survives(c)
<1> DEFINE a == adapters[op.i]
           gone == a = None \/ a \notin Recorded \/ Unkillable(a)
<1>1. x \in Instances /\ instances[x] # None /\ instances[x].def # AdapterDef
  BY Definitional DEF InstancesOf, Recorded
<1>2. CASE gone
  BY <1>1, <1>2, OthersKeep DEF KillAdapter, vars, instanceVars
<1>3. CASE ~gone
  <2>1. op.i \in Instances
    BY AtStep DEF KillAdapter, Installing, Switching, Upgrading, Uninstalling, Registered
  <2>2. a \in Instances /\ instances[a].def = AdapterDef
    BY <1>3, <2>1 DEF CInv, AdaptersOK, CoordinatorTypes, InstancesOf
  <2>3. PICK built \in BOOLEAN : Delete(a, built, saved)
    BY <1>3 DEF KillAdapter
  <2>4. \A j \in Instances : j # a => instances'[j] = instances[j]
    BY <2>2, <2>3, DeleteEffect DEF CInv
  <2> QED
    BY <1>1, <2>2, <2>4, OthersKeep
<1> QED
  BY <1>2, <1>3

LEMMA DeleteOldSurvives ==
  ASSUME CInv, NEW c \in Contributions, NEW x \in InstancesOf(DefOf[c]),
         NEW saved \in BOOLEAN, DeleteOld(saved), op.kind # "uninstall"
  PROVE  Survives(c)
<1>1. x \in Instances /\ instances[x] # None /\ instances[x].def = DefOf[c]
  BY DEF InstancesOf, Recorded
<1>2. Upgrading /\ op.i \in Instances
  BY AtStep DEF DeleteOld, Uninstalling, Upgrading, Registered
<1>3. PICK j \in Instances \ {op.i} :
        instances[j] # None /\ instances[j].def = DefOf[op.reg.contribution]
  BY <1>2 DEF Upgrading
<1>4. CASE op.i \in Recorded /\ ~Unkillable(op.i)
  <2>1. PICK built \in BOOLEAN : Delete(op.i, built, saved)
    BY <1>4 DEF DeleteOld
  <2>2. \A k \in Instances : k # op.i => instances'[k] = instances[k]
    BY <1>2, <2>1, DeleteEffect DEF CInv
  <2>3. CASE x # op.i
    BY <1>1, <2>2, <2>3, OthersKeep
  <2>4. CASE x = op.i
    <3>1. instances[x].def = DefOf[op.reg.contribution]
      BY <1>1, <1>2, <2>4 DEF Upgrading, Registered, CInv, MemoryMatches, InstancesMatch
    <3>2. j \in InstancesOf(DefOf[c])
      BY <1>1, <1>3, <3>1 DEF InstancesOf, Recorded
    <3> QED
      BY <1>3, <2>2, <3>2, OthersKeep
  <2> QED
    BY <2>3, <2>4
<1>5. CASE ~(op.i \in Recorded /\ ~Unkillable(op.i))
  BY <1>1, <1>5, OthersKeep DEF DeleteOld, vars, instanceVars
<1> QED
  BY <1>4, <1>5

LEMMA StepSurvives ==
  ASSUME CInv, NEW c \in Contributions, NEW x \in InstancesOf(DefOf[c]), StepNext,
         op.kind \notin {"install", "uninstall"}
  PROVE  Survives(c)
<1>0. x \in Instances /\ instances[x] # None /\ op.at \notin {"define", "create", "unregister"}
  BY AtStep DEF InstancesOf, Recorded, Installing
<1>1. CASE NoTarget
  BY <1>0, <1>1, OthersKeep DEF NoTarget, vars, instanceVars
<1>2. ASSUME NEW saved \in BOOLEAN, DefineAdapter(saved)
      PROVE  Survives(c)
  BY <1>0, <1>2, InstallEffect, OthersKeep DEF DefineAdapter
<1>3. ASSUME NEW saved \in BOOLEAN, Finish(saved)
      PROVE  Survives(c)
  BY <1>0, <1>3, OthersKeep DEF Finish, PersistRegistrations, instanceVars
<1>4. ASSUME NEW a \in Instances, NEW saved \in BOOLEAN, BuildAdapter(a, saved)
      PROVE  Survives(c)
  <2> DEFINE b == registrations[op.i].contribution
  <2>1. /\ op.i \in Registered /\ registrations[op.i] \in Registration /\ IInv
    BY <1>4, AtStep DEF BuildAdapter, Installing, Switching, Registered, CInv,
       CoordinatorTypes, RegistrationOrNone
  <2>2. AdapterScope[b] \in Scopes
    BY <2>1, Definitional
  <2>3. PICK on \in BOOLEAN : Create(a, AdapterDef, AdapterScope[b], AdapterProps, on, saved)
    BY <1>4 DEF BuildAdapter
  <2>4. /\ instances[a] = None
        /\ \A k \in Instances : k # a => instances'[k] = instances[k]
    BY <2>1, <2>2, <2>3, Definitional, CreateEffect
  <2> QED
    BY <1>0, <2>4, OthersKeep
<1> QED
  BY <1>0, <1>1, <1>2, <1>3, <1>4, KillAdapterSurvives, DeleteOldSurvives
  DEF StepNext, CreateRaises, Define, CreateRegistered, Unregister

\* The steps of restore after the first
LEMMA RestoreSurvives ==
  ASSUME CInv, NEW c \in Contributions, NEW x \in InstancesOf(DefOf[c]), RestoreNext,
         phase = "up", phase' = "up"
  PROVE  Survives(c)
<1>0. x \in Instances /\ instances[x] # None
  BY DEF InstancesOf, Recorded
<1>1. CASE Rebuilt
  BY <1>0, <1>1, OthersKeep DEF Rebuilt, vars, instanceVars
<1>2. CASE Restored
  BY <1>0, <1>2, OthersKeep DEF Restored, PersistRegistrations, instanceVars
<1>3. ASSUME NEW i \in Instances, PassOver(i)
      PROVE  Survives(c)
  BY <1>0, <1>3, OthersKeep DEF PassOver, vars, instanceVars
<1>4. ASSUME NEW i \in Instances, NEW j \in Instances, Rebuild(i, j)
      PROVE  Survives(c)
  <2> DEFINE r == registrations[i]
             b == r.contribution
  <2>1. r \in Registration /\ IInv
    BY <1>4, AtStep DEF Rebuild, Restoring, Registered, CInv, CoordinatorTypes,
       RegistrationOrNone
  <2>2. /\ DefOf[b] \in Definitions /\ ScopeOf[b] \in Scopes /\ r.enabled \in BOOLEAN
    BY <2>1, Definitional
  <2>3. PICK saved \in BOOLEAN : Create(j, DefOf[b], ScopeOf[b], NoProps, r.enabled, saved)
    BY <1>4 DEF Rebuild
  <2>4. /\ instances[j] = None
        /\ \A k \in Instances : k # j => instances'[k] = instances[k]
    BY <2>1, <2>2, <2>3, Definitional, CreateEffect
  <2> QED
    BY <1>0, <2>4, OthersKeep
<1>5. ASSUME NEW i \in Instances, NEW a \in Instances, Readapt(i, a)
      PROVE  Survives(c)
  <2> DEFINE b == registrations[i].contribution
  <2>1. registrations[i] \in Registration /\ IInv
    BY <1>5, AtStep DEF Readapt, Restoring, Registered, CInv, CoordinatorTypes,
       RegistrationOrNone
  <2>2. AdapterScope[b] \in Scopes
    BY <2>1, Definitional
  <2>3. PICK on, saved \in BOOLEAN :
          Create(a, AdapterDef, AdapterScope[b], AdapterProps, on, saved)
    BY <1>5 DEF Readapt
  <2>4. /\ instances[a] = None
        /\ \A k \in Instances : k # a => instances'[k] = instances[k]
    BY <2>1, <2>2, <2>3, Definitional, CreateEffect
  <2> QED
    BY <1>0, <2>4, OthersKeep
<1>6. ~CoordinatorCrash /\ \A Broken \in SUBSET Instances : ~BeginRestore(Broken)
  BY DEF CoordinatorCrash, Crash, BeginRestore, Start
<1> QED
  BY <1>1, <1>2, <1>3, <1>4, <1>5, <1>6 DEF RestoreNext

\* A crash finds in the store what was in memory.
LEMMA CrashSurvives ==
  ASSUME CInv, NEW c \in Contributions, NEW x \in InstancesOf(DefOf[c]), CoordinatorCrash
  PROVE  Has(c)'
<1>1. x \in Instances /\ instances[x] \in RecordOrNone /\ instances[x] # None
      /\ instances[x].def = DefOf[c]
  BY DEF InstancesOf, Recorded, CInv, IInv, TypeOK
<1>2. store.instances[x] = Saved(instances[x])
  BY <1>1 DEF CInv, IInv, MemoryIsDurable, Recorded
<1>3. store.instances[x] # None /\ store.instances[x].def = DefOf[c]
  BY <1>1, <1>2, SavedRecord
<1>4. phase' = "down" /\ store' = store
  BY DEF CoordinatorCrash, Crash
<1> QED
  BY <1>1, <1>3, <1>4 DEF Has, Persisted

\* A restart brings back what is in the store, when its scope is no agent's.
LEMMA StartSurvives ==
  ASSUME CInv, OwnDefinitions, NEW c \in Contributions, ServerScoped(c),
         NEW x \in Persisted, store.instances[x].def = DefOf[c],
         NEW Broken \in SUBSET Instances, BeginRestore(Broken)
  PROVE  Has(c)'
<1>1. x \in Instances /\ store.instances[x] # None
  BY DEF Persisted
<1>2. store.instances[x].scope = ScopeOf[c]
  <2>1. store.instances[x].def # AdapterDef
    BY Definitional
  <2> QED
    BY <1>1, <2>1 DEF CInv, StoreMatches, Placed, OwnDefinitions
<1>3. x \in Restorable
  BY <1>2 DEF Restorable, ServerScoped
<1>4. /\ phase' = "up" /\ instances'[x] # None /\ instances'[x].def = DefOf[c]
  BY <1>1, <1>3, StartEffect DEF BeginRestore, CInv
<1> QED
  BY <1>1, <1>4 DEF Has, InstancesOf, Recorded

\* A running server goes on running, or crashes; ...
LEMMA StaysUp ==
  ASSUME phase = "up", CoordinatorNext
  PROVE  phase' = "up" \/ CoordinatorCrash
<1>1. ASSUME AgentNext PROVE phase' = "up"
  BY <1>1 DEF AgentNext, AgentCreated, AgentRemoved, AddScope, RemoveScope
<1>2. ASSUME RequestNext PROVE phase' = "up"
  <2>1. ASSUME NEW i \in Instances, NEW saved \in BOOLEAN,
               \/ \E enabled \in BOOLEAN : SetEnabled(i, enabled, saved)
               \/ \E p \in Settings : UpdateProperties(i, p, saved)
        PROVE  phase' = "up"
    BY <2>1 DEF SetEnabled, UpdateProperties, Reconfigure
  <2>2. ASSUME NEW i \in Instances, NEW j \in Instances, NEW saved \in BOOLEAN,
               BeginUpgrade(i, j, saved)
        PROVE  phase' = "up"
    BY <2>2 DEF BeginUpgrade, Create
  <2>3. ASSUME NEW i \in Instances, NEW p \in Settings \union {NoProps},
               NEW enabled \in BOOLEAN, UpdateRaises(i, p, enabled)
        PROVE  phase' = "up"
    BY <2>3 DEF UpdateRaises, ReconfigureRaises
  <2> QED
    BY <1>2, <2>1, <2>2, <2>3 DEF RequestNext, BeginInstall, BeginUninstall, Rescan, vars
<1>3. ASSUME StepNext PROVE phase' = "up"
  <2>1. ASSUME NEW saved \in BOOLEAN, Define(saved) \/ DefineAdapter(saved)
        PROVE  phase' = "up"
    BY <2>1 DEF Define, DefineAdapter, Install, vars
  <2>2. ASSUME NEW saved \in BOOLEAN,
               KillAdapter(saved) \/ Unregister(saved) \/ DeleteOld(saved)
        PROVE  phase' = "up"
    BY <2>2 DEF KillAdapter, Unregister, DeleteOld, Delete, vars
  <2>3. ASSUME NEW saved \in BOOLEAN, NEW i \in Instances,
               CreateRegistered(i, saved) \/ BuildAdapter(i, saved)
        PROVE  phase' = "up"
    BY <2>3 DEF CreateRegistered, BuildAdapter, Create
  <2>4. ASSUME NEW saved \in BOOLEAN, Finish(saved) PROVE phase' = "up"
    BY <2>4 DEF Finish, PersistRegistrations
  <2> QED
    BY <1>3, <2>1, <2>2, <2>3, <2>4 DEF StepNext, CreateRaises, NoTarget, vars
<1>4. ASSUME RestoreNext PROVE phase' = "up" \/ CoordinatorCrash
  <2>1. ASSUME NEW i \in Instances, NEW j \in Instances, Rebuild(i, j) \/ Readapt(i, j)
        PROVE  phase' = "up"
    BY <2>1 DEF Rebuild, Readapt, Create
  <2>2. \A Broken \in SUBSET Instances : ~BeginRestore(Broken)
    BY DEF BeginRestore, Start
  <2> QED
    BY <1>4, <2>1, <2>2 DEF RestoreNext, Rebuilt, Restored, PersistRegistrations, PassOver, vars
<1> QED
  BY <1>1, <1>2, <1>3, <1>4 DEF CoordinatorNext

\* ... and one that does not run can only be started.
LEMMA OnlyStarts ==
  ASSUME CInv, phase # "up", CoordinatorNext
  PROVE  \E Broken \in SUBSET Instances : BeginRestore(Broken)
<1>0. op.at = "idle"
  BY AtStep
<1>1. ~AgentNext
  BY DEF AgentNext, AgentCreated, AgentRemoved, AddScope, RemoveScope
<1>2. ~RequestNext
  BY DEF RequestNext, BeginInstall, SetEnabled, UpdateProperties, BeginUpgrade,
     UpdateRaises, BeginUninstall, Rescan
<1>3. ~StepNext
  BY <1>0 DEF StepNext, CreateRaises, NoTarget, Define, DefineAdapter, KillAdapter, Unregister,
     DeleteOld, Finish, CreateRegistered, BuildAdapter
<1> QED
  BY <1>0, <1>1, <1>2, <1>3
  DEF CoordinatorNext, RestoreNext, Rebuilt, Restored, CoordinatorCrash, Crash, Rebuild,
      Readapt, PassOver

\* Neither a crash, nor a restart, nor a refused save, nor an upgrade takes
\* the last instance of a dynamic plugin outside the agents' scopes away:
\* only an uninstallation does, or the undoing of an installation.
THEOREM PluginIsNeverLost ==
  ASSUME OwnDefinitions
  PROVE  CoordinatorSpec => PluginNeverLost
<1> DEFINE Kept1 == \A c \in Contributions :
                     ServerScoped(c) /\ Has(c) /\ ~Has(c)' => op.kind \in {"install", "uninstall"}
<1>1. CInv /\ [CoordinatorNext]_allVars => [Kept1]_allVars
  <2> SUFFICES ASSUME CInv, CoordinatorNext, NEW c \in Contributions, ServerScoped(c),
                      Has(c), op.kind \notin {"install", "uninstall"}
               PROVE  Has(c)'
    OBVIOUS
  <2>1. CASE phase = "up"
    <3>1. PICK x \in InstancesOf(DefOf[c]) : TRUE
      BY <2>1 DEF Has
    <3>2. CASE CoordinatorCrash
      BY <3>1, <3>2, CrashSurvives
    <3>3. CASE phase' = "up"
      <4>1. Survives(c)
        BY <2>1, <3>1, <3>3, AgentSurvives, RequestSurvives, StepSurvives, RestoreSurvives
        DEF CoordinatorNext
      <4> QED
        BY <3>3, <4>1 DEF Has, Survives
    <3>4. phase' = "up" \/ CoordinatorCrash
      BY <2>1, StaysUp
    <3> QED
      BY <3>2, <3>3, <3>4
  <2>2. CASE phase # "up"
    <3>1. PICK x \in Persisted : store.instances[x].def = DefOf[c]
      BY <2>2 DEF Has
    <3>3. PICK Broken \in SUBSET Instances : BeginRestore(Broken)
      BY <2>2, OnlyStarts
    <3> QED
      BY <3>1, <3>3, StartSurvives
  <2> QED
    BY <2>1, <2>2
<1>2. CoordinatorSpec => [][Kept1]_allVars
  BY <1>1, CoordinatorInvariance, PTL DEF CoordinatorSpec
<1> QED
  BY <1>2 DEF PluginNeverLost

\* The manager's promises about the stored snapshot are kept under the
\* coordinator, too, whose operations save it in the middle of their work.
THEOREM CoordinatorStoreClosed == CoordinatorSpec => [](StoreClosed /\ MemoryIsDurable)
<1>1. CInv => StoreClosed /\ MemoryIsDurable
  BY DEF CInv, IInv
<1> QED
  BY <1>1, CoordinatorInvariance, PTL

-----------------------------------------------------------------------------
(* The coordinator implements the manager's catalog: each of its steps is  *)
(* one call of the manager, or none.                                       *)

\* What the manager does in a step of the coordinator
ManagerCall ==
  \/ UNCHANGED vars
  \/ \E d \in Definitions, saved \in BOOLEAN : Install(d, saved)
  \/ \E i \in Instances, d \in Definitions, s \in Scopes, p \in Props,
        enabled, saved \in BOOLEAN : Create(i, d, s, p, enabled, saved)
  \/ \E i \in Instances, built, saved \in BOOLEAN : Delete(i, built, saved)
  \/ \E i \in Instances, p \in Props, enabled, saved \in BOOLEAN :
       Update(i, p, enabled, saved)
  \/ ScopeNext
  \/ \E saved \in BOOLEAN : phase = "up" /\ PersistRegistrations(saved)
  \/ \E Broken \in SUBSET Instances : Start(Broken)
  \/ Crash

LEMMA CallEnters ==
  ASSUME IInv, IInv', ManagerCall
  PROVE  [Catalog!Next]_Catalog!vars
<1>1. CASE UNCHANGED vars
  BY <1>1, CatalogStep
<1>2. CASE \E d \in Definitions, saved \in BOOLEAN : Install(d, saved)
  BY <1>2, InstallEnters
<1>3. CASE \E i \in Instances, d \in Definitions, s \in Scopes, p \in Props,
              enabled, saved \in BOOLEAN : Create(i, d, s, p, enabled, saved)
  BY <1>3, CreateEnters
<1>4. CASE \E i \in Instances, built, saved \in BOOLEAN : Delete(i, built, saved)
  BY <1>4, DeleteEnters
<1>5. CASE \E i \in Instances, p \in Props, enabled, saved \in BOOLEAN :
             Update(i, p, enabled, saved)
  BY <1>5, UpdateEnters DEF Update
<1>6. CASE ScopeNext
  BY <1>6, ScopeStepsEnter
<1>7. CASE \E saved \in BOOLEAN : phase = "up" /\ PersistRegistrations(saved)
  <2>1. /\ TypeOK /\ TypeOK' /\ phase = "up" /\ phase' = "up"
        /\ plugins' = plugins /\ instances' = instances
        /\ store' = store \/ Saves
    BY <1>7 DEF IInv, PersistRegistrations, definitionVars, instanceVars, PersistState, Saves
  <2>2. /\ \A d \in Definitions : plugins'[d] \in {plugins[d], None}
        /\ \A i \in Instances : instances'[i] \in {instances[i], None}
    BY <2>1
  <2>3. Catalog!Next
    BY <2>1, <2>2, Removing
  <2> QED
    BY <2>3
<1>8. CASE \E Broken \in SUBSET Instances : Start(Broken)
  BY <1>8, StartRecovers
<1>9. CASE Crash
  BY <1>9, CrashStops
<1> QED
  BY <1>1, <1>2, <1>3, <1>4, <1>5, <1>6, <1>7, <1>8, <1>9 DEF ManagerCall

LEMMA StepsAreCalls ==
  ASSUME CInv, StepNext
  PROVE  ManagerCall
<1>1. CASE CreateRaises \/ NoTarget
  BY <1>1 DEF CreateRaises, NoTarget, ManagerCall
<1>2. ASSUME NEW saved \in BOOLEAN, Define(saved)
      PROVE  ManagerCall
  <2>1. op.at = "define"
    BY <1>2 DEF Define
  <2>2. DefOf[op.reg.contribution] \in Definitions
    BY <2>1, AtStep, Definitional DEF CInv, OpOK, Installing, Switching, Upgrading, Uninstalling, Changing,
       Restoring
  <2> QED
    BY <1>2, <2>2 DEF Define, ManagerCall
<1>3. ASSUME NEW saved \in BOOLEAN, DefineAdapter(saved)
      PROVE  ManagerCall
  BY <1>3, Definitional DEF DefineAdapter, ManagerCall
<1>4. ASSUME NEW saved \in BOOLEAN, KillAdapter(saved)
      PROVE  ManagerCall
  <2>1. CASE adapters[op.i] \in Recorded
    <3>1. adapters[op.i] \in Instances
      BY <2>1 DEF Recorded
    <3> QED
      BY <1>4, <3>1 DEF KillAdapter, ManagerCall
  <2>2. CASE adapters[op.i] \notin Recorded
    BY <1>4, <2>2 DEF KillAdapter, ManagerCall
  <2> QED
    BY <2>1, <2>2
<1>5. ASSUME NEW saved \in BOOLEAN, Unregister(saved) \/ DeleteOld(saved)
      PROVE  ManagerCall
  <2>1. \A built \in BOOLEAN : Delete(op.i, built, saved) => op.i \in Instances
    BY DEF Delete, Recorded
  <2> QED
    BY <1>5, <2>1 DEF Unregister, DeleteOld, ManagerCall
<1>6. ASSUME NEW saved \in BOOLEAN, Finish(saved)
      PROVE  ManagerCall
  <2>1. phase = "up"
    BY <1>6, IdleIsOperation DEF CInv, OpOK, Finish
  <2> QED
    BY <1>6, <2>1 DEF Finish, ManagerCall
<1>7. ASSUME NEW i \in Instances, NEW saved \in BOOLEAN, CreateRegistered(i, saved)
      PROVE  ManagerCall
  <2>1. op.reg.contribution \in Contributions
    BY <1>7, Definitional DEF CreateRegistered, CInv, OpOK, Installing, Switching, Upgrading, Uninstalling,
       Changing, Restoring, Idle
  <2> QED
    BY <1>7, <2>1, Definitional DEF CreateRegistered, ManagerCall
<1>8. ASSUME NEW i \in Instances, NEW saved \in BOOLEAN, BuildAdapter(i, saved)
      PROVE  ManagerCall
  <2>1. registrations[op.i].contribution \in Contributions
    <3>1. op.i \in Registered
      BY <1>8, AtStep DEF BuildAdapter, CInv, OpOK, Installing, Switching, Upgrading, Uninstalling,
         Changing, Restoring, Idle
    <3> QED
      BY <3>1, Definitional DEF CInv, CoordinatorTypes, RegistrationOrNone, Registered
  <2> QED
    BY <1>8, <2>1, Definitional DEF BuildAdapter, ManagerCall
<1> QED
  BY <1>1, <1>2, <1>3, <1>4, <1>5, <1>6, <1>7, <1>8 DEF StepNext

LEMMA RequestsAreCalls ==
  ASSUME CInv, RequestNext
  PROVE  ManagerCall
<1>1. ASSUME NEW i \in Instances, NEW saved \in BOOLEAN, NEW enabled \in BOOLEAN,
             SetEnabled(i, enabled, saved)
      PROVE  ManagerCall
  BY <1>1, Definitional DEF SetEnabled, Update, ManagerCall
<1>2. ASSUME NEW i \in Instances, NEW saved \in BOOLEAN, NEW p \in Settings,
             UpdateProperties(i, p, saved)
      PROVE  ManagerCall
  <2>1. p \in Props /\ instances[i].enabled \in BOOLEAN
    BY <1>2, CoordinatorAssumption
    DEF UpdateProperties, CInv, IInv, TypeOK, Recorded, RecordOrNone, Record
  <2> QED
    BY <1>2, <2>1 DEF UpdateProperties, Update, ManagerCall
<1>3. ASSUME NEW i \in Instances, NEW saved \in BOOLEAN, NEW j \in Instances,
             BeginUpgrade(i, j, saved)
      PROVE  ManagerCall
  <2>1. registrations[i] \in Registration
    BY <1>3 DEF BeginUpgrade, Unique, Registered, CInv, CoordinatorTypes, RegistrationOrNone
  <2> QED
    BY <1>3, <2>1, Definitional DEF BeginUpgrade, ManagerCall
<1>4. ASSUME NEW i \in Instances, NEW p \in Settings \union {NoProps},
             NEW enabled \in BOOLEAN, UpdateRaises(i, p, enabled)
      PROVE  ManagerCall
  <2>1. p \in Props
    BY CoordinatorAssumption, Definitional
  <2> QED
    BY <1>4, <2>1 DEF UpdateRaises, Update, ManagerCall
<1>5. ASSUME \/ \E c \in Contributions, key \in Keys : BeginInstall(c, key)
             \/ \E i \in Instances : BeginUninstall(i)
             \/ \E c \in Contributions, v \in Releases : Rescan(c, v)
      PROVE  ManagerCall
  BY <1>5 DEF BeginInstall, BeginUninstall, Rescan, ManagerCall
<1> QED
  BY <1>1, <1>2, <1>3, <1>4, <1>5 DEF RequestNext

LEMMA RestoresAreCalls ==
  ASSUME CInv, RestoreNext
  PROVE  ManagerCall
<1>1. ASSUME NEW Broken \in SUBSET Instances, BeginRestore(Broken)
      PROVE  ManagerCall
  BY <1>1 DEF BeginRestore, ManagerCall
<1>2. CASE Rebuilt \/ \E i \in Instances : PassOver(i)
  BY <1>2 DEF Rebuilt, PassOver, ManagerCall
<1>3. CASE CoordinatorCrash
  BY <1>3 DEF CoordinatorCrash, ManagerCall
<1>4. CASE Restored
  <2>1. phase = "up"
    BY <1>4, IdleIsOperation DEF CInv, OpOK, Restored
  <2> QED
    BY <1>4, <2>1 DEF Restored, ManagerCall
<1>5. ASSUME NEW i \in Instances, NEW j \in Instances, Rebuild(i, j) \/ Readapt(i, j)
      PROVE  ManagerCall
  <2>1. i \in Registered
    BY <1>5, IdleIsOperation DEF Rebuild, Readapt, CInv, OpOK, Installing, Switching, Upgrading, Uninstalling,
       Changing, Restoring
  <2>2. registrations[i] \in Registration
    BY <2>1 DEF CInv, CoordinatorTypes, RegistrationOrNone, Registered
  <2>3. /\ DefOf[registrations[i].contribution] \in Definitions
        /\ ScopeOf[registrations[i].contribution] \in Scopes
        /\ AdapterScope[registrations[i].contribution] \in Scopes
        /\ AdapterDef \in Definitions /\ NoProps \in Props /\ AdapterProps \in Props
        /\ registrations[i].enabled \in BOOLEAN
    BY <2>2, Definitional
  <2>4. CASE Rebuild(i, j)
    BY <2>3, <2>4 DEF Rebuild, ManagerCall
  <2>5. CASE Readapt(i, j)
    BY <2>3, <2>5 DEF Readapt, ManagerCall
  <2> QED
    BY <1>5, <2>4, <2>5
<1> QED
  BY <1>1, <1>2, <1>3, <1>4, <1>5 DEF RestoreNext

\* Also under the coordinator, whose operations are several calls and may be
\* cut short between any two, what the manager shows is a durable catalog.
THEOREM CoordinatorKeepsCatalog == CoordinatorSpec => KeepsCatalog
<1>1. CoordinatorInit => Catalog!Init
  BY CatalogInit DEF CoordinatorInit
<1>2. CInv /\ CInv' /\ [CoordinatorNext]_allVars => [Catalog!Next]_Catalog!vars
  <2> SUFFICES ASSUME CInv, CInv', [CoordinatorNext]_allVars
               PROVE  [Catalog!Next]_Catalog!vars
    OBVIOUS
  <2>1. ManagerCall
    <3>1. CASE AgentNext
      BY <3>1, CoordinatorAssumption, ConstantsAssumption DEF AgentNext, AgentCreated, AgentRemoved, ManagerCall, ScopeNext
    <3>2. CASE UNCHANGED allVars
      BY <3>2 DEF allVars, ManagerCall
    <3> QED
      BY <3>1, <3>2, StepsAreCalls, RequestsAreCalls, RestoresAreCalls DEF CoordinatorNext
  <2> QED
    BY <2>1, CallEnters DEF CInv
<1> QED
  BY CoordinatorInvariance, <1>1, <1>2, PTL DEF CoordinatorSpec, KeepsCatalog, Catalog!Spec
==============================================================================
