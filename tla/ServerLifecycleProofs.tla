------------------------ MODULE ServerLifecycleProofs ------------------------
(***************************************************************************)
(* The life cycle's invariants hold for every number of CLIs and servers,  *)
(* whichever of them crash.                                                *)
(***************************************************************************)
EXTENDS ServerLifecycle, TLAPS

\* A process that does not exist has no state, and lifelines are open at no
\* server but one that has been listening.
UnbornIsBlank ==
  \A s \in Servers :
    /\ clients[s] # {} => server[s] \in {"serving", "closing"}
    /\ ~Ready(s) => ~timer[s] /\ ~should_exit[s]
    /\ ~Live(s) => ~enabled[s]

\* Who is counted is attached, or gone without the server's knowledge; and
\* nobody is counted twice.
CountedOnce ==
  \A c \in Clients : \A s \in Servers : c \in clients[s] =>
    /\ pc[c] \in {"attached", "gone"}
    /\ \A t \in Servers : c \in clients[t] => t = s

\* The conjunction that is inductive
IInv == /\ TypeOK
        /\ UnbornIsBlank
        /\ CountedOnce
        /\ TimerRunsWhenUnused
        /\ LifelineIsCounted
        /\ LockIsInUse

-----------------------------------------------------------------------------
LEMMA InitHolds == Init => IInv
<1> SUFFICES ASSUME Init PROVE IInv
  OBVIOUS
<1>1. TypeOK
  BY DEF Init, TypeOK
<1>2. UnbornIsBlank /\ CountedOnce /\ TimerRunsWhenUnused
  BY DEF Init, UnbornIsBlank, CountedOnce, TimerRunsWhenUnused, Ready, Live
<1>3. LifelineIsCounted /\ LockIsInUse
  BY DEF Init, LifelineIsCounted, LockIsInUse
<1> QED
  BY <1>1, <1>2, <1>3 DEF IInv

\* A step that moves a CLI through start-up, and touches no server, leaves
\* the counts right.
LEMMA StartUpStepKeeps ==
  ASSUME IInv, NEW c \in Clients, NEW stage \in StartUp \union Running \union {"gone"},
         Goto(c, stage), pc[c] # "attached" \/ stage = "gone", stage # "attached",
         stage = "gone" \/ \A s \in Servers : c \notin clients[s],
         UNCHANGED <<server, registryVars>>,
         child' \in [Clients -> Servers \union {None}],
         lock' \in [by: Clients \union {Dead}, pid: BOOLEAN] \union {None},
         LockIsInUse'
  PROVE  IInv'
<1>1. TypeOK'
  BY DEF IInv, TypeOK, Goto, registryVars
<1>2. UnbornIsBlank' /\ TimerRunsWhenUnused'
  BY DEF IInv, UnbornIsBlank, TimerRunsWhenUnused, Ready, Live, registryVars
<1>3. /\ \A d \in Clients \ {c} : pc'[d] = pc[d]
      /\ pc'[c] = stage
      /\ clients' = clients /\ server' = server
  BY DEF IInv, TypeOK, Goto, registryVars
<1>4. CountedOnce'
  BY <1>3 DEF IInv, CountedOnce
<1>5. LifelineIsCounted'
  BY <1>3 DEF IInv, LifelineIsCounted
<1> QED
  BY <1>1, <1>2, <1>4, <1>5 DEF IInv

\* No lifeline is open at any server for a CLI in start-up.
LEMMA StartUpUncounted ==
  ASSUME IInv, NEW c \in Clients, pc[c] \notin {"attached", "gone"}
  PROVE  \A s \in Servers : c \notin clients[s]
  BY DEF IInv, CountedOnce

\* The steps of APIGuard that leave the lock file alone keep it in use.
LEMMA LockStays ==
  ASSUME IInv, NEW c \in Clients, NEW stage, Goto(c, stage), lock' = lock,
         pc[c] \in Holding => stage \in Holding
  PROVE  LockIsInUse'
<1>1. lock # None => lock.by \in Clients \union {Dead}
  BY DEF IInv, TypeOK
<1>2. \A d \in Clients : pc[d] \in Holding => pc'[d] \in Holding
  BY DEF IInv, TypeOK, Goto
<1> QED
  BY <1>1, <1>2 DEF IInv, LockIsInUse

\* Launch, Probe, InspectLock, GiveUp, CheckAgain, SeeServer, Connect,
\* Refused, Leave: the CLI looks, and goes on.
LEMMA LookKeeps ==
  ASSUME IInv, NEW c \in Clients,
         \/ Launch(c) \/ Probe(c) \/ InspectLock(c) \/ GiveUp(c) \/ CheckAgain(c)
         \/ SeeServer(c) \/ Connect(c) \/ Refused(c) \/ Leave(c)
  PROVE  IInv'
<1>1. PICK stage \in StartUp \union Running \union {"gone"} :
        /\ Goto(c, stage)
        /\ pc[c] # "attached" \/ stage = "gone"
        /\ stage # "attached"
        /\ stage = "gone" \/ pc[c] \notin {"attached", "gone"} \/ Launch(c)
        /\ pc[c] \in Holding => stage \in Holding
  <2>1. CASE Launch(c)
    BY <2>1 DEF Launch, StartUp, Holding
  <2>2. CASE Probe(c)
    BY <2>2 DEF Probe, StartUp, Holding, Acquiring
  <2>3. CASE InspectLock(c)
    BY <2>3 DEF InspectLock, StartUp, Holding, Acquiring
  <2>4. CASE GiveUp(c)
    BY <2>4 DEF GiveUp, StartUp, Holding, Acquiring
  <2>5. CASE CheckAgain(c) \/ SeeServer(c)
    BY <2>5 DEF CheckAgain, SeeServer, StartUp, Holding, Acquiring
  <2>6. CASE Connect(c) \/ Refused(c)
    BY <2>6 DEF Connect, Refused, StartUp, Running, Holding, Acquiring
  <2>7. CASE Leave(c)
    BY <2>7 DEF Leave, Running, Holding
  <2> QED
    BY <2>1, <2>2, <2>3, <2>4, <2>5, <2>6, <2>7
<1>2. /\ UNCHANGED <<lock, server, registryVars>>
      /\ child' \in [Clients -> Servers \union {None}]
  BY DEF IInv, TypeOK, Launch, Probe, InspectLock, GiveUp, CheckAgain, SeeServer,
         Connect, Refused, Leave
<1>3. stage = "gone" \/ \A s \in Servers : c \notin clients[s]
  BY <1>1, StartUpUncounted DEF Launch
<1>4. LockIsInUse'
  BY <1>1, <1>2, LockStays
<1> QED
  BY <1>1, <1>2, <1>3, <1>4, StartUpStepKeeps DEF IInv, TypeOK

\* OpenLock, WritePid, UnlinkStale, ReleaseLock, CliCrash: the lock file
\* changes, and the file that is there is still its creator's.
LEMMA LockFileKeeps ==
  ASSUME IInv, NEW c \in Clients,
         OpenLock(c) \/ WritePid(c) \/ UnlinkStale(c) \/ ReleaseLock(c) \/ CliCrash(c)
  PROVE  IInv'
<1>1. PICK stage \in StartUp \union {"gone"} :
        Goto(c, stage) /\ pc[c] \notin {"attached", "gone"} /\ stage # "attached"
  BY DEF OpenLock, WritePid, UnlinkStale, ReleaseLock, CliCrash, StartUp, Holding,
         Acquiring
<1>2. /\ UNCHANGED <<server, registryVars>>
      /\ child' \in [Clients -> Servers \union {None}]
  BY DEF IInv, TypeOK, OpenLock, WritePid, UnlinkStale, ReleaseLock, CliCrash
<1>3. lock # None => lock \in [by: Clients \union {Dead}, pid: BOOLEAN]
  BY DEF IInv, TypeOK
<1>4. /\ lock' \in [by: Clients \union {Dead}, pid: BOOLEAN] \union {None}
      /\ LockIsInUse'
  <2>1. CASE OpenLock(c)
    <3>1. CASE lock = None
      <4>1. lock' = [by |-> c, pid |-> FALSE] /\ pc'[c] = "opened"
        BY <2>1, <3>1 DEF OpenLock, LockFile, IInv, TypeOK, Goto
      <4>2. lock'.by = c /\ lock' \in [by: Clients \union {Dead}, pid: BOOLEAN]
        BY <4>1
      <4> QED
        BY <4>1, <4>2 DEF LockIsInUse, Holding
    <3>2. CASE lock # None
      <4>1. UNCHANGED lock /\ Goto(c, "inspect") /\ pc[c] \notin Holding
        BY <2>1, <3>2 DEF OpenLock, Holding
      <4> QED
        BY <4>1, LockStays DEF IInv, TypeOK
    <3> QED
      BY <3>1, <3>2
  <2>2. CASE WritePid(c)
    <3>1. Goto(c, "check") /\ pc[c] \in Holding /\ "check" \in Holding
      BY <2>2 DEF WritePid, Holding
    <3>2. CASE lock = LockFile(c, FALSE)
      BY <2>2, <3>1, <3>2 DEF WritePid, LockFile, IInv, TypeOK, LockIsInUse, Goto
    <3>3. CASE lock # LockFile(c, FALSE)
      BY <2>2, <3>1, <3>3, LockStays DEF WritePid, IInv, TypeOK
    <3> QED
      BY <3>2, <3>3
  <2>3. CASE UnlinkStale(c) \/ ReleaseLock(c)
    BY <2>3 DEF UnlinkStale, ReleaseLock, LockIsInUse
  <2>4. CASE CliCrash(c)
    <3>1. CASE lock # None /\ lock.by = c
      BY <1>3, <2>4, <3>1 DEF CliCrash, LockIsInUse
    <3>2. CASE ~(lock # None /\ lock.by = c)
      BY <1>3, <2>4, <3>2 DEF CliCrash, LockIsInUse, IInv, TypeOK, Goto
    <3> QED
      BY <3>1, <3>2
  <2> QED
    BY <2>1, <2>2, <2>3, <2>4
<1>5. stage = "gone" \/ \A s \in Servers : c \notin clients[s]
  BY <1>1, StartUpUncounted
<1> QED
  BY <1>1, <1>2, <1>4, <1>5, StartUpStepKeeps

\* What is true of the servers depends on the servers alone.
LEMMA SpawnKeeps ==
  ASSUME IInv, NEW c \in Clients, NEW s \in Servers, Spawn(c, s)
  PROVE  IInv'
<1>1. /\ server' = [server EXCEPT ![s] = "starting"]
      /\ enabled' = [enabled EXCEPT ![s] = TRUE]
      /\ UNCHANGED <<lock, clients, timer, should_exit>>
      /\ Goto(c, "wait")
      /\ server[s] = "none" /\ pc[c] = "check"
  BY DEF Spawn, Live
<1>2. TypeOK'
  BY <1>1 DEF IInv, TypeOK, Spawn, Goto, StartUp, Holding
<1>3. /\ clients[s] = {} /\ ~timer[s] /\ ~should_exit[s]
      /\ \A t \in Servers : c \notin clients[t]
  BY <1>1, StartUpUncounted DEF IInv, UnbornIsBlank, Ready
<1>4. UnbornIsBlank' /\ TimerRunsWhenUnused'
  BY <1>1, <1>3 DEF IInv, TypeOK, UnbornIsBlank, TimerRunsWhenUnused, Ready, Live
<1>5. \A d \in Clients : d # c => pc'[d] = pc[d]
  BY <1>1 DEF IInv, TypeOK, Goto
<1>6. pc'[c] = "wait"
  BY <1>1 DEF IInv, TypeOK, Goto
<1>7. CountedOnce' /\ LifelineIsCounted'
  BY <1>1, <1>3, <1>5, <1>6 DEF IInv, TypeOK, CountedOnce, LifelineIsCounted
<1>8. LockIsInUse'
  BY <1>1, LockStays DEF Holding
<1> QED
  BY <1>2, <1>4, <1>7, <1>8 DEF IInv

LEMMA StartTimeoutKeeps ==
  ASSUME IInv, NEW c \in Clients, StartTimeout(c)
  PROVE  IInv'
<1>1. Goto(c, "fail") /\ pc[c] = "wait" /\ UNCHANGED <<lock, clients, timer>>
  BY DEF StartTimeout, Overdue
<1>2. \A s \in Servers :
        \/ /\ server'[s] = server[s]
           /\ enabled'[s] <=> enabled[s] /\ server[s] # "none"
        \/ server[s] = "starting" /\ server'[s] = "none" /\ ~enabled'[s]
  BY DEF StartTimeout
<1>3. \A s \in Servers : should_exit'[s] => should_exit[s] \/ Ready(s)
  BY DEF StartTimeout
<1>4. \A s \in Servers : should_exit[s] => should_exit'[s]
  BY DEF StartTimeout
<1>5. TypeOK'
  BY <1>1 DEF IInv, TypeOK, StartTimeout, Goto, StartUp, Holding
<1>6. UnbornIsBlank' /\ TimerRunsWhenUnused'
  BY <1>1, <1>2, <1>3, <1>4
     DEF IInv, TypeOK, UnbornIsBlank, TimerRunsWhenUnused, Ready, Live
<1>7. \A s \in Servers : c \notin clients[s]
  BY <1>1, StartUpUncounted
<1>8. pc'[c] = "fail" /\ \A d \in Clients : d # c => pc'[d] = pc[d]
  BY <1>1 DEF IInv, TypeOK, Goto
<1>9. CountedOnce' /\ LifelineIsCounted'
  BY <1>1, <1>2, <1>7, <1>8 DEF IInv, CountedOnce, LifelineIsCounted
<1>10. LockIsInUse'
  BY <1>1, LockStays DEF Holding
<1> QED
  BY <1>5, <1>6, <1>9, <1>10 DEF IInv

-----------------------------------------------------------------------------
\* A step of the registry at one server that leaves its process alone:
\* MarkReady and GraceEnds, ManualStart, Bind and Close
LEMMA ServerAloneKeeps ==
  ASSUME IInv, NEW s \in Servers,
         ManualStart(s) \/ MarkReady(s) \/ Bind(s) \/ Close(s) \/ GraceEnds(s)
  PROVE  IInv'
<1>1. UNCHANGED <<pc, lock, clients>>
  BY DEF ManualStart, MarkReady, Bind, Close, GraceEnds, cliVars, registryVars
<1>2. clients[s] # {} => server[s] \in {"serving", "closing"}
  BY DEF IInv, UnbornIsBlank
<1>3. \A t \in Servers : server[t] \in {"serving", "closing"} =>
        server'[t] \in {"serving", "closing"}
  BY DEF ManualStart, MarkReady, Bind, Close, GraceEnds, Live, Serving, IInv, TypeOK
<1>4. TypeOK'
  BY <1>1 DEF IInv, TypeOK, ManualStart, MarkReady, Bind, Close, GraceEnds, cliVars,
              registryVars, ScheduleShutdown
<1>5. UnbornIsBlank' /\ TimerRunsWhenUnused'
  <2>1. CASE ManualStart(s)
    BY <1>2, <2>1 DEF ManualStart, IInv, TypeOK, UnbornIsBlank, TimerRunsWhenUnused,
                      Ready, Live
  <2>2. CASE MarkReady(s)
    BY <1>2, <2>2 DEF MarkReady, ScheduleShutdown, IInv, TypeOK, UnbornIsBlank,
                      TimerRunsWhenUnused, Ready, Live
  <2>3. CASE Bind(s) \/ Close(s)
    BY <1>2, <2>3 DEF Bind, Close, Serving, registryVars, IInv, TypeOK,
                      UnbornIsBlank, TimerRunsWhenUnused, Ready, Live
  <2>4. CASE GraceEnds(s)
    BY <1>2, <2>4 DEF GraceEnds, IInv, TypeOK, UnbornIsBlank, TimerRunsWhenUnused,
                      Ready, Live
  <2> QED
    BY <2>1, <2>2, <2>3, <2>4
<1>6. CountedOnce' /\ LockIsInUse'
  BY <1>1 DEF IInv, CountedOnce, LockIsInUse
<1>7. LifelineIsCounted'
  BY <1>1, <1>3 DEF IInv, LifelineIsCounted
<1> QED
  BY <1>4, <1>5, <1>6, <1>7 DEF IInv

\* A process ends, and its lifelines with it: BindFails (no lifeline was
\* open), ServerExit, ServerCrash.
LEMMA ExitKeeps ==
  ASSUME IInv, NEW s \in Servers, BindFails(s) \/ ServerExit(s) \/ ServerCrash(s)
  PROVE  IInv'
<1>1. Exited(s) /\ lock' = lock
  BY DEF BindFails, ServerExit, ServerCrash
<1>2. pc' = pc \/ LoseLifelines(s)
  BY DEF BindFails, ServerExit, ServerCrash
<1>3. pc' = pc => clients[s] = {} \/ \A c \in clients[s] : pc[c] # "attached"
  <2>1. CASE BindFails(s)
    BY <2>1 DEF BindFails, IInv, UnbornIsBlank
  <2>2. CASE LoseLifelines(s)
    <3>1. \A c \in clients[s] : c \in Clients /\ (pc[c] = "attached" => pc'[c] = "detached")
      BY <2>2 DEF LoseLifelines, IInv, TypeOK
    <3> QED
      BY <3>1
  <2> QED
    BY <2>1, <2>2 DEF ServerExit, ServerCrash
<1>4. \A c \in Clients :
        \/ pc'[c] = pc[c] /\ (pc[c] = "attached" => c \notin clients[s])
        \/ c \in clients[s] /\ pc[c] = "attached" /\ pc'[c] = "detached"
  BY <1>2, <1>3 DEF LoseLifelines
<1>5. /\ server' = [server EXCEPT ![s] = "none"]
      /\ clients' = [clients EXCEPT ![s] = {}]
      /\ UNCHANGED lock
  BY <1>1 DEF Exited
<1>6. TypeOK'
  <2>1. pc' \in [Clients -> StartUp \union Running \union {"gone"}]
    BY <1>2 DEF LoseLifelines, IInv, TypeOK, Running
  <2> QED
    BY <1>1, <2>1 DEF Exited, IInv, TypeOK
<1>7. UnbornIsBlank' /\ TimerRunsWhenUnused'
  BY <1>1 DEF Exited, IInv, TypeOK, UnbornIsBlank, TimerRunsWhenUnused, Ready, Live
<1>8. CountedOnce'
  BY <1>4, <1>5 DEF IInv, TypeOK, CountedOnce
<1>9. LifelineIsCounted'
  BY <1>4, <1>5 DEF IInv, TypeOK, LifelineIsCounted
<1>10. LockIsInUse'
  BY <1>4, <1>5 DEF IInv, TypeOK, LockIsInUse, Holding
<1> QED
  BY <1>6, <1>7, <1>8, <1>9, <1>10 DEF IInv

\* A lifeline opens: the CLI was in start-up, so no server counts it yet.
LEMMA AttachKeeps ==
  ASSUME IInv, NEW s \in Servers, NEW c \in Clients, Attach(s, c)
  PROVE  IInv'
<1>1. /\ clients' = [clients EXCEPT ![s] = @ \union {c}]
      /\ timer' = [timer EXCEPT ![s] = FALSE]
      /\ Goto(c, "attached")
      /\ UNCHANGED <<child, lock, server, enabled, should_exit>>
      /\ server[s] = "serving" /\ pc[c] = "connecting"
  BY DEF Attach, RegistryAttach, Serving
<1>2. \A t \in Servers : c \notin clients[t]
  BY <1>1, StartUpUncounted
<1>3. pc'[c] = "attached" /\ \A d \in Clients : d # c => pc'[d] = pc[d]
  BY <1>1 DEF IInv, TypeOK, Goto
<1>4. /\ clients'[s] = clients[s] \union {c}
      /\ \A t \in Servers : t # s => clients'[t] = clients[t]
  BY <1>1 DEF IInv, TypeOK
<1>5. TypeOK'
  BY <1>1 DEF IInv, TypeOK, Goto, Running
<1>6. UnbornIsBlank' /\ TimerRunsWhenUnused'
  BY <1>1 DEF IInv, TypeOK, UnbornIsBlank, TimerRunsWhenUnused, Ready, Live
<1>7. CountedOnce'
  BY <1>2, <1>3, <1>4 DEF IInv, CountedOnce
<1>8. LifelineIsCounted'
  BY <1>1, <1>2, <1>3, <1>4 DEF IInv, LifelineIsCounted
<1>9. LockIsInUse'
  BY <1>1, LockStays DEF Holding
<1> QED
  BY <1>5, <1>6, <1>7, <1>8, <1>9 DEF IInv

\* A lifeline ends: if the CLI still runs, it goes on without.
LEMMA DetachKeeps ==
  ASSUME IInv, NEW s \in Servers, NEW c \in Clients, Detach(s, c)
  PROVE  IInv'
<1>1. /\ c \in clients[s]
      /\ clients' = [clients EXCEPT ![s] = clients[s] \ {c}]
      /\ timer' = [timer EXCEPT ![s] =
           @ \/ (clients[s] \ {c} = {} /\ enabled[s] /\ Ready(s))]
      /\ UNCHANGED <<child, lock, server, enabled, should_exit>>
  BY DEF Detach, ScheduleShutdown, Ready
<1>2. /\ pc[c] \in {"attached", "gone"}
      /\ \A t \in Servers : c \in clients[t] => t = s
  BY <1>1 DEF IInv, CountedOnce
<1>3. /\ pc'[c] \in {"detached", "gone"}
      /\ \A d \in Clients : d # c => pc'[d] = pc[d]
      /\ pc' \in [Clients -> StartUp \union Running \union {"gone"}]
  BY <1>2 DEF Detach, IInv, TypeOK, Running
<1>4. /\ clients'[s] = clients[s] \ {c}
      /\ \A t \in Servers : t # s => clients'[t] = clients[t]
  BY <1>1 DEF IInv, TypeOK
<1>5. TypeOK'
  BY <1>1, <1>3 DEF IInv, TypeOK
<1>6. UnbornIsBlank' /\ TimerRunsWhenUnused'
  BY <1>1 DEF IInv, TypeOK, UnbornIsBlank, TimerRunsWhenUnused, Ready, Live
<1>7. CountedOnce'
  BY <1>2, <1>3, <1>4 DEF IInv, CountedOnce
<1>8. LifelineIsCounted'
  BY <1>1, <1>2, <1>3, <1>4 DEF IInv, LifelineIsCounted
<1>9. LockIsInUse'
  BY <1>1, <1>2, <1>3 DEF IInv, TypeOK, LockIsInUse, Holding
<1> QED
  BY <1>5, <1>6, <1>7, <1>8, <1>9 DEF IInv

-----------------------------------------------------------------------------
LEMMA NextKeeps == IInv /\ [Next]_vars => IInv'
<1> SUFFICES ASSUME IInv, [Next]_vars PROVE IInv'
  OBVIOUS
<1>1. ASSUME NEW c \in Clients,
             \/ Launch(c) \/ CliStep(c) \/ GiveUp(c) \/ StartTimeout(c)
             \/ Leave(c) \/ CliCrash(c)
      PROVE  IInv'
  BY <1>1, LookKeeps, LockFileKeeps, SpawnKeeps, StartTimeoutKeeps DEF CliStep
<1>2. ASSUME NEW c \in Clients, NEW s \in Servers, Attach(s, c) \/ Detach(s, c)
      PROVE  IInv'
  BY <1>2, AttachKeeps, DetachKeeps
<1>3. ASSUME NEW s \in Servers,
             ManualStart(s) \/ ServerStep(s) \/ GraceEnds(s) \/ ServerCrash(s)
      PROVE  IInv'
  BY <1>3, ServerAloneKeeps, ExitKeeps DEF ServerStep
<1>4. CASE UNCHANGED vars
  BY <1>4 DEF vars, cliVars, registryVars, IInv, TypeOK, UnbornIsBlank, CountedOnce,
              TimerRunsWhenUnused, LifelineIsCounted, LockIsInUse, Ready, Live
<1> QED
  BY <1>1, <1>2, <1>3, <1>4 DEF Next

\* What a step does to should_exit: only the grace period's end and the CLI
\* that terminates its child set it. (_run_timer, ensure_api_server)
LEMMA NextExitsOnlyUnused ==
  ASSUME IInv, [Next]_vars, NEW s \in Servers, ~should_exit[s], should_exit'[s]
  PROVE  \/ clients[s] = {} /\ enabled[s]
         \/ \E c \in Clients : pc[c] = "wait" /\ child[c] = s /\ pc'[c] = "fail"
<1>1. ASSUME NEW c \in Clients,
             \/ Launch(c) \/ CliStep(c) \/ GiveUp(c) \/ Leave(c) \/ CliCrash(c)
             \/ \E t \in Servers : Attach(t, c) \/ Detach(t, c)
      PROVE  should_exit' = should_exit
  BY <1>1 DEF Launch, CliStep, Probe, OpenLock, WritePid, InspectLock, UnlinkStale,
              CheckAgain, SeeServer, ReleaseLock, Connect, Refused, Spawn, GiveUp,
              Leave, CliCrash, Attach, Detach, registryVars
<1>2. ASSUME NEW c \in Clients, StartTimeout(c)
      PROVE  pc[c] = "wait" /\ child[c] = s /\ pc'[c] = "fail"
  BY <1>2 DEF StartTimeout, Overdue, Terminated, Goto, IInv, TypeOK
<1>3. ASSUME NEW t \in Servers, GraceEnds(t)
      PROVE  clients[s] = {} /\ enabled[s]
  BY <1>3 DEF GraceEnds, IInv, TypeOK
<1>4. ASSUME NEW t \in Servers, ManualStart(t) \/ ServerStep(t) \/ ServerCrash(t)
      PROVE  should_exit' = should_exit \/ should_exit' = [should_exit EXCEPT ![t] = FALSE]
  BY <1>4 DEF ManualStart, ServerStep, MarkReady, Bind, BindFails, Close, ServerExit,
              ServerCrash, Exited, registryVars
<1>5. ASSUME NEW t \in Servers, should_exit' = [should_exit EXCEPT ![t] = FALSE]
      PROVE  FALSE
  BY <1>5 DEF IInv, TypeOK
<1>6. should_exit' # should_exit
  OBVIOUS
<1>7. ~ UNCHANGED vars
  BY <1>6 DEF vars, registryVars
<1> QED
  BY <1>1, <1>2, <1>3, <1>4, <1>5, <1>6, <1>7 DEF Next

-----------------------------------------------------------------------------
\* Whatever the CLIs and the servers do, the types are right, and each part
\* of the inductive invariant holds.
THEOREM Invariance == Spec => []IInv
  BY InitHolds, NextKeeps, PTL DEF Spec

\* A server that nobody uses is never forgotten, and one in use is never on
\* its way out, for any number of CLIs that start, attach, leave and crash
\* in any order. (ClientRegistry.attach, detach, mark_ready, _run_timer)
THEOREM TimerAlwaysRunsWhenUnused == Spec => []TimerRunsWhenUnused
<1>1. IInv => TimerRunsWhenUnused
  BY DEF IInv
<1> QED
  BY Invariance, <1>1, PTL

\* An attached CLI is counted by exactly one server, and that one is still
\* there, although a server learns late that a CLI is gone and the name of
\* a CLI or a server is used again. (lifeline, ClientRegistry)
THEOREM LifelineAlwaysCounted == Spec => []LifelineIsCounted
<1>1. IInv => LifelineIsCounted
  BY DEF IInv
<1> QED
  BY Invariance, <1>1, PTL

\* A lock file is never left behind by a CLI that lives on, although a CLI
\* may remove a file that is another's. (_acquire_startup_lock,
\* ensure_api_server)
THEOREM LockAlwaysInUse == Spec => []LockIsInUse
<1>1. IInv => LockIsInUse
  BY DEF IInv
<1> QED
  BY Invariance, <1>1, PTL

\* A server is told to exit only when it serves nobody and may exit by
\* itself, or by the CLI that started it and waited in vain. (_run_timer,
\* ensure_api_server)
THEOREM AlwaysExitsOnlyUnused == Spec => ExitsOnlyUnused
<1>1. IInv /\ [Next]_vars =>
        [\A s \in Servers : ~should_exit[s] /\ should_exit'[s] =>
           \/ clients[s] = {} /\ enabled[s]
           \/ \E c \in Clients : pc[c] = "wait" /\ child[c] = s /\ pc'[c] = "fail"]_vars
  BY NextExitsOnlyUnused
<1> QED
  BY Invariance, <1>1, PTL DEF Spec, ExitsOnlyUnused

-----------------------------------------------------------------------------
(* Servers started by hand *)

\* The server in _process is one this CLI has started, and it still runs; no
\* other CLI holds it.
ChildIsOwn ==
  \A c \in Clients : child[c] # None =>
    /\ Live(child[c]) /\ enabled[child[c]]
    /\ \A d \in Clients : child[d] = child[c] => d = c

\* Only servers with auto-shutdown are ever on their way out.
HandStartedStays == \A s \in Servers : should_exit[s] => enabled[s]

OwnInv == ChildIsOwn /\ HandStartedStays

\* The steps that start and end no process, and set nothing: the children
\* are the same, or one is forgotten.
LEMMA OthersKeepOwn ==
  ASSUME IInv, OwnInv, server' = server \/ \A s \in Servers : Live(s) => Live(s)',
         enabled' = enabled, NEW c \in Clients,
         child' = child \/ child' = [child EXCEPT ![c] = None],
         \A s \in Servers : should_exit'[s] => should_exit[s] \/ enabled[s]
  PROVE  OwnInv'
<1>1. \A d \in Clients : child'[d] # None => child[d] = child'[d] /\ child[d] \in Servers
  BY DEF IInv, TypeOK
<1>2. ChildIsOwn'
  BY <1>1 DEF OwnInv, ChildIsOwn, Live
<1>3. HandStartedStays'
  BY DEF OwnInv, HandStartedStays
<1> QED
  BY <1>2, <1>3 DEF OwnInv

LEMMA CliKeepsOwn ==
  ASSUME IInv, OwnInv, NEW c \in Clients,
         \/ Launch(c) \/ Probe(c) \/ OpenLock(c) \/ WritePid(c) \/ InspectLock(c)
         \/ UnlinkStale(c) \/ CheckAgain(c) \/ SeeServer(c) \/ ReleaseLock(c)
         \/ Connect(c) \/ Refused(c) \/ GiveUp(c) \/ Leave(c) \/ CliCrash(c)
         \/ \E s \in Servers : Attach(s, c) \/ Detach(s, c)
  PROVE  OwnInv'
<1>1. /\ UNCHANGED <<server, enabled, should_exit>>
      /\ child' = child \/ child' = [child EXCEPT ![c] = None]
  BY DEF Launch, Probe, OpenLock, WritePid, InspectLock, UnlinkStale, CheckAgain,
         SeeServer, ReleaseLock, Connect, Refused, GiveUp, Leave, CliCrash, Attach,
         Detach, registryVars
<1> QED
  BY <1>1, OthersKeepOwn

\* The new child's process had ended, so nobody held it.
LEMMA SpawnKeepsOwn ==
  ASSUME IInv, OwnInv, NEW c \in Clients, NEW s \in Servers, Spawn(c, s)
  PROVE  OwnInv'
<1>1. /\ child' = [child EXCEPT ![c] = s]
      /\ enabled' = [enabled EXCEPT ![s] = TRUE]
      /\ server' = [server EXCEPT ![s] = "starting"]
      /\ should_exit' = should_exit
      /\ ~Live(s)
  BY DEF Spawn
<1>2. \A d \in Clients : child[d] # s
  BY <1>1, LifecycleAssumption DEF OwnInv, ChildIsOwn
<1>3. \A d \in Clients : child'[d] = IF d = c THEN s ELSE child[d]
  BY <1>1 DEF IInv, TypeOK
<1>4. \A t \in Servers :
        /\ server'[t] = IF t = s THEN "starting" ELSE server[t]
        /\ enabled'[t] = IF t = s THEN TRUE ELSE enabled[t]
  BY <1>1 DEF IInv, TypeOK
<1>5. \A d \in Clients : child[d] # None => child[d] \in Servers
  BY DEF IInv, TypeOK
<1>6. ChildIsOwn'
  <2> SUFFICES ASSUME NEW d \in Clients, child'[d] # None
               PROVE  /\ server'[child'[d]] # "none" /\ enabled'[child'[d]]
                      /\ \A e \in Clients : child'[e] = child'[d] => e = d
    BY DEF ChildIsOwn, Live
  <2>1. CASE d = c
    BY <1>2, <1>3, <1>4, <2>1
  <2>2. CASE d # c
    <3>1. child'[d] = child[d] /\ child[d] # None /\ child[d] \in Servers /\ child[d] # s
      BY <1>2, <1>3, <1>5, <2>2
    <3>2. /\ Live(child[d]) /\ enabled[child[d]]
          /\ \A e \in Clients : child[e] = child[d] => e = d
      BY <3>1 DEF OwnInv, ChildIsOwn
    <3>3. server'[child[d]] = server[child[d]] /\ enabled'[child[d]] = enabled[child[d]]
      BY <1>4, <3>1
    <3>4. \A e \in Clients : child'[e] = child[d] => e = d
      BY <1>3, <3>1, <3>2
    <3> QED
      BY <3>1, <3>2, <3>3, <3>4 DEF Live
  <2> QED
    BY <2>1, <2>2
<1>7. HandStartedStays'
  BY <1>1 DEF OwnInv, HandStartedStays, IInv, TypeOK
<1> QED
  BY <1>6, <1>7 DEF OwnInv

\* The CLI that waited in vain ends its own server, which has auto-shutdown.
LEMMA StartTimeoutKeepsOwn ==
  ASSUME IInv, OwnInv, NEW c \in Clients, StartTimeout(c)
  PROVE  OwnInv'
<1>1. /\ child' = [child EXCEPT ![c] = None]
      /\ \A s \in Servers :
           /\ s # child[c] \/ Ready(s) =>
                server'[s] = server[s] /\ (enabled'[s] <=> enabled[s] /\ Live(s))
           /\ should_exit'[s] => should_exit[s] \/ (s = child[c] /\ Ready(s))
           /\ server'[s] = "none" => server[s] = "none" \/ ~Ready(s)
  BY DEF StartTimeout, Terminated, Ready, Live, IInv, TypeOK
<1>2. \A d \in Clients : child'[d] # None =>
        d # c /\ child'[d] = child[d] /\ child[d] \in Servers /\ child[d] # child[c]
  BY <1>1 DEF OwnInv, ChildIsOwn, IInv, TypeOK
<1>3. ChildIsOwn'
  BY <1>1, <1>2 DEF OwnInv, ChildIsOwn, Live
<1>4. ASSUME NEW s \in Servers, should_exit'[s] PROVE enabled'[s]
  <2>1. enabled[s] /\ Ready(s)
    BY <1>1, <1>4, LifecycleAssumption
       DEF OwnInv, ChildIsOwn, HandStartedStays, IInv, UnbornIsBlank
  <2> QED
    BY <1>1, <2>1 DEF Ready, Live
<1> QED
  BY <1>3, <1>4 DEF OwnInv, HandStartedStays

LEMMA ServerKeepsOwn ==
  ASSUME IInv, OwnInv, NEW s \in Servers,
         ManualStart(s) \/ ServerStep(s) \/ GraceEnds(s) \/ ServerCrash(s)
  PROVE  OwnInv'
<1>1. CASE ManualStart(s)
  <2>1. \A c \in Clients : child[c] # s
    BY <1>1, LifecycleAssumption DEF ManualStart, OwnInv, ChildIsOwn
  <2>2. ~should_exit[s]
    BY <1>1 DEF ManualStart, IInv, UnbornIsBlank, Ready, Live
  <2>3. /\ \A t \in Servers : t # s => server'[t] = server[t] /\ enabled'[t] = enabled[t]
        /\ child' = child /\ should_exit' = should_exit
    BY <1>1 DEF ManualStart, cliVars, IInv, TypeOK
  <2>4. \A c \in Clients : child[c] # None => child[c] \in Servers
    BY DEF IInv, TypeOK
  <2>5. ChildIsOwn'
    BY <2>1, <2>3, <2>4 DEF OwnInv, ChildIsOwn, Live
  <2> QED
    BY <2>2, <2>3, <2>5 DEF OwnInv, HandStartedStays
<1>2. CASE MarkReady(s) \/ Bind(s) \/ Close(s) \/ GraceEnds(s)
  <2>1. /\ \A t \in Servers : server[t] # "none" => server'[t] # "none"
        /\ child' = child /\ enabled' = enabled
        /\ \A t \in Servers : should_exit'[t] => should_exit[t] \/ enabled[t]
    BY <1>2 DEF MarkReady, Bind, Close, GraceEnds, cliVars, registryVars, IInv, TypeOK
  <2>2. \A c \in Clients : child[c] # None => child[c] \in Servers
    BY DEF IInv, TypeOK
  <2>3. ChildIsOwn'
    BY <2>1, <2>2 DEF OwnInv, ChildIsOwn, Live
  <2> QED
    BY <2>1, <2>3 DEF OwnInv, HandStartedStays
<1>3. CASE BindFails(s) \/ ServerExit(s) \/ ServerCrash(s)
  <2>1. Exited(s)
    BY <1>3 DEF BindFails, ServerExit, ServerCrash
  <2>2. \A c \in Clients : child'[c] # None =>
          child'[c] = child[c] /\ child[c] \in Servers /\ child[c] # s
    BY <2>1 DEF Exited, IInv, TypeOK
  <2>3. \A t \in Servers :
          /\ t # s => server'[t] = server[t] /\ enabled'[t] = enabled[t]
          /\ should_exit'[t] => should_exit[t] /\ t # s
    BY <2>1 DEF Exited, IInv, TypeOK
  <2>4. ChildIsOwn'
    BY <2>2, <2>3 DEF OwnInv, ChildIsOwn, Live
  <2> QED
    BY <2>3, <2>4 DEF OwnInv, HandStartedStays
<1> QED
  BY <1>1, <1>2, <1>3 DEF ServerStep

LEMMA NextKeepsOwn == IInv /\ OwnInv /\ [Next]_vars => OwnInv'
<1> SUFFICES ASSUME IInv, OwnInv, [Next]_vars PROVE OwnInv'
  OBVIOUS
<1>1. CASE UNCHANGED vars
  BY <1>1 DEF vars, cliVars, registryVars, OwnInv, ChildIsOwn, HandStartedStays, Live
<1> QED
  BY <1>1, CliKeepsOwn, SpawnKeepsOwn, StartTimeoutKeepsOwn, ServerKeepsOwn
     DEF Next, CliStep

\* A server the user started by hand is never on its way out: not by its
\* timer, and not by the CLI whose child once had its name and waited in
\* vain. ("--mode server" without --auto-shutdown; _run_timer,
\* ensure_api_server)
THEOREM HandStartedNeverExits == Spec => []HandStartedStays
<1>1. Init => OwnInv
  BY DEF Init, OwnInv, ChildIsOwn, HandStartedStays
<1>2. OwnInv => HandStartedStays
  BY DEF OwnInv
<1> QED
  BY Invariance, <1>1, <1>2, NextKeepsOwn, PTL DEF Spec
==============================================================================
