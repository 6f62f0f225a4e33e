--------------------------- MODULE ServerLifecycle ---------------------------
(***************************************************************************)
(* CLI processes that share one API server: each CLI starts the server if  *)
(* none answers (APIGuard, with a lock file against doing so twice), then  *)
(* holds a websocket, its lifeline, until it ends. The server counts the   *)
(* lifelines (ClientRegistry) and exits a grace period after the last one  *)
(* is gone.                                                                *)
(*                                                                         *)
(* A CLI is a process of blocking calls: a step is one system call or one  *)
(* request. In the server, asyncio runs each callback up to its next await *)
(* without interruption, and a step is such a callback. Time is abstracted *)
(* to the order of things: the grace period may end, and a deadline pass,  *)
(* at any moment while its condition lasts.                                *)
(***************************************************************************)
EXTENDS FiniteSets

CONSTANTS
  Clients,   \* CLI processes; the name of one that has ended is used again
  Servers,   \* server processes, likewise
  ByHand,    \* the servers a user may start by hand
  Dead,      \* the owner of a lock file whose process has ended
  None,      \* no lock file, no child process
  Faults     \* what a run allows: "cli" a crash in start-up, "server" a crash

ASSUME LifecycleAssumption ==
  /\ Dead \notin Clients /\ None \notin Clients \union Servers
  /\ ByHand \subseteq Servers /\ Faults \subseteq {"cli", "server"}

VARIABLES
  pc,          \* where a CLI stands in ensure_api_server and attach_client
  child,       \* _process: the server a CLI has started
  lock,        \* api_server.lock: its creator, and whether it holds a pid yet
  server,      \* stage of a server process
  enabled,     \* ClientRegistry._enabled: --auto-shutdown
  clients,     \* ClientRegistry._clients
  timer,       \* ClientRegistry._timer is running
  should_exit  \* uvicorn's should_exit

cliVars      == <<pc, child, lock>>
registryVars == <<enabled, clients, timer, should_exit>>
vars         == <<cliVars, server, registryVars>>

\* CLI stages: "gone" (no process); "probe" (first health check); "acquire",
\* "inspect", "unlink" (the loop of _acquire_startup_lock); "opened" (lock
\* file created, pid not written); "check", "wait", "release", "fail" (the
\* lock is taken); "attach", "connecting"; "attached" or "detached" (the CLI
\* runs, with or without its lifeline).
Acquiring == {"acquire", "inspect", "unlink"}
Holding   == {"opened", "check", "wait", "release", "fail"}
StartUp   == {"probe", "attach", "connecting"} \union Acquiring \union Holding
Running   == {"attached", "detached"}

\* Server stages: "none"; "starting" (restore and assembly); "ready" (the
\* lifespan has started, the port is not bound yet); "serving"; "closing"
\* (the listener is closed, the connections are being closed).
Live(s)    == server[s] # "none"
Serving(s) == server[s] = "serving"
Ready(s)   == server[s] \in {"ready", "serving", "closing"}

\* is_running: /health is answered as long as some process listens
Healthy == \E s \in Servers : Serving(s)

Goto(c, stage) == pc' = [pc EXCEPT ![c] = stage]

LockFile(c, written) == [by |-> c, pid |-> written]

-----------------------------------------------------------------------------
(* APIGuard.ensure_api_server *)

Launch(c) ==
  /\ pc[c] = "gone"
  /\ \A s \in Servers : c \notin clients[s]
  /\ Goto(c, "probe")
  /\ child' = [child EXCEPT ![c] = None]
  /\ UNCHANGED <<lock, server, registryVars>>

Probe(c) ==
  /\ pc[c] = "probe"
  /\ Goto(c, IF Healthy THEN "attach" ELSE "acquire")
  /\ UNCHANGED <<child, lock, server, registryVars>>

\* os.open(O_CREAT | O_EXCL)
OpenLock(c) ==
  /\ pc[c] = "acquire"
  /\ IF lock = None
       THEN lock' = LockFile(c, FALSE) /\ Goto(c, "opened")
       ELSE UNCHANGED lock /\ Goto(c, "inspect")
  /\ UNCHANGED <<child, server, registryVars>>

\* The pid goes into the file this process created, which may be unlinked.
WritePid(c) ==
  /\ pc[c] = "opened"
  /\ lock' = IF lock = LockFile(c, FALSE) THEN LockFile(c, TRUE) ELSE lock
  /\ Goto(c, "check")
  /\ UNCHANGED <<child, server, registryVars>>

\* Mutant: a lock is never taken from a process that has ended.
StaleIfEmpty == lock = None \/ ~lock.pid

\* _lock_is_stale: no file, no pid in it, or the pid of no process
Stale == lock = None \/ ~lock.pid \/ lock.by = Dead

InspectLock(c) ==
  /\ pc[c] = "inspect"
  /\ Goto(c, IF Stale THEN "unlink" ELSE "acquire")
  /\ UNCHANGED <<child, lock, server, registryVars>>

\* the deadline has passed: "another client is starting the API server"
GiveUp(c) ==
  /\ pc[c] = "inspect"
  /\ ~Stale
  /\ Goto(c, "gone")
  /\ UNCHANGED <<child, lock, server, registryVars>>

UnlinkStale(c) ==
  /\ pc[c] = "unlink"
  /\ lock' = None
  /\ Goto(c, "acquire")
  /\ UNCHANGED <<child, server, registryVars>>

\* The second health check, under the lock, and Popen
CheckAgain(c) ==
  /\ pc[c] = "check"
  /\ Healthy
  /\ Goto(c, "release")
  /\ UNCHANGED <<child, lock, server, registryVars>>

Spawn(c, s) ==
  /\ pc[c] = "check"
  /\ ~Healthy
  /\ ~Live(s)
  /\ server' = [server EXCEPT ![s] = "starting"]
  /\ enabled' = [enabled EXCEPT ![s] = TRUE]
  /\ child' = [child EXCEPT ![c] = s]
  /\ Goto(c, "wait")
  /\ UNCHANGED <<lock, clients, timer, should_exit>>

SeeServer(c) ==
  /\ pc[c] = "wait"
  /\ Healthy
  /\ Goto(c, "release")
  /\ UNCHANGED <<child, lock, server, registryVars>>

\* Mutants: the deadline counts only while the child lives; the process that
\* listens on the port is terminated, too.
OverdueAlive(c) == pc[c] = "wait" /\ child[c] # None
TerminatedByPort(c) == {s \in Servers : s = child[c] \/ Serving(s)}

\* The wait has a deadline. It may pass just after the server began to listen:
\* the last health check is a tenth of a second old by then.
Overdue(c) == pc[c] = "wait"

Terminated(c) == {s \in Servers : s = child[c]}

\* The child is terminated. Before uvicorn handles the signal it ends the
\* process, afterwards it asks the server to exit.
StartTimeout(c) ==
  /\ Overdue(c)
  /\ server' = [s \in Servers |->
       IF s \in Terminated(c) /\ server[s] = "starting" THEN "none" ELSE server[s]]
  /\ enabled' = [s \in Servers |-> enabled[s] /\ server'[s] # "none"]
  /\ should_exit' = [s \in Servers |->
       should_exit[s] \/ (s \in Terminated(c) /\ Ready(s))]
  /\ child' = [child EXCEPT ![c] = None]
  /\ Goto(c, "fail")
  /\ UNCHANGED <<lock, clients, timer>>

\* Mutant: the lock is released only when the server has come up.
ReleaseOnSuccess(c) ==
  /\ pc[c] \in {"release", "fail"}
  /\ lock' = IF pc[c] = "release" THEN None ELSE lock
  /\ Goto(c, IF pc[c] = "release" THEN "attach" ELSE "gone")
  /\ UNCHANGED <<child, server, registryVars>>

\* The finally block removes the file of that name, whoever created it.
ReleaseLock(c) ==
  /\ pc[c] \in {"release", "fail"}
  /\ lock' = None
  /\ Goto(c, IF pc[c] = "release" THEN "attach" ELSE "gone")
  /\ UNCHANGED <<child, server, registryVars>>

-----------------------------------------------------------------------------
(* APIGuard.attach_client, and the end of a CLI *)

\* A lifeline that cannot be opened is only logged.
Connect(c) ==
  /\ pc[c] = "attach"
  /\ Goto(c, IF Healthy THEN "connecting" ELSE "detached")
  /\ UNCHANGED <<child, lock, server, registryVars>>

\* The server that was to answer stopped listening meanwhile.
Refused(c) ==
  /\ pc[c] = "connecting"
  /\ ~Healthy
  /\ Goto(c, "detached")
  /\ UNCHANGED <<child, lock, server, registryVars>>

\* The CLI ends, by itself or by a signal; either way its socket is closed.
Leave(c) ==
  /\ pc[c] \in Running
  /\ Goto(c, "gone")
  /\ UNCHANGED <<child, lock, server, registryVars>>

\* A CLI dies while it holds the lock: the file stays behind.
CliCrash(c) ==
  /\ "cli" \in Faults
  /\ pc[c] \in Holding
  /\ lock' = IF lock # None /\ lock.by = c THEN [lock EXCEPT !.by = Dead] ELSE lock
  /\ Goto(c, "gone")
  /\ UNCHANGED <<child, server, registryVars>>

-----------------------------------------------------------------------------
(* ClientRegistry and the server process *)

\* Mutant: no timer for a server that has had no lifeline yet.
ScheduleAfterUse(s, stage, left) ==
  timer' = [timer EXCEPT ![s] = @ \/ (left = {} /\ clients[s] # {} /\ enabled[s])]

\* _schedule_shutdown: at most one timer runs
ScheduleShutdown(s, stage, left) ==
  timer' = [timer EXCEPT ![s] =
    @ \/ (left = {} /\ enabled[s] /\ stage \in {"ready", "serving", "closing"})]

\* Mutants: the timer goes on; only servers with auto-shutdown count.
AttachKeepsTimer(s, c) ==
  clients' = [clients EXCEPT ![s] = @ \union {c}] /\ UNCHANGED timer
AttachIfEnabled(s, c) ==
  /\ clients' = [clients EXCEPT ![s] = IF enabled[s] THEN @ \union {c} ELSE @]
  /\ timer' = [timer EXCEPT ![s] = FALSE]

\* ClientRegistry.attach
RegistryAttach(s, c) ==
  /\ clients' = [clients EXCEPT ![s] = @ \union {c}]
  /\ timer' = [timer EXCEPT ![s] = FALSE]

\* A server the user starts with --mode server has no --auto-shutdown.
ManualStart(s) ==
  /\ s \in ByHand
  /\ ~Live(s)
  /\ server' = [server EXCEPT ![s] = "starting"]
  /\ enabled' = [enabled EXCEPT ![s] = FALSE]
  /\ UNCHANGED <<cliVars, clients, timer, should_exit>>

\* The lifespan handler: mark_ready
MarkReady(s) ==
  /\ server[s] = "starting"
  /\ server' = [server EXCEPT ![s] = "ready"]
  /\ ScheduleShutdown(s, "ready", clients[s])
  /\ UNCHANGED <<cliVars, enabled, clients, should_exit>>

\* Everything of a process ends with it. To terminate it is then no step.
Exited(s) ==
  /\ child' = [c \in Clients |-> IF child[c] = s THEN None ELSE child[c]]
  /\ server' = [server EXCEPT ![s] = "none"]
  /\ enabled' = [enabled EXCEPT ![s] = FALSE]
  /\ clients' = [clients EXCEPT ![s] = {}]
  /\ timer' = [timer EXCEPT ![s] = FALSE]
  /\ should_exit' = [should_exit EXCEPT ![s] = FALSE]

\* CLIs whose lifeline ends with the server's process go on without it.
LoseLifelines(s) ==
  pc' = [c \in Clients |->
    IF c \in clients[s] /\ pc[c] = "attached" THEN "detached" ELSE pc[c]]

\* uvicorn binds the port, or exits when another server has it.
Bind(s) ==
  /\ server[s] = "ready"
  /\ ~Healthy
  /\ server' = [server EXCEPT ![s] = "serving"]
  /\ UNCHANGED <<cliVars, registryVars>>

BindFails(s) ==
  /\ server[s] = "ready"
  /\ Healthy
  /\ Exited(s)
  /\ UNCHANGED <<pc, lock>>

\* lifeline: accept, and ClientRegistry.attach
Attach(s, c) ==
  /\ Serving(s)
  /\ pc[c] = "connecting"
  /\ Goto(c, "attached")
  /\ RegistryAttach(s, c)
  /\ UNCHANGED <<child, lock, server, enabled, should_exit>>

\* lifeline ends: the CLI is gone, or uvicorn closes the connection.
Detach(s, c) ==
  LET left == clients[s] \ {c} IN
  /\ c \in clients[s]
  /\ pc[c] = "gone" \/ server[s] = "closing"
  /\ clients' = [clients EXCEPT ![s] = left]
  /\ ScheduleShutdown(s, server[s], left)
  /\ pc' = [pc EXCEPT ![c] = IF @ = "attached" THEN "detached" ELSE @]
  /\ UNCHANGED <<child, lock, server, enabled, should_exit>>

\* _run_timer, when the grace period is over
GraceEnds(s) ==
  /\ timer[s]
  /\ timer' = [timer EXCEPT ![s] = FALSE]
  /\ should_exit' = [should_exit EXCEPT ![s] =
       @ \/ (clients[s] = {} /\ Ready(s) /\ enabled[s])]
  /\ UNCHANGED <<cliVars, server, enabled, clients>>

\* uvicorn's main loop sees should_exit: the listener is closed, then the
\* connections; what is still open after ten seconds is cut off.
Close(s) ==
  /\ Serving(s)
  /\ should_exit[s]
  /\ server' = [server EXCEPT ![s] = "closing"]
  /\ UNCHANGED <<cliVars, registryVars>>

ServerExit(s) ==
  /\ server[s] = "closing"
  /\ LoseLifelines(s)
  /\ Exited(s)
  /\ UNCHANGED lock

ServerCrash(s) ==
  /\ "server" \in Faults
  /\ Live(s)
  /\ LoseLifelines(s)
  /\ Exited(s)
  /\ UNCHANGED lock

-----------------------------------------------------------------------------
Init ==
  /\ pc = [c \in Clients |-> "gone"]
  /\ child = [c \in Clients |-> None]
  /\ lock = None
  /\ server = [s \in Servers |-> "none"]
  /\ enabled = [s \in Servers |-> FALSE]
  /\ clients = [s \in Servers |-> {}]
  /\ timer = [s \in Servers |-> FALSE]
  /\ should_exit = [s \in Servers |-> FALSE]

\* What a CLI does by itself, deadlines apart
CliStep(c) ==
  \/ Probe(c) \/ OpenLock(c) \/ WritePid(c) \/ InspectLock(c) \/ UnlinkStale(c)
  \/ CheckAgain(c) \/ SeeServer(c) \/ ReleaseLock(c) \/ Connect(c) \/ Refused(c)
  \/ \E s \in Servers : Spawn(c, s)

\* What a server process does by itself
ServerStep(s) ==
  MarkReady(s) \/ Bind(s) \/ BindFails(s) \/ Close(s) \/ ServerExit(s)

Next ==
  \/ \E c \in Clients :
       \/ Launch(c) \/ CliStep(c) \/ GiveUp(c) \/ StartTimeout(c)
       \/ Leave(c) \/ CliCrash(c)
       \/ \E s \in Servers : Attach(s, c) \/ Detach(s, c)
  \/ \E s \in Servers :
       ManualStart(s) \/ ServerStep(s) \/ GraceEnds(s) \/ ServerCrash(s)

\* The processes run and time passes: a CLI takes its next step (strongly
\* fair, since a free name for a server is the model's concern alone), its
\* deadlines come, the server's event loop runs what is ready, timers end.
\* Nobody has to start, end or kill a CLI or a server.
Fairness ==
  /\ \A c \in Clients : /\ SF_vars(CliStep(c))
                        /\ SF_vars(GiveUp(c))
                        /\ WF_vars(StartTimeout(c))
  /\ \A s \in Servers : /\ WF_vars(ServerStep(s))
                        /\ WF_vars(GraceEnds(s))
                        /\ \A c \in Clients : /\ WF_vars(Attach(s, c))
                                              /\ WF_vars(Detach(s, c))

Spec == Init /\ [][Next]_vars

FairSpec == Spec /\ Fairness

-----------------------------------------------------------------------------
(* What the life cycle promises *)

TypeOK ==
  /\ pc \in [Clients -> StartUp \union Running \union {"gone"}]
  /\ child \in [Clients -> Servers \union {None}]
  /\ lock \in [by: Clients \union {Dead}, pid: BOOLEAN] \union {None}
  /\ server \in [Servers -> {"none", "starting", "ready", "serving", "closing"}]
  /\ enabled \in [Servers -> BOOLEAN]
  /\ clients \in [Servers -> SUBSET Clients]
  /\ timer \in [Servers -> BOOLEAN]
  /\ should_exit \in [Servers -> BOOLEAN]

\* A server that nobody uses is never forgotten, and one in use never on its
\* way out: until it is asked to exit, a ready server's timer runs exactly
\* when auto-shutdown is on and no lifeline is open, in whatever order
\* lifelines open, close and the server becomes ready.
\* (ClientRegistry.attach, detach, mark_ready)
TimerRunsWhenUnused ==
  \A s \in Servers : Ready(s) /\ ~should_exit[s] =>
    (timer[s] <=> enabled[s] /\ clients[s] = {})

\* A CLI with a lifeline is counted by exactly one server, and that server is
\* still there; so the count is of use to it.
LifelineIsCounted ==
  \A c \in Clients : pc[c] = "attached" =>
    \E s \in Servers : /\ c \in clients[s] /\ server[s] \in {"serving", "closing"}
                      /\ \A t \in Servers \ {s} : c \notin clients[t]

\* The lock file never outlives its use: if there is one, the process that
\* created it is still between creating and removing it, or has crashed
\* there. (What a CLI removes may be another's, but none is left behind.)
LockIsInUse ==
  lock # None => lock.by = Dead \/ pc[lock.by] \in Holding

\* No server is told to exit under an open lifeline, and none that the user
\* started by hand ever is ("--mode server" never exits by itself): only the
\* CLI that has started a server and waited in vain ends it regardless, and
\* it ends no other CLI's server.
ExitsOnlyUnused ==
  [][\A s \in Servers : ~should_exit[s] /\ should_exit'[s] =>
       \/ clients[s] = {} /\ enabled[s]
       \/ \E c \in Clients : pc[c] = "wait" /\ child[c] = s /\ pc'[c] = "fail"]_vars

\* Once all CLIs are gone for good, however they ended, every server they
\* started exits: also one whose CLI died before it attached, one that lost
\* the race for the port and one still closing connections.
ServersEventuallyExit ==
  <>[](\A c \in Clients : pc[c] = "gone") =>
    <>[](\A s \in Servers : enabled[s] => ~Live(s))

\* Nobody waits for ever: a CLI in start-up gets a server, goes on without
\* its lifeline, or fails with an error; also when the lock's holder crashed
\* or the server it started died. (Unless CLIs are started, or crash, for
\* ever: a CLI that finds the lock stale each time looks at no deadline.)
StartUpEnds ==
  <>[][\A c \in Clients : ~Launch(c) /\ ~CliCrash(c)]_vars =>
    \A c \in Clients : pc[c] \in StartUp ~> pc[c] \notin StartUp

\* The lock of a CLI that crashed does not keep others out for good.
StaleLockIsBroken ==
  []<>(\E c \in Clients : pc[c] \in Acquiring) =>
    []<>(lock = None \/ lock.by # Dead)

\* "Of two CLIs that start at the same time one starts the server."
OneServerStarted ==
  \A s, t \in Servers :
    /\ enabled[s] /\ enabled[t] /\ ~should_exit[s] /\ ~should_exit[t]
    /\ server[s] \in {"starting", "ready", "serving"}
    /\ server[t] \in {"starting", "ready", "serving"}
    => s = t
=============================================================================
