------------------------------ MODULE Sessions -------------------------------
(***************************************************************************)
(* The sessions of a user: the index in SQLite that counts their turns and *)
(* the agents they used, the routes /stream and /resume that touch it      *)
(* before they answer, and the CLIs that ask.                              *)
(*                                                                         *)
(* A request is a coroutine: between two awaits nothing else runs, at an   *)
(* await anything may. All requests share the connection of the index, and *)
(* so its transaction; two requests that find none open one each. A CLI    *)
(* that gives up leaves its request running.                               *)
(***************************************************************************)
EXTENDS Integers, FiniteSets

CONSTANTS
  Clients,       \* CLIs of one user
  Agents,        \* agents that exist and are enabled
  DefaultAgent,  \* DEFAULT_AGENT_ID
  SessionIds,    \* ids given by option or by uuid4
  Requests,      \* bound: requests the server works on at a time
  MaxAsked,      \* bound: requests in all
  MaxCrashes,    \* bound: crashes of the server
  None

ASSUME SessionsAssumption ==
  /\ DefaultAgent \in Agents /\ MaxCrashes \in Nat /\ MaxAsked \in Nat
  /\ None \notin SessionIds \union Requests \union Agents
  /\ IsFiniteSet(Requests)

VARIABLES
  cli,        \* each CLI: the session and agent it talks to, its request
  req,        \* the requests worked on: [pc, session, agent, connection, record]
  current,    \* _connection, named after the request that opened it
  holder,     \* external: the connection with the open write transaction
  committed,  \* external: the rows on disk
  dirty,      \* external: the rows as the holder sees them
  asked, crashes,
  told,       \* history: turns of each session a CLI was told of
  served,     \* history: <<session, agent>> of those turns
  overlapped  \* history: <<session, agent>> of touches that overlapped another

server == <<current, holder, committed, dirty>>
history == <<told, served, overlapped>>
vars == <<cli, req, server, asked, crashes, history>>

\* Inside touch, from the look-up of the row to its commit
Touching == {"write", "commitTouch"}

Row(turns, last, used) == [turns |-> turns, last |-> last, used |-> used]

Rows == [turns: Nat, last: Agents \union {None}, used: SUBSET Agents]

ASSUME RowsAssumption == None \notin Rows

\* The rows a connection sees: its own writes and what is committed
View(connection) == IF holder = connection THEN dirty ELSE committed

Goto(r, pc) == req' = [req EXCEPT ![r].pc = pc]

Request(pc, session, agent) ==
  [pc |-> pc, session |-> session, agent |-> agent, connection |-> None, record |-> None]

Free == Request("free", None, None)

\* The CLIs when the request of one of them has ended
Released(ended) ==
  [c \in Clients |-> IF cli[c].request \in ended THEN [cli[c] EXCEPT !.request = None] ELSE cli[c]]

\* An exception: status 500
Fail(r) == req' = [req EXCEPT ![r] = Free] /\ cli' = Released({r})

-----------------------------------------------------------------------------
(* The index *)

\* _ensure_connection when there is none: it takes awaits, and of two that open
\* one the last one's stays. With a connection it does not wait.
Open(r) ==
  /\ req[r].pc \in {"create", "touch"} /\ current = None
  /\ Goto(r, IF req[r].pc = "create" THEN "open" ELSE "openTouch")
  /\ UNCHANGED <<cli, server, asked, crashes, history>>

Opened(r) ==
  /\ req[r].pc \in {"open", "openTouch"}
  /\ current' = r
  /\ Goto(r, IF req[r].pc = "open" THEN "create" ELSE "touch")
  /\ UNCHANGED <<cli, holder, committed, dirty, asked, crashes, history>>

\* The first write of a transaction waits until no other connection has one.
MayWrite(connection) == connection # None /\ holder \in {None, connection}

\* new_session
InsertSession(r) ==
  /\ req[r].pc = "create" /\ MayWrite(current)
  /\ \E s \in SessionIds \ DOMAIN View(current) :
       /\ \A other \in Requests : req[other].session # s
       /\ \A c \in Clients : cli[c].session # s
       /\ dirty' = [t \in DOMAIN View(current) \union {s} |->
                      IF t = s THEN Row(0, None, {}) ELSE View(current)[t]]
       /\ req' = [req EXCEPT ![r].session = s, ![r].connection = current, ![r].pc = "commit"]
  /\ holder' = current
  /\ UNCHANGED <<cli, current, committed, asked, crashes, history>>

\* commit ends the transaction of the connection, whoever wrote in it.
CommitHeld(r) ==
  IF holder = req[r].connection
    THEN committed' = dirty /\ holder' = None
    ELSE UNCHANGED <<committed, holder>>

Commit(r) ==
  /\ req[r].pc \in {"commit", "commitTouch"}
  /\ CommitHeld(r)
  /\ Goto(r, IF req[r].pc = "commit" THEN "touch" ELSE "answer")
  /\ UNCHANGED <<cli, current, dirty, asked, crashes, history>>

\* Those inside touch for the session of r
Others(r) == {o \in Requests \ {r} : req[o].pc \in Touching /\ req[o].session = req[r].session}

\* get_session
ReadRow(r) ==
  /\ req[r].pc = "touch" /\ current # None
  /\ LET rows == View(current)
         s == req[r].session
     IN  req' = [req EXCEPT ![r].record = IF s \in DOMAIN rows THEN rows[s] ELSE None,
                            ![r].connection = current,
                            ![r].pc = "write"]
  /\ overlapped' = overlapped \union
       {<<req[r].session, req[o].agent>> : o \in IF Others(r) = {} THEN {} ELSE Others(r) \union {r}}
  /\ UNCHANGED <<cli, server, asked, crashes, told, served>>

\* Mutant: the turns are counted from what was read.
TouchedRowCounted(row, record, agent) ==
  IF record = None THEN Row(1, agent, {agent})
  ELSE Row(record.turns + 1, agent, record.used \union {agent})

\* Mutant: the agent replaces those before it.
TouchedRowAnew(row, record, agent) ==
  IF record = None THEN Row(1, agent, {agent}) ELSE Row(row.turns + 1, agent, {agent})

\* INSERT, or UPDATE: agents_used is what was read, but SQL counts the turn.
TouchedRow(row, record, agent) ==
  IF record = None THEN Row(1, agent, {agent})
  ELSE Row(row.turns + 1, agent, record.used \union {agent})

\* touch. An INSERT of a row that another request has inserted meanwhile fails,
\* and leaves the transaction it has begun open.
WriteRow(r) ==
  /\ req[r].pc = "write" /\ MayWrite(req[r].connection)
  /\ LET rows == View(req[r].connection)
         s == req[r].session
         row == IF s \in DOMAIN rows THEN rows[s] ELSE None
         touched == TouchedRow(row, req[r].record, req[r].agent)
     IN  IF req[r].record = None /\ row # None
           THEN Fail(r) /\ dirty' = rows
           ELSE /\ dirty' = [t \in DOMAIN rows \union {s} |-> IF t = s THEN touched ELSE rows[t]]
                /\ Goto(r, "commitTouch")
                /\ UNCHANGED cli
  /\ holder' = req[r].connection
  /\ UNCHANGED <<current, committed, asked, crashes, history>>

\* OperationalError: database is locked
Locked(r) ==
  /\ \/ req[r].pc = "create" /\ current # None /\ ~MayWrite(current)
     \/ req[r].pc = "write" /\ ~MayWrite(req[r].connection)
  /\ Fail(r)
  /\ UNCHANGED <<server, asked, crashes, history>>

-----------------------------------------------------------------------------
(* The CLI *)

\* /agent <id> and /new
Switch(c) ==
  /\ cli[c].request = None
  /\ \/ \E a \in Agents : cli' = [cli EXCEPT ![c].agent = a]
     \/ cli' = [cli EXCEPT ![c].session = None]
  /\ UNCHANGED <<req, server, asked, crashes, history>>

\* POST /stream, or POST /resume when the session is known: from here on the
\* two are alike. An agent without a loop is refused before the index is touched.
Ask(c) ==
  /\ cli[c].request = None
  /\ asked < MaxAsked /\ asked' = asked + 1
  /\ \E r \in Requests :
       /\ req[r] = Free
       /\ req' = [req EXCEPT ![r] = Request(IF cli[c].session = None THEN "create" ELSE "touch",
                                            cli[c].session, cli[c].agent)]
       /\ cli' = [cli EXCEPT ![c].request = r]
  /\ UNCHANGED <<server, crashes, history>>

\* The first event of the stream, _apply_session_event, if the CLI still waits
Answer(r) ==
  /\ req[r].pc = "answer"
  /\ LET s == req[r].session
         a == req[r].agent
         waiting == {c \in Clients : cli[c].request = r}
     IN  /\ cli' = [c \in Clients |-> IF c \in waiting THEN [session |-> s, agent |-> a, request |-> None]
                                     ELSE cli[c]]
         /\ told' = [told EXCEPT ![s] = @ + Cardinality(waiting)]
         /\ served' = IF waiting = {} THEN served ELSE served \union {<<s, a>>}
  /\ req' = [req EXCEPT ![r] = Free]
  /\ UNCHANGED <<server, asked, crashes, overlapped>>

\* The connection is lost or the user gives up; the request goes on.
GiveUp(c) ==
  /\ cli[c].request # None
  /\ cli' = [cli EXCEPT ![c].request = None]
  /\ UNCHANGED <<req, server, asked, crashes, history>>

Crash ==
  /\ crashes < MaxCrashes /\ crashes' = crashes + 1
  /\ current' = None /\ holder' = None /\ dirty' = committed
  /\ req' = [r \in Requests |-> Free] /\ cli' = Released(Requests)
  /\ UNCHANGED <<committed, asked, history>>

-----------------------------------------------------------------------------
\* resolve_identity: an option, or the latest session of an earlier run; a session
\* that was named in an option need not exist.
Init ==
  /\ cli \in [Clients -> [session: SessionIds \union {None}, agent: {DefaultAgent}, request: {None}]]
  /\ req = [r \in Requests |-> Free] /\ asked = 0
  /\ current = None /\ holder = None
  /\ committed = [s \in {} |-> None] /\ dirty = committed
  /\ crashes = 0 /\ told = [s \in SessionIds |-> 0] /\ served = {} /\ overlapped = {}

Next ==
  \/ \E r \in Requests :
       \/ Open(r) \/ Opened(r) \/ InsertSession(r) \/ Commit(r)
       \/ ReadRow(r) \/ WriteRow(r) \/ Locked(r) \/ Answer(r)
  \/ \E c \in Clients :
       Switch(c) \/ Ask(c) \/ GiveUp(c)
  \/ Crash

Spec == Init /\ [][Next]_vars

-----------------------------------------------------------------------------
(* Properties *)

\* A turn a CLI was told of stays counted, whatever overlapped and crashed:
\* touch increments in SQL (sqlite.py:93) and commits before the route answers
\* (stream.py:135-147), and no commit writes an older row back.
TurnsAreCounted ==
  \A s \in SessionIds :
    told[s] > 0 => s \in DOMAIN committed /\ committed[s].turns >= told[s]

\* An agent that was given a turn of a session is among the session's agents,
\* unless its touch overlapped another touch of the session (sqlite.py:81-98).
AgentsLostOnlyToOverlap ==
  \A s \in SessionIds, a \in Agents :
    <<s, a>> \in served \ overlapped => s \in DOMAIN committed /\ a \in committed[s].used

\* The index tracks "which agents each session has used" (sqlite.py:54): an
\* agent that was given a turn is among them.
AgentsUsedComplete ==
  \A s \in SessionIds, a \in Agents : <<s, a>> \in served => a \in committed[s].used
=============================================================================
