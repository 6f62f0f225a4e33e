---------------------------- MODULE SessionsProofs ----------------------------
(***************************************************************************)
(* No turn of a session is lost, and an agent only to overlapping touches, *)
(* for any number of CLIs, sessions and requests.                          *)
(***************************************************************************)
EXTENDS Sessions, FiniteSetTheorems, TLAPS

Stages == {"free", "create", "open", "openTouch", "touch", "commit", "write",
           "commitTouch", "answer"}

\* A session, with its row or still without, is known to all stages but these
Unidentified == {"free", "create", "open"}

IsTable(rows) == DOMAIN rows \subseteq SessionIds /\ rows \in [DOMAIN rows -> Rows]

TypeOK ==
  /\ cli \in [Clients -> [session: SessionIds \union {None}, agent: Agents,
                          request: Requests \union {None}]]
  /\ req \in [Requests -> [pc: Stages, session: SessionIds \union {None},
                           agent: Agents \union {None},
                           connection: Requests \union {None},
                           record: Rows \union {None}]]
  /\ current \in Requests \union {None} /\ holder \in Requests \union {None}
  /\ IsTable(committed) /\ IsTable(dirty)
  /\ told \in [SessionIds -> Nat] /\ served \subseteq SessionIds \X Agents

\* What a request knows when it gets somewhere
RequestsOK ==
  \A r \in Requests :
    /\ req[r].pc # "free" => req[r].agent \in Agents
    /\ req[r].pc \notin Unidentified => req[r].session \in SessionIds
    /\ req[r].pc \in {"commit", "write", "commitTouch"} => req[r].connection # None

\* A request has at most one CLI that waits for it, and is at work then.
OneAsker ==
  \A c \in Clients : cli[c].request # None =>
    /\ req[cli[c].request].pc # "free"
    /\ \A d \in Clients : cli[d].request = cli[c].request => d = c

\* The rows with all that was written
Latest == IF holder = None THEN committed ELSE dirty

\* Nothing removes a row: what a transaction began with, and what a request
\* has read, is still there.
RowsStay ==
  /\ DOMAIN committed \subseteq DOMAIN Latest
  /\ \A r \in Requests : req[r].pc = "write" /\ req[r].record # None =>
       req[r].session \in DOMAIN View(req[r].connection)

\* The conjunction that is inductive, before anything is said of the counts
BaseInv == TypeOK /\ RequestsOK /\ OneAsker /\ RowsStay

-----------------------------------------------------------------------------
\* The requests whose turn is written, and those whose turn is committed
Counted(s) ==
  {r \in Requests : req[r].session = s /\ req[r].pc \in {"commitTouch", "answer"}}

Durable(s) ==
  {r \in Requests : /\ req[r].session = s
                    /\ \/ req[r].pc = "answer"
                       \/ req[r].pc = "commitTouch" /\ req[r].connection # holder}

Turns(rows, s) == IF s \in DOMAIN rows THEN rows[s].turns ELSE 0

\* Every turn that was told, or is yet to be told, is in the rows; and in
\* those on disk when its transaction has ended.
CountsOK ==
  \A s \in SessionIds :
    /\ Turns(Latest, s) >= told[s] + Cardinality(Counted(s))
    /\ Turns(committed, s) >= told[s] + Cardinality(Durable(s))

-----------------------------------------------------------------------------
\* The agent is in the row, on disk and in an open transaction, and whoever
\* is going to write the row has read it there.
Recorded(s, a) ==
  /\ s \in DOMAIN committed /\ a \in committed[s].used
  /\ s \in DOMAIN Latest /\ a \in Latest[s].used
  /\ \A o \in Requests : req[o].pc = "write" /\ req[o].session = s =>
       req[o].record # None /\ a \in req[o].record.used

\* Those inside touch for one session have overlapped.
TouchesMeet ==
  \A r, o \in Requests :
    /\ r # o /\ req[r].session = req[o].session
    /\ req[r].pc \in Touching /\ req[o].pc \in Touching
    => <<req[r].session, req[r].agent>> \in overlapped

\* An agent that was given a turn is recorded, from the commit of its touch on.
UsesOK ==
  \A s \in SessionIds, a \in Agents : <<s, a>> \notin overlapped =>
    /\ <<s, a>> \in served => Recorded(s, a)
    /\ \A r \in Requests : req[r].session = s /\ req[r].agent = a =>
         /\ req[r].pc = "answer" => Recorded(s, a)
         /\ req[r].pc = "commitTouch" =>
              /\ s \in DOMAIN Latest /\ a \in Latest[s].used
              /\ req[r].connection # holder =>
                   s \in DOMAIN committed /\ a \in committed[s].used

IInv == BaseInv /\ CountsOK /\ TouchesMeet /\ UsesOK

-----------------------------------------------------------------------------
(* The base *)

\* What a step of one request does to the requests
StepOf(r, new) == req' = [req EXCEPT ![r] = new]

LEMMA BaseInit == Init => BaseInv
<1> SUFFICES ASSUME Init PROVE BaseInv
  OBVIOUS
<1>1. TypeOK
  BY SessionsAssumption DEF Init, TypeOK, IsTable, Free, Request, Stages
<1>2. RequestsOK /\ OneAsker /\ RowsStay
  BY SessionsAssumption
     DEF Init, RequestsOK, OneAsker, RowsStay, Latest, Free, Request, Unidentified
<1> QED
  BY <1>1, <1>2 DEF BaseInv

\* The connection that may write sees all that was written.
LEMMA WriterSeesLatest ==
  ASSUME NEW k, MayWrite(k)
  PROVE  View(k) = Latest /\ k # None
  BY DEF MayWrite, View, Latest

\* A table with a row put in is a table, and keeps its other rows.
LEMMA PutRow ==
  ASSUME NEW rows, IsTable(rows), NEW s \in SessionIds, NEW row \in Rows
  PROVE  LET put == [t \in DOMAIN rows \union {s} |-> IF t = s THEN row ELSE rows[t]]
         IN  /\ IsTable(put)
             /\ DOMAIN put = DOMAIN rows \union {s}
             /\ put[s] = row
             /\ \A t \in DOMAIN rows : t # s => put[t] = rows[t]
  BY DEF IsTable

\* The steps of a request that leave the index alone
LEMMA BareStepKeeps ==
  ASSUME BaseInv, NEW r \in Requests,
         NEW new \in [pc: Stages, session: SessionIds \union {None},
                      agent: Agents \union {None}, connection: Requests \union {None},
                      record: Rows \union {None}],
         StepOf(r, new), current' \in Requests \union {None},
         UNCHANGED <<cli, holder, committed, dirty, told, served>>,
         req[r].pc # "free", new.pc # "free",
         new.session = req[r].session, new.agent = req[r].agent,
         new.pc \notin Unidentified => new.session \in SessionIds,
         new.pc \in {"commit", "write", "commitTouch"} => new.connection # None,
         new.pc = "write" /\ new.record # None => new.session \in DOMAIN View(new.connection)
  PROVE  BaseInv'
<1>1. \A o \in Requests : req'[o] = IF o = r THEN new ELSE req[o]
  BY DEF BaseInv, TypeOK, StepOf
<1>2. TypeOK'
  BY DEF BaseInv, TypeOK, StepOf, IsTable
<1>3. RequestsOK'
  BY <1>1 DEF BaseInv, RequestsOK
<1>4. OneAsker'
  BY <1>1 DEF BaseInv, TypeOK, OneAsker
<1>5. RowsStay'
  BY <1>1 DEF BaseInv, RowsStay, Latest, View
<1> QED
  BY <1>2, <1>3, <1>4, <1>5 DEF BaseInv

LEMMA OpenKeeps ==
  ASSUME BaseInv, NEW r \in Requests, Open(r) \/ Opened(r)
  PROVE  BaseInv'
<1>1. PICK pc \in {"open", "openTouch", "create", "touch"} :
        /\ Goto(r, pc)
        /\ req[r].pc \in {"create", "touch", "open", "openTouch"}
        /\ pc \in {"openTouch", "touch"} => req[r].pc \in {"touch", "openTouch"}
        /\ current' \in Requests \union {None}
        /\ UNCHANGED <<cli, holder, committed, dirty, told, served>>
  BY DEF Open, Opened, server, history, BaseInv, TypeOK
<1> DEFINE new == [req[r] EXCEPT !.pc = pc]
<1>2. /\ new \in [pc: Stages, session: SessionIds \union {None},
                  agent: Agents \union {None}, connection: Requests \union {None},
                  record: Rows \union {None}]
      /\ new.pc = pc /\ new.session = req[r].session /\ new.agent = req[r].agent
  BY <1>1 DEF BaseInv, TypeOK, Stages
<1>3. StepOf(r, new)
  BY <1>1 DEF Goto, StepOf
<1>4. pc \notin Unidentified => req[r].session \in SessionIds
  BY <1>1 DEF BaseInv, RequestsOK, Unidentified
<1> HIDE DEF new
<1> QED
  BY <1>1, <1>2, <1>3, <1>4, BareStepKeeps

LEMMA ReadRowKeeps ==
  ASSUME BaseInv, NEW r \in Requests, ReadRow(r)
  PROVE  BaseInv'
<1> DEFINE s == req[r].session
           found == IF s \in DOMAIN View(current) THEN View(current)[s] ELSE None
           new == [req[r] EXCEPT !.record = found, !.connection = current, !.pc = "write"]
<1>1. /\ StepOf(r, new) /\ req[r].pc = "touch" /\ current # None
      /\ UNCHANGED <<cli, current, holder, committed, dirty, told, served>>
  BY DEF ReadRow, StepOf, server
<1>2. found \in Rows \union {None} /\ s \in SessionIds
  BY <1>1 DEF BaseInv, TypeOK, IsTable, View, RequestsOK, Unidentified
<1>3. /\ new \in [pc: Stages, session: SessionIds \union {None},
                  agent: Agents \union {None}, connection: Requests \union {None},
                  record: Rows \union {None}]
      /\ new.pc = "write" /\ new.session = s /\ new.agent = req[r].agent
      /\ new.connection = current /\ new.record = found
  BY <1>2 DEF BaseInv, TypeOK, Stages
<1>4. found # None => s \in DOMAIN View(current)
  OBVIOUS
<1>5. current' \in Requests \union {None}
  BY <1>1 DEF BaseInv, TypeOK
<1> HIDE DEF new, found
<1> QED
  BY <1>1, <1>2, <1>3, <1>4, <1>5, BareStepKeeps DEF View

\* A request ends: the CLI that waited for it waits no longer.
LEMMA EndKeeps ==
  ASSUME BaseInv, NEW r \in Requests, req' = [req EXCEPT ![r] = Free],
         cli' \in [Clients -> [session: SessionIds \union {None}, agent: Agents,
                               request: Requests \union {None}]],
         \A c \in Clients : cli'[c].request =
           IF cli[c].request = r THEN None ELSE cli[c].request
  PROVE  /\ req' \in [Requests -> [pc: Stages, session: SessionIds \union {None},
                           agent: Agents \union {None},
                           connection: Requests \union {None},
                           record: Rows \union {None}]]
         /\ RequestsOK' /\ OneAsker'
<1>1. Free \in [pc: Stages, session: SessionIds \union {None},
                agent: Agents \union {None}, connection: Requests \union {None},
                record: Rows \union {None}]
  BY DEF Free, Request, Stages
<1>2. \A o \in Requests : req'[o] = IF o = r THEN Free ELSE req[o]
  BY DEF BaseInv, TypeOK
<1>3. RequestsOK'
  BY <1>2 DEF BaseInv, RequestsOK, Free, Request, Unidentified
<1>4. OneAsker'
  BY <1>2 DEF BaseInv, TypeOK, OneAsker
<1> QED
  BY <1>1, <1>3, <1>4 DEF BaseInv, TypeOK

LEMMA ReleasedType ==
  ASSUME BaseInv, NEW ended \in SUBSET Requests
  PROVE  /\ Released(ended) \in [Clients -> [session: SessionIds \union {None},
                                   agent: Agents, request: Requests \union {None}]]
         /\ \A c \in Clients : Released(ended)[c].request =
              IF cli[c].request \in ended THEN None ELSE cli[c].request
  BY DEF BaseInv, TypeOK, Released

\* As long as no connection's view loses a row, the requests still find the
\* rows they have read.
LEMMA ReadRowsStay ==
  ASSUME BaseInv, DOMAIN committed' \subseteq DOMAIN Latest',
         \A o \in Requests : req'[o] = req[o] \/ req'[o].pc # "write",
         \A k : k # None => DOMAIN View(k) \subseteq DOMAIN View(k)'
  PROVE  RowsStay'
<1> SUFFICES ASSUME NEW o \in Requests, req'[o].pc = "write", req'[o].record # None
             PROVE  req'[o].session \in DOMAIN (IF holder' = req'[o].connection
                                                THEN dirty' ELSE committed')
  BY DEF RowsStay, View
<1> DEFINE k == req[o].connection
<1>1. /\ req'[o] = req[o] /\ k # None
      /\ req[o].session \in DOMAIN View(k)
  BY DEF BaseInv, RequestsOK, RowsStay
<1>2. DOMAIN View(k) \subseteq DOMAIN (IF holder' = k THEN dirty' ELSE committed')
  <2>1. \A j : j # None =>
          DOMAIN View(j) \subseteq DOMAIN (IF holder' = j THEN dirty' ELSE committed')
    BY DEF View
  <2> QED
    BY <1>1, <2>1
<1> QED
  BY <1>1, <1>2

LEMMA InsertSessionKeeps ==
  ASSUME BaseInv, NEW r \in Requests, InsertSession(r)
  PROVE  BaseInv'
<1>1. PICK s \in SessionIds \ DOMAIN View(current) :
        /\ dirty' = [t \in DOMAIN View(current) \union {s} |->
                       IF t = s THEN Row(0, None, {}) ELSE View(current)[t]]
        /\ req' = [req EXCEPT ![r].session = s, ![r].connection = current, ![r].pc = "commit"]
  BY DEF InsertSession
<1>2. /\ req[r].pc = "create" /\ MayWrite(current) /\ holder' = current
      /\ UNCHANGED <<cli, current, committed, told, served>>
  BY DEF InsertSession, history
<1>3. View(current) = Latest /\ current # None /\ current \in Requests
  BY <1>2, WriterSeesLatest DEF BaseInv, TypeOK
<1>4. Row(0, None, {}) \in Rows /\ IsTable(Latest)
  BY DEF Row, Rows, BaseInv, TypeOK, Latest
<1>5. IsTable(dirty') /\ DOMAIN dirty' = DOMAIN Latest \union {s}
  BY <1>1, <1>3, <1>4, PutRow
<1> DEFINE new == [req[r] EXCEPT !.session = s, !.connection = current, !.pc = "commit"]
<1>6. /\ new \in [pc: Stages, session: SessionIds \union {None},
                  agent: Agents \union {None}, connection: Requests \union {None},
                  record: Rows \union {None}]
      /\ new.pc = "commit" /\ new.session = s /\ new.agent = req[r].agent
      /\ new.connection = current
  BY <1>3 DEF BaseInv, TypeOK, Stages
<1>7. \A o \in Requests : req'[o] = IF o = r THEN new ELSE req[o]
  BY <1>1, <1>3 DEF BaseInv, TypeOK
<1>8. req' = [req EXCEPT ![r] = new]
  BY <1>1 DEF BaseInv, TypeOK
<1> HIDE DEF new
<1>9. TypeOK'
  BY <1>2, <1>3, <1>5, <1>6, <1>8 DEF BaseInv, TypeOK, IsTable
<1>10. RequestsOK' /\ OneAsker'
  BY <1>2, <1>3, <1>6, <1>7 DEF BaseInv, TypeOK, RequestsOK, OneAsker, Unidentified
<1>11. DOMAIN committed' \subseteq DOMAIN Latest'
  BY <1>2, <1>3, <1>5 DEF BaseInv, RowsStay, Latest
<1>12. \A k : k # None => DOMAIN View(k) \subseteq DOMAIN View(k)'
  BY <1>2, <1>3, <1>5 DEF BaseInv, RowsStay, View, Latest
<1>13. RowsStay'
  BY <1>6, <1>7, <1>11, <1>12, ReadRowsStay
<1> QED
  BY <1>9, <1>10, <1>13 DEF BaseInv

LEMMA CommitKeeps ==
  ASSUME BaseInv, NEW r \in Requests, Commit(r)
  PROVE  BaseInv'
<1> DEFINE pc == IF req[r].pc = "commit" THEN "touch" ELSE "answer"
           new == [req[r] EXCEPT !.pc = pc]
<1>1. /\ req[r].pc \in {"commit", "commitTouch"} /\ CommitHeld(r) /\ Goto(r, pc)
      /\ UNCHANGED <<cli, current, dirty, told, served>>
  BY DEF Commit, history
<1>2. \/ /\ committed' = dirty /\ holder' = None
         /\ holder = req[r].connection /\ holder # None
      \/ UNCHANGED <<committed, holder>>
  BY <1>1 DEF CommitHeld, BaseInv, RequestsOK
<1>3. \A o \in Requests : req'[o] = IF o = r THEN new ELSE req[o]
  BY <1>1 DEF BaseInv, TypeOK, Goto
<1>4. req' = [req EXCEPT ![r] = new]
  BY <1>1 DEF BaseInv, TypeOK, Goto
<1>5. /\ new \in [pc: Stages, session: SessionIds \union {None},
                  agent: Agents \union {None}, connection: Requests \union {None},
                  record: Rows \union {None}]
      /\ new.pc \in {"touch", "answer"} /\ new.session = req[r].session
      /\ new.agent = req[r].agent
  BY DEF BaseInv, TypeOK, Stages
<1> HIDE DEF new, pc
<1>6. TypeOK'
  BY <1>1, <1>2, <1>4, <1>5 DEF BaseInv, TypeOK, IsTable
<1>7. RequestsOK' /\ OneAsker'
  BY <1>1, <1>3, <1>5 DEF BaseInv, TypeOK, RequestsOK, OneAsker, Unidentified
<1>8. DOMAIN committed \subseteq DOMAIN Latest
  BY DEF BaseInv, RowsStay
<1>9. \A k : k # None => DOMAIN View(k) \subseteq DOMAIN View(k)'
  BY <1>1, <1>2, <1>8 DEF View, Latest
<1>10. DOMAIN committed' \subseteq DOMAIN Latest'
  BY <1>1, <1>2, <1>8 DEF Latest
<1>11. RowsStay'
  BY <1>3, <1>5, <1>9, <1>10, ReadRowsStay
<1> QED
  BY <1>6, <1>7, <1>11 DEF BaseInv

\* What a touch that succeeds does: the row is put into all that was written.
Touches(r) ==
  LET s == req[r].session
      row == IF s \in DOMAIN Latest THEN Latest[s] ELSE None
      touched == TouchedRow(row, req[r].record, req[r].agent)
  IN  /\ req[r].record = None => s \notin DOMAIN Latest
      /\ dirty' = [t \in DOMAIN Latest \union {s} |-> IF t = s THEN touched ELSE Latest[t]]
      /\ req' = [req EXCEPT ![r].pc = "commitTouch"]
      /\ cli' = cli

\* What one that fails does
TouchFails(r) ==
  /\ req[r].record = None /\ req[r].session \in DOMAIN Latest
  /\ dirty' = Latest
  /\ Fail(r)

LEMMA WriteRowCases ==
  ASSUME BaseInv, NEW r \in Requests, WriteRow(r)
  PROVE  /\ req[r].pc = "write" /\ req[r].session \in SessionIds /\ req[r].agent \in Agents
         /\ req[r].connection \in Requests /\ req[r].connection # None
         /\ MayWrite(req[r].connection) /\ View(req[r].connection) = Latest
         /\ holder' = req[r].connection
         /\ UNCHANGED <<current, committed, asked, crashes, history>>
         /\ Touches(r) \/ TouchFails(r)
<1>1. /\ req[r].pc = "write" /\ MayWrite(req[r].connection)
      /\ holder' = req[r].connection
      /\ UNCHANGED <<current, committed, asked, crashes, history>>
  BY DEF WriteRow
<1>2. /\ View(req[r].connection) = Latest /\ req[r].connection # None
      /\ req[r].connection \in Requests
  BY <1>1, WriterSeesLatest DEF BaseInv, TypeOK
<1>3. req[r].session \in SessionIds /\ req[r].agent \in Agents
  BY <1>1 DEF BaseInv, RequestsOK, Unidentified
<1> DEFINE s == req[r].session
           row == IF s \in DOMAIN Latest THEN Latest[s] ELSE None
<1>4. row # None <=> s \in DOMAIN Latest
  BY RowsAssumption DEF BaseInv, TypeOK, IsTable, Latest
<1>5. ASSUME req[r].record = None /\ row # None PROVE TouchFails(r)
  BY <1>2, <1>4, <1>5 DEF WriteRow, TouchFails
<1>6. ASSUME ~(req[r].record = None /\ row # None) PROVE Touches(r)
  BY <1>2, <1>4, <1>6 DEF WriteRow, Touches, Goto
<1> QED
  BY <1>1, <1>2, <1>3, <1>5, <1>6

\* A touched row is a row, with one more turn and what its request has read
\* and been. (touch)
LEMMA TouchedRowType ==
  ASSUME BaseInv, NEW r \in Requests, WriteRow(r), Touches(r)
  PROVE  LET s == req[r].session
             row == IF s \in DOMAIN Latest THEN Latest[s] ELSE None
             touched == TouchedRow(row, req[r].record, req[r].agent)
         IN  /\ touched \in Rows
             /\ touched.turns = Turns(Latest, s) + 1
             /\ req[r].agent \in touched.used
             /\ req[r].record # None => req[r].record.used \subseteq touched.used
<1> DEFINE s == req[r].session
           row == IF s \in DOMAIN Latest THEN Latest[s] ELSE None
           touched == TouchedRow(row, req[r].record, req[r].agent)
<1>1. req[r].agent \in Agents
  BY WriteRowCases
<1>2. CASE req[r].record = None
  BY <1>1, <1>2 DEF Touches, TouchedRow, Row, Rows, Turns
<1>3. CASE req[r].record # None
  <2>1. req[r].record \in Rows /\ s \in DOMAIN View(req[r].connection)
    BY <1>3, WriteRowCases DEF BaseInv, TypeOK, RowsStay
  <2>2. s \in DOMAIN Latest /\ Latest[s] \in Rows
    BY <2>1, WriteRowCases DEF BaseInv, TypeOK, IsTable, Latest
  <2> QED
    BY <1>1, <1>3, <2>1, <2>2 DEF TouchedRow, Row, Rows, Turns
<1> QED
  BY <1>2, <1>3

LEMMA WriteRowKeeps ==
  ASSUME BaseInv, NEW r \in Requests, WriteRow(r)
  PROVE  BaseInv'
<1> DEFINE s == req[r].session
           k == req[r].connection
<1>1. /\ req[r].pc = "write" /\ s \in SessionIds /\ req[r].agent \in Agents
      /\ k \in Requests /\ k # None /\ holder \in {None, k} /\ holder' = k
      /\ UNCHANGED <<current, committed, told, served>>
  BY WriteRowCases DEF MayWrite, history
<1>2. IsTable(Latest) /\ DOMAIN committed \subseteq DOMAIN Latest
  BY DEF BaseInv, TypeOK, RowsStay, Latest
<1>3. CASE Touches(r)
  <2> DEFINE row == IF s \in DOMAIN Latest THEN Latest[s] ELSE None
             touched == TouchedRow(row, req[r].record, req[r].agent)
             new == [req[r] EXCEPT !.pc = "commitTouch"]
  <2>1. touched \in Rows
    BY <1>3, TouchedRowType
  <2>2. dirty' = [t \in DOMAIN Latest \union {s} |-> IF t = s THEN touched ELSE Latest[t]]
    BY <1>3 DEF Touches
  <2> HIDE DEF touched
  <2>3. IsTable(dirty') /\ DOMAIN dirty' = DOMAIN Latest \union {s}
    BY <1>1, <1>2, <2>1, <2>2, PutRow
  <2>4. /\ new \in [pc: Stages, session: SessionIds \union {None},
                    agent: Agents \union {None}, connection: Requests \union {None},
                    record: Rows \union {None}]
        /\ new.pc = "commitTouch" /\ new.session = s /\ new.agent = req[r].agent
        /\ new.connection = k
    BY DEF BaseInv, TypeOK, Stages
  <2>5. req' = [req EXCEPT ![r] = new] /\ cli' = cli
    BY <1>3 DEF BaseInv, TypeOK, Touches
  <2> HIDE DEF new
  <2>6. \A o \in Requests : req'[o] = IF o = r THEN new ELSE req[o]
    BY <2>5 DEF BaseInv, TypeOK
  <2>7. TypeOK'
    BY <1>1, <2>3, <2>4, <2>5 DEF BaseInv, TypeOK, IsTable
  <2>8. RequestsOK' /\ OneAsker'
    BY <1>1, <2>4, <2>5, <2>6 DEF BaseInv, TypeOK, RequestsOK, OneAsker, Unidentified
  <2>9. /\ \A j : j # None => DOMAIN View(j) \subseteq DOMAIN View(j)'
        /\ DOMAIN committed' \subseteq DOMAIN Latest'
    BY <1>1, <1>2, <2>3 DEF View, Latest
  <2>10. RowsStay'
    BY <2>4, <2>6, <2>9, ReadRowsStay
  <2> QED
    BY <2>7, <2>8, <2>10 DEF BaseInv
<1>4. CASE TouchFails(r)
  <2>1. dirty' = Latest /\ req' = [req EXCEPT ![r] = Free] /\ cli' = Released({r})
    BY <1>4 DEF TouchFails, Fail
  <2>2. /\ req' \in [Requests -> [pc: Stages, session: SessionIds \union {None},
                         agent: Agents \union {None}, connection: Requests \union {None},
                         record: Rows \union {None}]]
        /\ RequestsOK' /\ OneAsker'
        /\ cli' \in [Clients -> [session: SessionIds \union {None}, agent: Agents,
                               request: Requests \union {None}]]
    <3>1. /\ cli' \in [Clients -> [session: SessionIds \union {None}, agent: Agents,
                                 request: Requests \union {None}]]
          /\ \A c \in Clients : cli'[c].request =
               IF cli[c].request = r THEN None ELSE cli[c].request
      BY <2>1, ReleasedType
    <3> QED
      BY <2>1, <3>1, EndKeeps
  <2>3. TypeOK'
    BY <1>1, <1>2, <2>1, <2>2 DEF BaseInv, TypeOK, IsTable
  <2>4. /\ \A j : j # None => DOMAIN View(j) \subseteq DOMAIN View(j)'
        /\ DOMAIN committed' \subseteq DOMAIN Latest'
    BY <1>1, <1>2, <2>1 DEF View, Latest
  <2>5. \A o \in Requests : req'[o] = req[o] \/ req'[o].pc # "write"
    BY <2>1 DEF BaseInv, TypeOK, Free, Request
  <2> QED
    BY <2>2, <2>3, <2>4, <2>5, ReadRowsStay DEF BaseInv
<1> QED
  BY <1>3, <1>4, WriteRowCases

LEMMA LockedKeeps ==
  ASSUME BaseInv, NEW r \in Requests, Locked(r)
  PROVE  BaseInv'
<1>1. /\ req' = [req EXCEPT ![r] = Free] /\ cli' = Released({r})
      /\ UNCHANGED <<current, holder, committed, dirty, told, served>>
  BY DEF Locked, Fail, server, history
<1>2. /\ req' \in [Requests -> [pc: Stages, session: SessionIds \union {None},
                       agent: Agents \union {None}, connection: Requests \union {None},
                       record: Rows \union {None}]]
      /\ RequestsOK' /\ OneAsker'
      /\ cli' \in [Clients -> [session: SessionIds \union {None}, agent: Agents,
                               request: Requests \union {None}]]
  <2>1. /\ cli' \in [Clients -> [session: SessionIds \union {None}, agent: Agents,
                               request: Requests \union {None}]]
        /\ \A c \in Clients : cli'[c].request =
             IF cli[c].request = r THEN None ELSE cli[c].request
    BY <1>1, ReleasedType
  <2> QED
    BY <1>1, <2>1, EndKeeps
<1>3. TypeOK'
  BY <1>1, <1>2 DEF BaseInv, TypeOK, IsTable
<1>4. \A o \in Requests : req'[o] = req[o] \/ req'[o].pc # "write"
  BY <1>1 DEF BaseInv, TypeOK, Free, Request
<1>5. RowsStay'
  BY <1>1, <1>4, ReadRowsStay DEF BaseInv, RowsStay, View, Latest
<1> QED
  BY <1>2, <1>3, <1>5 DEF BaseInv

LEMMA AnswerKeeps ==
  ASSUME BaseInv, NEW r \in Requests, Answer(r)
  PROVE  /\ BaseInv'
         /\ told'[req[r].session] \in told[req[r].session] .. told[req[r].session] + 1
         /\ \A s \in SessionIds : s # req[r].session => told'[s] = told[s]
<1> DEFINE s == req[r].session
           a == req[r].agent
           waiting == {c \in Clients : cli[c].request = r}
<1>1. /\ req[r].pc = "answer" /\ req' = [req EXCEPT ![r] = Free]
      /\ cli' = [c \in Clients |-> IF c \in waiting
                                   THEN [session |-> s, agent |-> a, request |-> None]
                                   ELSE cli[c]]
      /\ told' = [told EXCEPT ![s] = @ + Cardinality(waiting)]
      /\ served' = IF waiting = {} THEN served ELSE served \union {<<s, a>>}
      /\ UNCHANGED <<current, holder, committed, dirty>>
  BY DEF Answer, server
<1>2. s \in SessionIds /\ a \in Agents
  BY <1>1 DEF BaseInv, RequestsOK, Unidentified
<1>3. Cardinality(waiting) \in 0 .. 1
  <2>1. \A c, d \in waiting : c = d
    BY SessionsAssumption DEF BaseInv, OneAsker
  <2>2. waiting = {} \/ \E c \in waiting : waiting = {c}
    <3> HIDE DEF waiting
    <3> QED
      BY <2>1
  <2>3. ASSUME waiting = {} PROVE Cardinality(waiting) = 0
    BY <2>3, FS_EmptySet
  <2>4. ASSUME NEW c \in waiting, waiting = {c} PROVE Cardinality(waiting) = 1
    BY <2>4, FS_Singleton
  <2> HIDE DEF waiting
  <2> QED
    BY <2>2, <2>3, <2>4
<1>4. /\ cli' \in [Clients -> [session: SessionIds \union {None}, agent: Agents,
                               request: Requests \union {None}]]
      /\ \A c \in Clients : cli'[c].request = IF cli[c].request = r THEN None ELSE cli[c].request
  BY <1>1, <1>2 DEF BaseInv, TypeOK
<1>5. /\ req' \in [Requests -> [pc: Stages, session: SessionIds \union {None},
                       agent: Agents \union {None}, connection: Requests \union {None},
                       record: Rows \union {None}]]
      /\ RequestsOK' /\ OneAsker'
  BY <1>1, <1>4, EndKeeps
<1> HIDE DEF waiting
<1>6. /\ told' \in [SessionIds -> Nat]
      /\ told'[s] \in told[s] .. told[s] + 1
      /\ \A t \in SessionIds : t # s => told'[t] = told[t]
  BY <1>1, <1>2, <1>3 DEF BaseInv, TypeOK
<1>7. TypeOK'
  BY <1>1, <1>2, <1>4, <1>5, <1>6 DEF BaseInv, TypeOK, IsTable
<1>8. \A o \in Requests : req'[o] = req[o] \/ req'[o].pc # "write"
  BY <1>1 DEF BaseInv, TypeOK, Free, Request
<1>9. RowsStay'
  BY <1>1, <1>8, ReadRowsStay DEF BaseInv, RowsStay, View, Latest
<1> QED
  BY <1>5, <1>6, <1>7, <1>9 DEF BaseInv

LEMMA AskKeeps ==
  ASSUME BaseInv, NEW c \in Clients, Ask(c)
  PROVE  /\ BaseInv'
         /\ \E r \in Requests : \E new : req[r] = Free /\ req' = [req EXCEPT ![r] = new]
                                         /\ new.pc \in {"create", "touch"}
<1>1. PICK r \in Requests :
        /\ req[r] = Free
        /\ req' = [req EXCEPT ![r] = Request(IF cli[c].session = None THEN "create" ELSE "touch",
                                             cli[c].session, cli[c].agent)]
        /\ cli' = [cli EXCEPT ![c].request = r]
  BY DEF Ask
<1>2. cli[c].request = None /\ UNCHANGED <<current, holder, committed, dirty, told, served>>
  BY DEF Ask, server, history
<1> DEFINE new == Request(IF cli[c].session = None THEN "create" ELSE "touch",
                          cli[c].session, cli[c].agent)
<1>3. /\ new \in [pc: Stages, session: SessionIds \union {None},
                  agent: Agents \union {None}, connection: Requests \union {None},
                  record: Rows \union {None}]
      /\ new.pc \in {"create", "touch"} /\ new.agent \in Agents
      /\ new.pc = "touch" => new.session \in SessionIds
  BY DEF BaseInv, TypeOK, Stages, Request
<1>4. req' = [req EXCEPT ![r] = new]
  BY <1>1
<1> HIDE DEF new
<1>5. TypeOK'
  BY <1>1, <1>2, <1>3, <1>4 DEF BaseInv, TypeOK, IsTable
<1>6. RequestsOK'
  BY <1>3, <1>4 DEF BaseInv, TypeOK, RequestsOK, Unidentified
<1>7. \A d \in Clients : cli'[d].request = IF d = c THEN r ELSE cli[d].request
  BY <1>1 DEF BaseInv, TypeOK
<1>8. /\ \A d \in Clients : cli[d].request # r
      /\ \A o \in Requests : o # r => req'[o] = req[o]
      /\ req'[r].pc # "free" /\ r # None
  BY <1>1, <1>3, <1>4, SessionsAssumption DEF BaseInv, TypeOK, OneAsker, Free, Request
<1>9. OneAsker'
  BY <1>7, <1>8 DEF BaseInv, TypeOK, OneAsker
<1>10. \A o \in Requests : req'[o] = req[o] \/ req'[o].pc # "write"
  BY <1>3, <1>4 DEF BaseInv, TypeOK
<1>11. RowsStay'
  BY <1>2, <1>10, ReadRowsStay DEF BaseInv, RowsStay, View, Latest
<1>12. BaseInv'
  BY <1>5, <1>6, <1>9, <1>11 DEF BaseInv
<1> QED
  BY <1>1, <1>3, <1>4, <1>12

LEMMA CliKeeps ==
  ASSUME BaseInv, NEW c \in Clients, Switch(c) \/ GiveUp(c)
  PROVE  BaseInv' /\ UNCHANGED <<req, current, holder, committed, dirty, told, served, overlapped>>
<1>1. UNCHANGED <<req, current, holder, committed, dirty, told, served, overlapped>>
  BY DEF Switch, GiveUp, server, history
<1>2. /\ cli' \in [Clients -> [session: SessionIds \union {None}, agent: Agents,
                               request: Requests \union {None}]]
      /\ \A d \in Clients : cli'[d].request \in {None, cli[d].request}
  BY DEF Switch, GiveUp, BaseInv, TypeOK
<1>3. TypeOK'
  BY <1>1, <1>2 DEF BaseInv, TypeOK, IsTable
<1>4. RequestsOK' /\ OneAsker' /\ RowsStay'
  BY <1>1, <1>2 DEF BaseInv, RequestsOK, OneAsker, RowsStay, View, Latest
<1> QED
  BY <1>1, <1>3, <1>4 DEF BaseInv

LEMMA CrashKeeps ==
  ASSUME BaseInv, Crash
  PROVE  BaseInv'
<1>1. /\ current' = None /\ holder' = None /\ dirty' = committed
      /\ req' = [r \in Requests |-> Free] /\ cli' = Released(Requests)
      /\ UNCHANGED <<committed, told, served>>
  BY DEF Crash, history
<1>2. /\ cli' \in [Clients -> [session: SessionIds \union {None}, agent: Agents,
                               request: Requests \union {None}]]
      /\ \A c \in Clients : cli'[c].request =
           IF cli[c].request \in Requests THEN None ELSE cli[c].request
  BY <1>1, ReleasedType
<1>3. TypeOK'
  BY <1>1, <1>2 DEF BaseInv, TypeOK, IsTable, Free, Request, Stages
<1>4. RequestsOK' /\ OneAsker'
  BY <1>1, <1>2 DEF BaseInv, TypeOK, RequestsOK, OneAsker, Free, Request, Unidentified
<1>5. RowsStay'
  BY <1>1 DEF BaseInv, RowsStay, Latest, Free, Request
<1> QED
  BY <1>3, <1>4, <1>5 DEF BaseInv

LEMMA BaseNext == BaseInv /\ [Next]_vars => BaseInv'
<1> SUFFICES ASSUME BaseInv, [Next]_vars PROVE BaseInv'
  OBVIOUS
<1>1. CASE UNCHANGED vars
  BY <1>1 DEF vars, server, history, BaseInv, TypeOK, IsTable, RequestsOK, OneAsker,
              RowsStay, View, Latest
<1> QED
  BY <1>1, OpenKeeps, InsertSessionKeeps, CommitKeeps, ReadRowKeeps, WriteRowKeeps,
     LockedKeeps, AnswerKeeps, AskKeeps, CliKeeps, CrashKeeps DEF Next

-----------------------------------------------------------------------------
(* The turns *)

\* Requests are finite, so what is counted is a number.
LEMMA CountsType ==
  ASSUME NEW S \in SUBSET Requests, NEW T \in SUBSET Requests, S \subseteq T
  PROVE  /\ Cardinality(S) \in Nat /\ Cardinality(T) \in Nat
         /\ Cardinality(S) <= Cardinality(T)
  BY SessionsAssumption, FS_Subset, FS_CardinalityType

\* Steps after which no row has fewer turns, and no more requests have written
\* or committed theirs.
LEMMA NoMoreCounted ==
  ASSUME BaseInv, BaseInv', CountsOK, told' = told, NEW s \in SessionIds,
         Turns(Latest, s)' >= Turns(Latest, s),
         Turns(committed, s)' >= Turns(committed, s),
         Counted(s)' \subseteq Counted(s), Durable(s)' \subseteq Durable(s)
  PROVE  /\ Turns(Latest, s)' >= told'[s] + Cardinality(Counted(s)')
         /\ Turns(committed, s)' >= told'[s] + Cardinality(Durable(s)')
<1>1. /\ Counted(s) \in SUBSET Requests /\ Durable(s) \in SUBSET Requests
      /\ Counted(s)' \in SUBSET Requests /\ Durable(s)' \in SUBSET Requests
  BY DEF Counted, Durable
<1>2. /\ Cardinality(Counted(s)') <= Cardinality(Counted(s))
      /\ Cardinality(Durable(s)') <= Cardinality(Durable(s))
      /\ Cardinality(Counted(s)) \in Nat /\ Cardinality(Durable(s)) \in Nat
      /\ Cardinality(Counted(s)') \in Nat /\ Cardinality(Durable(s)') \in Nat
  BY <1>1, CountsType
<1>3. told[s] \in Nat
  BY DEF BaseInv, TypeOK
<1>4. /\ Turns(Latest, s) \in Nat /\ Turns(Latest, s)' \in Nat
      /\ Turns(committed, s) \in Nat /\ Turns(committed, s)' \in Nat
  BY DEF Turns, BaseInv, TypeOK, IsTable, Rows, Latest
<1>5. /\ Turns(Latest, s) >= told[s] + Cardinality(Counted(s))
      /\ Turns(committed, s) >= told[s] + Cardinality(Durable(s))
  BY DEF CountsOK
<1> QED
  BY <1>2, <1>3, <1>4, <1>5

\* Steps that touch no row, and none of the requests that have written one
LEMMA QuietCounts ==
  ASSUME BaseInv, BaseInv', CountsOK, UNCHANGED <<holder, committed, dirty, told>>,
         \A o \in Requests : \/ req'[o] = req[o]
                             \/ req'[o].pc \notin {"commitTouch", "answer"}
  PROVE  CountsOK'
<1> SUFFICES ASSUME NEW s \in SessionIds
             PROVE  /\ Turns(Latest, s)' >= told'[s] + Cardinality(Counted(s)')
                    /\ Turns(committed, s)' >= told'[s] + Cardinality(Durable(s)')
  BY DEF CountsOK
<1>1. Counted(s)' \subseteq Counted(s) /\ Durable(s)' \subseteq Durable(s)
  BY DEF Counted, Durable
<1>2. Turns(Latest, s)' = Turns(Latest, s) /\ Turns(committed, s)' = Turns(committed, s)
  BY DEF Turns, Latest
<1>3. Turns(Latest, s) \in Nat /\ Turns(committed, s) \in Nat
  BY DEF Turns, BaseInv, TypeOK, IsTable, Rows, Latest
<1> QED
  BY <1>1, <1>2, <1>3, NoMoreCounted

LEMMA InsertSessionCounts ==
  ASSUME BaseInv, BaseInv', CountsOK, NEW r \in Requests, InsertSession(r)
  PROVE  CountsOK'
<1>1. PICK n \in SessionIds \ DOMAIN View(current) :
        /\ dirty' = [t \in DOMAIN View(current) \union {n} |->
                       IF t = n THEN Row(0, None, {}) ELSE View(current)[t]]
        /\ req' = [req EXCEPT ![r].session = n, ![r].connection = current, ![r].pc = "commit"]
  BY DEF InsertSession
<1>2. /\ MayWrite(current) /\ holder' = current /\ UNCHANGED <<committed, told>>
  BY DEF InsertSession, history
<1>3. View(current) = Latest /\ current # None /\ Latest' = dirty' /\ holder \in {None, current}
  BY <1>2, WriterSeesLatest DEF Latest, MayWrite
<1> SUFFICES ASSUME NEW s \in SessionIds
             PROVE  /\ Turns(Latest, s)' >= told'[s] + Cardinality(Counted(s)')
                    /\ Turns(committed, s)' >= told'[s] + Cardinality(Durable(s)')
  BY DEF CountsOK
<1>4. \A o \in Requests : o # r => req'[o] = req[o]
  BY <1>1 DEF BaseInv, TypeOK
<1>5. req'[r].pc = "commit"
  BY <1>1 DEF BaseInv, TypeOK
<1>6. \A o \in Requests : req[o].pc = "commitTouch" => req[o].connection # None
  BY DEF BaseInv, RequestsOK
<1>7. Counted(s)' \subseteq Counted(s) /\ Durable(s)' \subseteq Durable(s)
  BY <1>2, <1>3, <1>4, <1>5, <1>6 DEF Counted, Durable
<1>8. Row(0, None, {}).turns = 0
  BY DEF Row
<1>9. Turns(dirty', s) = Turns(Latest, s)
  BY <1>1, <1>3, <1>8 DEF Turns
<1>10. Turns(Latest, s)' = Turns(dirty', s) /\ Turns(committed, s)' = Turns(committed, s)
  BY <1>2, <1>3 DEF Turns
<1>11. Turns(Latest, s) \in Nat /\ Turns(committed, s) \in Nat
  BY DEF Turns, BaseInv, TypeOK, IsTable, Rows, Latest
<1> QED
  BY <1>2, <1>7, <1>9, <1>10, <1>11, NoMoreCounted

\* A commit of the open transaction makes all that was written durable.
LEMMA CommitCounts ==
  ASSUME BaseInv, BaseInv', CountsOK, NEW r \in Requests, Commit(r)
  PROVE  CountsOK'
<1>1. /\ req[r].pc \in {"commit", "commitTouch"} /\ CommitHeld(r)
      /\ req' = [req EXCEPT ![r].pc = IF @ = "commit" THEN "touch" ELSE "answer"]
      /\ UNCHANGED <<dirty, told>>
  BY DEF Commit, Goto, history, BaseInv, TypeOK
<1>2. /\ \A o \in Requests : o # r => req'[o] = req[o]
      /\ req'[r].pc = IF req[r].pc = "commit" THEN "touch" ELSE "answer"
      /\ req'[r].session = req[r].session /\ req'[r].connection = req[r].connection
  BY <1>1 DEF BaseInv, TypeOK
<1> SUFFICES ASSUME NEW s \in SessionIds
             PROVE  /\ Turns(Latest, s)' >= told'[s] + Cardinality(Counted(s)')
                    /\ Turns(committed, s)' >= told'[s] + Cardinality(Durable(s)')
  BY DEF CountsOK
<1>3. Counted(s)' \subseteq Counted(s)
  BY <1>1, <1>2 DEF Counted
<1>4. Turns(Latest, s) \in Nat /\ Turns(committed, s) \in Nat
  BY DEF Turns, BaseInv, TypeOK, IsTable, Rows, Latest
<1>5. CASE holder = req[r].connection
  <2>1. committed' = dirty /\ holder' = None /\ Latest = dirty /\ Latest' = dirty
    BY <1>1, <1>5 DEF CommitHeld, Latest, BaseInv, RequestsOK
  <2>2. Turns(Latest, s)' = Turns(Latest, s) /\ Turns(committed, s)' = Turns(Latest, s)
    BY <2>1 DEF Turns
  <2>3. /\ Durable(s)' \in SUBSET Requests /\ Counted(s)' \in SUBSET Requests
        /\ Counted(s) \in SUBSET Requests /\ Durable(s)' \subseteq Counted(s)'
    BY DEF Durable, Counted
  <2>4. /\ Cardinality(Durable(s)') <= Cardinality(Counted(s)')
        /\ Cardinality(Counted(s)') <= Cardinality(Counted(s))
        /\ Cardinality(Durable(s)') \in Nat /\ Cardinality(Counted(s)') \in Nat
        /\ Cardinality(Counted(s)) \in Nat
    BY <1>3, <2>3, CountsType
  <2>5. Turns(Latest, s) >= told[s] + Cardinality(Counted(s)) /\ told[s] \in Nat
    BY DEF CountsOK, BaseInv, TypeOK
  <2> QED
    BY <1>1, <1>4, <2>2, <2>4, <2>5
<1>6. CASE holder # req[r].connection
  <2>1. UNCHANGED <<committed, holder>>
    BY <1>1, <1>6 DEF CommitHeld
  <2>2. Turns(Latest, s)' = Turns(Latest, s) /\ Turns(committed, s)' = Turns(committed, s)
    BY <1>1, <2>1 DEF Turns, Latest
  <2>3. Durable(s)' \subseteq Durable(s)
    BY <1>1, <1>2, <1>6, <2>1 DEF Durable
  <2> QED
    BY <1>1, <1>3, <1>4, <2>2, <2>3, NoMoreCounted
<1> QED
  BY <1>5, <1>6

LEMMA WriteRowCounts ==
  ASSUME BaseInv, BaseInv', CountsOK, NEW r \in Requests, WriteRow(r)
  PROVE  CountsOK'
<1> DEFINE t == req[r].session
           k == req[r].connection
<1>1. /\ req[r].pc = "write" /\ t \in SessionIds
      /\ k # None /\ holder \in {None, k} /\ holder' = k
      /\ UNCHANGED <<committed, told>> /\ Latest' = dirty'
  BY WriteRowCases DEF MayWrite, history, Latest
<1> SUFFICES ASSUME NEW s \in SessionIds
             PROVE  /\ Turns(Latest, s)' >= told'[s] + Cardinality(Counted(s)')
                    /\ Turns(committed, s)' >= told'[s] + Cardinality(Durable(s)')
  BY DEF CountsOK
<1>2. \A o \in Requests : req[o].pc = "commitTouch" => req[o].connection # None
  BY DEF BaseInv, RequestsOK
<1>3. Turns(Latest, s) \in Nat /\ Turns(committed, s) \in Nat
  BY DEF Turns, BaseInv, TypeOK, IsTable, Rows, Latest
<1>4. Turns(committed, s)' = Turns(committed, s)
  BY <1>1 DEF Turns
<1>5. CASE TouchFails(r)
  <2>1. /\ \A o \in Requests : o # r => req'[o] = req[o]
        /\ req'[r].pc = "free" /\ dirty' = Latest
    BY <1>5 DEF TouchFails, Fail, Free, Request, BaseInv, TypeOK
  <2>2. Counted(s)' \subseteq Counted(s) /\ Durable(s)' \subseteq Durable(s)
    BY <1>1, <1>2, <2>1 DEF Counted, Durable
  <2>3. Turns(Latest, s)' = Turns(Latest, s)
    BY <1>1, <2>1 DEF Turns
  <2> QED
    BY <1>1, <1>3, <1>4, <2>2, <2>3, NoMoreCounted
<1>6. CASE Touches(r)
  <2> DEFINE row == IF t \in DOMAIN Latest THEN Latest[t] ELSE None
             touched == TouchedRow(row, req[r].record, req[r].agent)
  <2>1. touched.turns = Turns(Latest, t) + 1
    BY <1>6, TouchedRowType
  <2>2. dirty' = [x \in DOMAIN Latest \union {t} |-> IF x = t THEN touched ELSE Latest[x]]
    BY <1>6 DEF Touches
  <2> HIDE DEF touched
  <2>3. /\ Turns(dirty', t) = Turns(Latest, t) + 1
        /\ s # t => Turns(dirty', s) = Turns(Latest, s)
    BY <2>1, <2>2 DEF Turns
  <2>4. Turns(Latest, s)' = Turns(dirty', s)
    BY <1>1 DEF Turns
  <2>5. /\ \A o \in Requests : o # r => req'[o] = req[o]
        /\ req'[r].pc = "commitTouch" /\ req'[r].connection = k /\ req'[r].session = t
    BY <1>6 DEF Touches, BaseInv, TypeOK
  <2>6. Durable(s)' \subseteq Durable(s)
    BY <1>1, <1>2, <2>5 DEF Durable
  <2>7. CASE s # t
    <3>1. Counted(s)' \subseteq Counted(s)
      BY <2>5, <2>7 DEF Counted
    <3> QED
      BY <1>1, <1>3, <1>4, <2>3, <2>4, <2>6, <2>7, <3>1, NoMoreCounted
  <2>8. CASE s = t
    <3>1. Counted(s)' = Counted(s) \union {r} /\ r \notin Counted(s)
      BY <1>1, <2>5, <2>8 DEF Counted
    <3>2. /\ Counted(s) \in SUBSET Requests /\ Durable(s) \in SUBSET Requests
          /\ Durable(s)' \in SUBSET Requests
      BY DEF Counted, Durable
    <3>3. IsFiniteSet(Counted(s))
      BY <3>2, SessionsAssumption, FS_Subset
    <3>4. Cardinality(Counted(s)') = Cardinality(Counted(s)) + 1
      BY <3>1, <3>3, FS_AddElement
    <3>5. /\ Cardinality(Durable(s)') <= Cardinality(Durable(s))
          /\ Cardinality(Durable(s)') \in Nat /\ Cardinality(Durable(s)) \in Nat
          /\ Cardinality(Counted(s)) \in Nat
      BY <2>6, <3>2, CountsType
    <3>6. /\ Turns(Latest, s) >= told[s] + Cardinality(Counted(s)) /\ told[s] \in Nat
          /\ Turns(committed, s) >= told[s] + Cardinality(Durable(s))
      BY DEF CountsOK, BaseInv, TypeOK
    <3>7. Turns(Latest, s)' = Turns(Latest, s) + 1 /\ told'[s] = told[s]
      BY <1>1, <2>3, <2>4, <2>8
    <3> QED
      BY <1>3, <1>4, <3>4, <3>5, <3>6, <3>7
  <2> QED
    BY <2>7, <2>8
<1> QED
  BY <1>5, <1>6, WriteRowCases

\* The request that is answered hands its turn over to its CLI.
LEMMA AnswerCounts ==
  ASSUME BaseInv, BaseInv', CountsOK, NEW r \in Requests, Answer(r)
  PROVE  CountsOK'
<1> DEFINE t == req[r].session
<1>1. /\ req[r].pc = "answer" /\ req' = [req EXCEPT ![r] = Free]
      /\ UNCHANGED <<holder, committed, dirty>>
  BY DEF Answer, server
<1>2. t \in SessionIds
  BY <1>1 DEF BaseInv, RequestsOK, Unidentified
<1> SUFFICES ASSUME NEW s \in SessionIds
             PROVE  /\ Turns(Latest, s)' >= told'[s] + Cardinality(Counted(s)')
                    /\ Turns(committed, s)' >= told'[s] + Cardinality(Durable(s)')
  BY DEF CountsOK
<1>3. /\ \A o \in Requests : o # r => req'[o] = req[o]
      /\ req'[r].pc = "free"
  BY <1>1 DEF Free, Request, BaseInv, TypeOK
<1>4. Turns(Latest, s)' = Turns(Latest, s) /\ Turns(committed, s)' = Turns(committed, s)
  BY <1>1 DEF Turns, Latest
<1>5. Turns(Latest, s) \in Nat /\ Turns(committed, s) \in Nat /\ told[s] \in Nat
  BY DEF Turns, BaseInv, TypeOK, IsTable, Rows, Latest
<1>6. /\ Turns(Latest, s) >= told[s] + Cardinality(Counted(s))
      /\ Turns(committed, s) >= told[s] + Cardinality(Durable(s))
  BY DEF CountsOK
<1>7. /\ IsFiniteSet(Counted(s)) /\ IsFiniteSet(Durable(s))
      /\ Cardinality(Counted(s)) \in Nat /\ Cardinality(Durable(s)) \in Nat
  <2>1. Counted(s) \in SUBSET Requests /\ Durable(s) \in SUBSET Requests
    BY DEF Counted, Durable
  <2> QED
    BY <2>1, SessionsAssumption, FS_Subset, CountsType
<1>8. Counted(s)' = Counted(s) \ {r} /\ Durable(s)' = Durable(s) \ {r}
  BY <1>1, <1>3 DEF Counted, Durable
<1>9. CASE s = t
  <2>1. r \in Counted(s) /\ r \in Durable(s)
    BY <1>1, <1>9 DEF Counted, Durable
  <2>2. /\ Cardinality(Counted(s)') = Cardinality(Counted(s)) - 1
        /\ Cardinality(Durable(s)') = Cardinality(Durable(s)) - 1
    BY <1>7, <1>8, <2>1, FS_RemoveElement
  <2>3. told'[s] \in told[s] .. told[s] + 1
    BY <1>9, AnswerKeeps
  <2> QED
    BY <1>4, <1>5, <1>6, <1>7, <2>2, <2>3
<1>10. CASE s # t
  <2>1. Counted(s)' = Counted(s) /\ Durable(s)' = Durable(s)
    BY <1>8, <1>10 DEF Counted, Durable
  <2>2. told'[s] = told[s]
    BY <1>10, AnswerKeeps
  <2> QED
    BY <1>4, <1>6, <2>1, <2>2
<1> QED
  BY <1>9, <1>10

\* What a crash loses, no CLI was told of.
LEMMA CrashCounts ==
  ASSUME BaseInv, BaseInv', CountsOK, Crash
  PROVE  CountsOK'
<1>1. /\ holder' = None /\ dirty' = committed /\ UNCHANGED <<committed, told>>
      /\ req' = [r \in Requests |-> Free]
  BY DEF Crash, history
<1> SUFFICES ASSUME NEW s \in SessionIds
             PROVE  /\ Turns(Latest, s)' >= told'[s] + Cardinality(Counted(s)')
                    /\ Turns(committed, s)' >= told'[s] + Cardinality(Durable(s)')
  BY DEF CountsOK
<1>2. Counted(s)' = {} /\ Durable(s)' = {}
  BY <1>1 DEF Counted, Durable, Free, Request
<1>3. Turns(Latest, s)' = Turns(committed, s) /\ Turns(committed, s)' = Turns(committed, s)
  BY <1>1 DEF Turns, Latest
<1>4. Turns(committed, s) \in Nat /\ told[s] \in Nat
  BY DEF Turns, BaseInv, TypeOK, IsTable, Rows
<1>5. Cardinality(Durable(s)) \in Nat
  <2>1. Durable(s) \in SUBSET Requests
    BY DEF Durable
  <2> QED
    BY <2>1, CountsType
<1>6. Turns(committed, s) >= told[s] + Cardinality(Durable(s))
  BY DEF CountsOK
<1>7. Cardinality(Counted(s)') = 0 /\ Cardinality(Durable(s)') = 0
  BY <1>2, FS_EmptySet
<1> QED
  BY <1>1, <1>3, <1>4, <1>5, <1>6, <1>7

LEMMA CountsInit == Init => CountsOK
<1> SUFFICES ASSUME Init, NEW s \in SessionIds
             PROVE  /\ Turns(Latest, s) >= told[s] + Cardinality(Counted(s))
                    /\ Turns(committed, s) >= told[s] + Cardinality(Durable(s))
  BY DEF CountsOK
<1>1. Counted(s) = {} /\ Durable(s) = {}
  BY DEF Init, Counted, Durable, Free, Request
<1>2. Turns(Latest, s) = 0 /\ Turns(committed, s) = 0 /\ told[s] = 0
  BY DEF Init, Turns, Latest
<1>3. Cardinality(Counted(s)) = 0 /\ Cardinality(Durable(s)) = 0
  BY <1>1, FS_EmptySet
<1> QED
  BY <1>2, <1>3

LEMMA CountsNext == BaseInv /\ BaseInv' /\ CountsOK /\ [Next]_vars => CountsOK'
<1> SUFFICES ASSUME BaseInv, BaseInv', CountsOK, [Next]_vars PROVE CountsOK'
  OBVIOUS
<1>1. ASSUME NEW r \in Requests, Open(r) \/ Opened(r) \/ ReadRow(r) \/ Locked(r)
      PROVE  CountsOK'
  <2>1. UNCHANGED <<holder, committed, dirty, told>>
    BY <1>1 DEF Open, Opened, ReadRow, Locked, server, history
  <2>2. PICK new : /\ req' = [req EXCEPT ![r] = new]
                   /\ new.pc \notin {"commitTouch", "answer"}
    <3>1. CASE Open(r) \/ Opened(r)
      <4>1. PICK pc \in {"open", "openTouch", "create", "touch"} : Goto(r, pc)
        BY <3>1 DEF Open, Opened
      <4>2. req' = [req EXCEPT ![r] = [req[r] EXCEPT !.pc = pc]]
        BY <4>1 DEF Goto
      <4>3. [req[r] EXCEPT !.pc = pc].pc = pc
        BY DEF BaseInv, TypeOK
      <4> QED
        BY <4>2, <4>3
    <3>2. CASE ReadRow(r)
      <4>1. PICK found : req' = [req EXCEPT ![r].record = found, ![r].connection = current,
                                            ![r].pc = "write"]
        BY <3>2 DEF ReadRow
      <4> DEFINE new == [req[r] EXCEPT !.record = found, !.connection = current, !.pc = "write"]
      <4>2. req' = [req EXCEPT ![r] = new]
        BY <4>1 DEF BaseInv, TypeOK
      <4>3. new.pc = "write"
        BY DEF BaseInv, TypeOK
      <4> QED
        BY <4>2, <4>3
    <3>3. CASE Locked(r)
      <4>1. req' = [req EXCEPT ![r] = Free] /\ Free.pc = "free"
        BY <3>3 DEF Locked, Fail, Free, Request
      <4> QED
        BY <4>1
    <3> QED
      BY <1>1, <3>1, <3>2, <3>3
  <2>3. \A o \in Requests : req'[o] = req[o] \/ req'[o].pc \notin {"commitTouch", "answer"}
    BY <2>2 DEF BaseInv, TypeOK
  <2> QED
    BY <2>1, <2>3, QuietCounts
<1>2. ASSUME NEW c \in Clients, Ask(c) PROVE CountsOK'
  <2>1. UNCHANGED <<holder, committed, dirty, told>>
    BY <1>2 DEF Ask, server, history
  <2>2. PICK r \in Requests : \E new : req' = [req EXCEPT ![r] = new]
                                       /\ new.pc \in {"create", "touch"}
    BY <1>2, AskKeeps
  <2>3. \A o \in Requests : req'[o] = req[o] \/ req'[o].pc \notin {"commitTouch", "answer"}
    BY <2>2 DEF BaseInv, TypeOK
  <2> QED
    BY <2>1, <2>3, QuietCounts
<1>3. ASSUME NEW c \in Clients, Switch(c) \/ GiveUp(c) PROVE CountsOK'
  BY <1>3, CliKeeps, QuietCounts
<1>4. CASE UNCHANGED vars
  BY <1>4, QuietCounts DEF vars, server, history
<1> QED
  BY <1>1, <1>2, <1>3, <1>4, InsertSessionCounts, CommitCounts, WriteRowCounts,
     AnswerCounts, CrashCounts DEF Next

\* The rows on disk have the turns that were told, at least.
LEMMA CountsSuffice == BaseInv /\ CountsOK => TurnsAreCounted
<1> SUFFICES ASSUME BaseInv, CountsOK, NEW s \in SessionIds, told[s] > 0
             PROVE  s \in DOMAIN committed /\ committed[s].turns >= told[s]
  BY DEF TurnsAreCounted
<1>1. Durable(s) \in SUBSET Requests
  BY DEF Durable
<1>2. Cardinality(Durable(s)) \in Nat
  BY <1>1, CountsType
<1>3. Turns(committed, s) >= told[s] + Cardinality(Durable(s)) /\ told[s] \in Nat
  BY DEF CountsOK, BaseInv, TypeOK
<1>4. Turns(committed, s) \in Nat
  BY DEF Turns, BaseInv, TypeOK, IsTable, Rows
<1> QED
  BY <1>2, <1>3, <1>4 DEF Turns

-----------------------------------------------------------------------------
(* The agents *)

\* Row s of the table is there, and has the agent.
Has(rows, s, a) == s \in DOMAIN rows /\ a \in rows[s].used

\* Steps that take no request further than the look-up, end no transaction
\* and take no agent out of a row
LEMMA UsesStay ==
  ASSUME BaseInv, TouchesMeet, UsesOK, UNCHANGED <<served, overlapped>>,
         \A o \in Requests : \/ req'[o] = req[o]
                             \/ req'[o].pc \notin {"write", "commitTouch", "answer"},
         holder' = holder \/ holder = None,
         \A s \in SessionIds, a \in Agents :
           /\ Has(committed, s, a) => Has(committed, s, a)'
           /\ Has(Latest, s, a) => Has(Latest, s, a)'
  PROVE  TouchesMeet' /\ UsesOK'
<1>1. TouchesMeet'
  BY DEF TouchesMeet, Touching
<1>2. ASSUME NEW s \in SessionIds, NEW a \in Agents, Recorded(s, a)
      PROVE  Recorded(s, a)'
  BY <1>2 DEF Recorded, Has
<1>3. \A o \in Requests : req[o].pc = "commitTouch" => req[o].connection # None
  BY DEF BaseInv, RequestsOK
<1>4. UsesOK'
  <2> SUFFICES ASSUME NEW s \in SessionIds, NEW a \in Agents, <<s, a>> \notin overlapped
               PROVE  /\ <<s, a>> \in served => Recorded(s, a)'
                      /\ \A r \in Requests : req'[r].session = s /\ req'[r].agent = a =>
                           /\ req'[r].pc = "answer" => Recorded(s, a)'
                           /\ req'[r].pc = "commitTouch" =>
                                /\ Has(Latest, s, a)'
                                /\ req'[r].connection # holder' => Has(committed, s, a)'
    BY DEF UsesOK, Has
  <2>1. <<s, a>> \in served => Recorded(s, a)'
    BY <1>2 DEF UsesOK
  <2>2. ASSUME NEW r \in Requests, req'[r].session = s, req'[r].agent = a
        PROVE  /\ req'[r].pc = "answer" => Recorded(s, a)'
               /\ req'[r].pc = "commitTouch" =>
                    /\ Has(Latest, s, a)'
                    /\ req'[r].connection # holder' => Has(committed, s, a)'
    <3>1. CASE req'[r].pc = "answer"
      BY <1>2, <2>2, <3>1 DEF UsesOK
    <3>2. CASE req'[r].pc = "commitTouch"
      <4>1. req'[r] = req[r]
        BY <3>2
      <4>2. Has(Latest, s, a) /\ (req[r].connection # holder => Has(committed, s, a))
        BY <2>2, <3>2, <4>1 DEF UsesOK, Has
      <4> QED
        BY <1>3, <3>2, <4>1, <4>2
    <3> QED
      BY <3>1, <3>2
  <2> QED
    BY <2>1, <2>2
<1> QED
  BY <1>1, <1>4

\* A look-up that overlaps nothing finds every agent that was recorded.
LEMMA ReadRowUses ==
  ASSUME BaseInv, TouchesMeet, UsesOK, NEW r \in Requests, ReadRow(r)
  PROVE  TouchesMeet' /\ UsesOK'
<1> DEFINE t == req[r].session
           found == IF t \in DOMAIN View(current) THEN View(current)[t] ELSE None
           new == [req[r] EXCEPT !.record = found, !.connection = current, !.pc = "write"]
<1>1. /\ req' = [req EXCEPT ![r] = new] /\ req[r].pc = "touch" /\ current # None
      /\ UNCHANGED <<holder, committed, dirty, served>>
      /\ overlapped' = overlapped \union
           {<<t, req[o].agent>> : o \in IF Others(r) = {} THEN {} ELSE Others(r) \union {r}}
  BY DEF ReadRow, server, BaseInv, TypeOK
<1>2. /\ new.pc = "write" /\ new.session = t /\ new.agent = req[r].agent /\ new.record = found
  BY DEF BaseInv, TypeOK
<1> HIDE DEF new
<1>3. \A o \in Requests : req'[o] = IF o = r THEN new ELSE req[o]
  BY <1>1 DEF BaseInv, TypeOK
<1>4. overlapped \subseteq overlapped'
  BY <1>1
<1>5. ASSUME NEW o \in Requests, o # r, req[o].session = t, req[o].pc \in Touching
      PROVE  <<t, req[o].agent>> \in overlapped' /\ <<t, req[r].agent>> \in overlapped'
  <2>1. o \in Others(r)
    BY <1>5 DEF Others
  <2> QED
    BY <1>1, <2>1
<1>6. TouchesMeet'
  <2> SUFFICES ASSUME NEW p \in Requests, NEW o \in Requests, p # o,
                      req'[p].session = req'[o].session,
                      req'[p].pc \in Touching, req'[o].pc \in Touching
               PROVE  <<req'[p].session, req'[p].agent>> \in overlapped'
    BY DEF TouchesMeet
  <2>1. CASE p = r
    BY <1>2, <1>3, <1>5, <2>1
  <2>2. CASE o = r
    BY <1>2, <1>3, <1>5, <2>2
  <2>3. CASE p # r /\ o # r
    BY <1>3, <1>4, <2>3 DEF TouchesMeet
  <2> QED
    BY <2>1, <2>2, <2>3
<1>7. Latest' = Latest /\ View(current) \in {committed, Latest}
  BY <1>1 DEF Latest, View
<1>8. ASSUME NEW s \in SessionIds, NEW a \in Agents, Recorded(s, a)
      PROVE  Recorded(s, a)'
  <2>1. t = s => found # None /\ a \in found.used
    BY <1>7, <1>8, RowsAssumption DEF Recorded, BaseInv, TypeOK, IsTable, Latest
  <2> QED
    BY <1>1, <1>2, <1>3, <1>7, <1>8, <2>1 DEF Recorded
<1>9. UsesOK'
  <2> SUFFICES ASSUME NEW s \in SessionIds, NEW a \in Agents, <<s, a>> \notin overlapped'
               PROVE  /\ <<s, a>> \in served' => Recorded(s, a)'
                      /\ \A o \in Requests : req'[o].session = s /\ req'[o].agent = a =>
                           /\ req'[o].pc = "answer" => Recorded(s, a)'
                           /\ req'[o].pc = "commitTouch" =>
                                /\ Has(Latest, s, a)'
                                /\ req'[o].connection # holder' => Has(committed, s, a)'
    BY DEF UsesOK, Has
  <2>1. <<s, a>> \notin overlapped
    BY <1>4
  <2>2. <<s, a>> \in served' => Recorded(s, a)'
    BY <1>1, <1>8, <2>1 DEF UsesOK
  <2>3. ASSUME NEW o \in Requests, req'[o].session = s, req'[o].agent = a
        PROVE  /\ req'[o].pc = "answer" => Recorded(s, a)'
               /\ req'[o].pc = "commitTouch" =>
                    /\ Has(Latest, s, a)'
                    /\ req'[o].connection # holder' => Has(committed, s, a)'
    <3>1. CASE req'[o].pc = "answer"
      BY <1>2, <1>3, <1>8, <2>1, <2>3, <3>1 DEF UsesOK
    <3>2. CASE req'[o].pc = "commitTouch"
      <4>1. req'[o] = req[o]
        BY <1>2, <1>3, <3>2
      <4>2. Has(Latest, s, a) /\ (req[o].connection # holder => Has(committed, s, a))
        BY <2>1, <2>3, <3>2, <4>1 DEF UsesOK, Has
      <4> QED
        BY <1>1, <1>7, <3>2, <4>1, <4>2 DEF Has
    <3> QED
      BY <3>1, <3>2
  <2> QED
    BY <2>2, <2>3
<1> QED
  BY <1>6, <1>9

\* What a touch has written, its commit, or one before it on the same
\* connection, brings to disk; nobody who overlapped writes an older row.
LEMMA CommitUses ==
  ASSUME BaseInv, TouchesMeet, UsesOK, NEW r \in Requests, Commit(r)
  PROVE  TouchesMeet' /\ UsesOK'
<1>1. /\ req[r].pc \in {"commit", "commitTouch"} /\ CommitHeld(r)
      /\ req' = [req EXCEPT ![r].pc = IF @ = "commit" THEN "touch" ELSE "answer"]
      /\ UNCHANGED <<dirty, served, overlapped>>
  BY DEF Commit, Goto, history, BaseInv, TypeOK
<1>2. /\ \A o \in Requests : o # r => req'[o] = req[o]
      /\ req'[r].pc = IF req[r].pc = "commit" THEN "touch" ELSE "answer"
      /\ req'[r].session = req[r].session /\ req'[r].agent = req[r].agent
  BY <1>1 DEF BaseInv, TypeOK
<1>3. Latest' = Latest /\ (committed' = committed \/ committed' = Latest)
  BY <1>1 DEF CommitHeld, Latest, BaseInv, RequestsOK
<1>4. /\ holder = req[r].connection => committed' = Latest /\ holder' = None
      /\ holder # req[r].connection => UNCHANGED <<committed, holder>>
  BY <1>1 DEF CommitHeld, Latest, BaseInv, RequestsOK
<1>5. TouchesMeet'
  BY <1>1, <1>2 DEF TouchesMeet, Touching
<1>6. ASSUME NEW s \in SessionIds, NEW a \in Agents, Recorded(s, a)
      PROVE  Recorded(s, a)'
  BY <1>1, <1>2, <1>3, <1>6 DEF Recorded
<1> SUFFICES ASSUME NEW s \in SessionIds, NEW a \in Agents, <<s, a>> \notin overlapped
             PROVE  /\ <<s, a>> \in served => Recorded(s, a)'
                    /\ \A o \in Requests : req'[o].session = s /\ req'[o].agent = a =>
                         /\ req'[o].pc = "answer" => Recorded(s, a)'
                         /\ req'[o].pc = "commitTouch" =>
                              /\ Has(Latest, s, a)'
                              /\ req'[o].connection # holder' => Has(committed, s, a)'
  BY <1>1, <1>5 DEF UsesOK, Has
<1>7. <<s, a>> \in served => Recorded(s, a)'
  BY <1>6 DEF UsesOK
<1>8. ASSUME NEW o \in Requests, req'[o].session = s, req'[o].agent = a
      PROVE  /\ req'[o].pc = "answer" => Recorded(s, a)'
             /\ req'[o].pc = "commitTouch" =>
                  /\ Has(Latest, s, a)'
                  /\ req'[o].connection # holder' => Has(committed, s, a)'
  <2>1. CASE o # r
    <3>1. req'[o] = req[o]
      BY <1>2, <2>1
    <3>2. req[o].pc = "answer" => Recorded(s, a)'
      BY <1>6, <1>8, <3>1 DEF UsesOK
    <3>3. req[o].pc = "commitTouch" =>
            Has(Latest, s, a) /\ (req[o].connection # holder => Has(committed, s, a))
      BY <1>8, <3>1 DEF UsesOK, Has
    <3>4. req[o].pc = "commitTouch" =>
            Has(Latest, s, a)' /\ (req[o].connection # holder' => Has(committed, s, a)')
      BY <1>3, <1>4, <3>3 DEF Has
    <3> QED
      BY <3>1, <3>2, <3>4
  <2>2. CASE o = r
    <3>1. req'[o].pc \in {"touch", "answer"}
      BY <1>2, <2>2
    <3>2. ASSUME req'[o].pc = "answer" PROVE Recorded(s, a)'
      <4>1. req[r].pc = "commitTouch" /\ req[r].session = s /\ req[r].agent = a
        BY <1>1, <1>2, <1>8, <2>2, <3>2
      <4>2. Has(Latest, s, a) /\ (req[r].connection # holder => Has(committed, s, a))
        BY <4>1 DEF UsesOK, Has
      <4>3. Has(Latest, s, a)' /\ Has(committed, s, a)'
        BY <1>3, <1>4, <4>2 DEF Has
      <4>4. \A w \in Requests : req'[w].pc = "write" => req'[w].session # s
        BY <1>2, <4>1 DEF TouchesMeet, Touching
      <4> QED
        BY <4>3, <4>4 DEF Recorded, Has
    <3> QED
      BY <3>1, <3>2
  <2> QED
    BY <2>1, <2>2
<1> QED
  BY <1>7, <1>8

\* The row that is written has the agents that were recorded, because the
\* touch has read them, and its own.
LEMMA WriteRowUses ==
  ASSUME BaseInv, TouchesMeet, UsesOK, NEW r \in Requests, WriteRow(r)
  PROVE  TouchesMeet' /\ UsesOK'
<1> DEFINE t == req[r].session
           k == req[r].connection
<1>1. /\ req[r].pc = "write" /\ t \in SessionIds
      /\ k # None /\ holder \in {None, k} /\ holder' = k
      /\ UNCHANGED <<committed, served, overlapped>> /\ Latest' = dirty'
  BY WriteRowCases DEF MayWrite, history, Latest
<1>2. CASE TouchFails(r)
  <2>1. dirty' = Latest /\ req' = [req EXCEPT ![r] = Free] /\ Free.pc = "free"
    BY <1>2 DEF TouchFails, Fail, Free, Request
  <2>2. \A o \in Requests : \/ req'[o] = req[o]
                            \/ req'[o].pc \notin {"write", "commitTouch", "answer"}
    BY <2>1 DEF BaseInv, TypeOK
  <2>3. \A s \in SessionIds, a \in Agents :
          /\ Has(committed, s, a) => Has(committed, s, a)'
          /\ Has(Latest, s, a) => Has(Latest, s, a)'
    BY <1>1, <2>1 DEF Has
  <2>4. holder' = holder \/ holder = None
    BY <1>1
  <2> QED
    BY <1>1, <2>2, <2>3, <2>4, UsesStay
<1>3. CASE Touches(r)
  <2> DEFINE row == IF t \in DOMAIN Latest THEN Latest[t] ELSE None
             touched == TouchedRow(row, req[r].record, req[r].agent)
  <2>1. /\ req[r].agent \in touched.used
        /\ req[r].record # None => req[r].record.used \subseteq touched.used
    BY <1>3, TouchedRowType
  <2>2. dirty' = [x \in DOMAIN Latest \union {t} |-> IF x = t THEN touched ELSE Latest[x]]
    BY <1>3 DEF Touches
  <2> HIDE DEF touched
  <2>3. /\ \A o \in Requests : o # r => req'[o] = req[o]
        /\ req'[r].pc = "commitTouch" /\ req'[r].connection = k
        /\ req'[r].session = t /\ req'[r].agent = req[r].agent
    BY <1>3 DEF Touches, BaseInv, TypeOK
  <2>4. TouchesMeet'
    BY <1>1, <2>3 DEF TouchesMeet, Touching
  <2>5. ASSUME NEW s \in SessionIds, NEW a \in Agents, Recorded(s, a)
        PROVE  Recorded(s, a)'
    <3>1. s = t => req[r].record # None /\ a \in req[r].record.used
      BY <1>1, <2>5 DEF Recorded
    <3>2. Has(dirty', s, a)
      BY <2>1, <2>2, <2>5, <3>1 DEF Recorded, Has
    <3> QED
      BY <1>1, <2>3, <2>5, <3>2 DEF Recorded, Has
  <2> SUFFICES ASSUME NEW s \in SessionIds, NEW a \in Agents, <<s, a>> \notin overlapped
               PROVE  /\ <<s, a>> \in served => Recorded(s, a)'
                      /\ \A o \in Requests : req'[o].session = s /\ req'[o].agent = a =>
                           /\ req'[o].pc = "answer" => Recorded(s, a)'
                           /\ req'[o].pc = "commitTouch" =>
                                /\ Has(Latest, s, a)'
                                /\ req'[o].connection # holder' => Has(committed, s, a)'
    BY <1>1, <2>4 DEF UsesOK, Has
  <2>6. <<s, a>> \in served => Recorded(s, a)'
    BY <2>5 DEF UsesOK
  <2>7. ASSUME NEW o \in Requests, req'[o].session = s, req'[o].agent = a
        PROVE  /\ req'[o].pc = "answer" => Recorded(s, a)'
               /\ req'[o].pc = "commitTouch" =>
                    /\ Has(Latest, s, a)'
                    /\ req'[o].connection # holder' => Has(committed, s, a)'
    <3>1. CASE o = r
      <4>1. s = t /\ a = req[r].agent /\ req'[o].connection = holder'
        BY <1>1, <2>3, <2>7, <3>1
      <4>2. Has(dirty', s, a)
        BY <2>1, <2>2, <4>1 DEF Has
      <4> QED
        BY <1>1, <2>3, <3>1, <4>1, <4>2 DEF Has
    <3>2. CASE o # r
      <4>1. req'[o] = req[o]
        BY <2>3, <3>2
      <4>2. req[o].pc = "answer" => Recorded(s, a)'
        BY <2>5, <2>7, <4>1 DEF UsesOK
      <4>3. ASSUME req[o].pc = "commitTouch"
            PROVE  Has(Latest, s, a)' /\ (req[o].connection # holder' => Has(committed, s, a)')
        <5>1. s # t
          BY <1>1, <2>7, <3>2, <4>1, <4>3 DEF TouchesMeet, Touching
        <5>2. /\ Has(Latest, s, a) /\ (req[o].connection # holder => Has(committed, s, a))
              /\ req[o].connection # None
          BY <2>7, <4>1, <4>3 DEF UsesOK, Has, BaseInv, RequestsOK
        <5>3. Has(dirty', s, a)
          BY <2>2, <5>1, <5>2 DEF Has
        <5> QED
          BY <1>1, <5>2, <5>3 DEF Has
      <4> QED
        BY <4>1, <4>2, <4>3
    <3> QED
      BY <3>1, <3>2
  <2> QED
    BY <2>6, <2>7
<1> QED
  BY <1>2, <1>3, WriteRowCases

LEMMA AnswerUses ==
  ASSUME BaseInv, TouchesMeet, UsesOK, NEW r \in Requests, Answer(r)
  PROVE  TouchesMeet' /\ UsesOK'
<1> DEFINE t == req[r].session
           b == req[r].agent
<1>1. /\ req[r].pc = "answer" /\ req' = [req EXCEPT ![r] = Free]
      /\ served' \subseteq served \union {<<t, b>>}
      /\ UNCHANGED <<holder, committed, dirty, overlapped>>
  BY DEF Answer, server
<1>2. /\ \A o \in Requests : o # r => req'[o] = req[o]
      /\ req'[r].pc = "free"
  BY <1>1 DEF BaseInv, TypeOK, Free, Request
<1>3. TouchesMeet'
  BY <1>1, <1>2 DEF TouchesMeet, Touching
<1>4. Latest' = Latest
  BY <1>1 DEF Latest
<1>5. ASSUME NEW s \in SessionIds, NEW a \in Agents, Recorded(s, a)
      PROVE  Recorded(s, a)'
  BY <1>1, <1>2, <1>4, <1>5 DEF Recorded
<1> SUFFICES ASSUME NEW s \in SessionIds, NEW a \in Agents, <<s, a>> \notin overlapped
             PROVE  /\ <<s, a>> \in served' => Recorded(s, a)'
                    /\ \A o \in Requests : req'[o].session = s /\ req'[o].agent = a =>
                         /\ req'[o].pc = "answer" => Recorded(s, a)'
                         /\ req'[o].pc = "commitTouch" =>
                              /\ Has(Latest, s, a)'
                              /\ req'[o].connection # holder' => Has(committed, s, a)'
  BY <1>1, <1>3 DEF UsesOK, Has
<1>6. <<s, a>> \in served' => Recorded(s, a)'
  <2>1. CASE <<s, a>> \in served
    BY <1>5, <2>1 DEF UsesOK
  <2>2. CASE <<s, a>> = <<t, b>>
    <3>1. s = t /\ a = b
      BY <2>2
    <3> QED
      BY <1>1, <1>5, <3>1 DEF UsesOK
  <2> QED
    BY <1>1, <2>1, <2>2
<1>7. ASSUME NEW o \in Requests, req'[o].session = s, req'[o].agent = a
      PROVE  /\ req'[o].pc = "answer" => Recorded(s, a)'
             /\ req'[o].pc = "commitTouch" =>
                  /\ Has(Latest, s, a)'
                  /\ req'[o].connection # holder' => Has(committed, s, a)'
  <2>1. CASE o = r
    BY <1>2, <2>1
  <2>2. CASE o # r
    <3>1. req'[o] = req[o]
      BY <1>2, <2>2
    <3>2. req[o].pc = "answer" => Recorded(s, a)'
      BY <1>5, <1>7, <3>1 DEF UsesOK
    <3>3. req[o].pc = "commitTouch" =>
            Has(Latest, s, a) /\ (req[o].connection # holder => Has(committed, s, a))
      BY <1>7, <3>1 DEF UsesOK, Has
    <3> QED
      BY <1>1, <1>4, <3>1, <3>2, <3>3 DEF Has
  <2> QED
    BY <2>1, <2>2
<1> QED
  BY <1>6, <1>7

LEMMA CrashUses ==
  ASSUME BaseInv, TouchesMeet, UsesOK, Crash
  PROVE  TouchesMeet' /\ UsesOK'
<1>1. /\ holder' = None /\ dirty' = committed /\ UNCHANGED <<committed, served, overlapped>>
      /\ \A r \in Requests : req'[r].pc = "free"
  BY DEF Crash, history, Free, Request
<1>2. TouchesMeet'
  BY <1>1 DEF TouchesMeet, Touching
<1>3. ASSUME NEW s \in SessionIds, NEW a \in Agents, Recorded(s, a)
      PROVE  Recorded(s, a)'
  BY <1>1, <1>3 DEF Recorded, Latest
<1>4. UsesOK'
  BY <1>1, <1>3 DEF UsesOK
<1> QED
  BY <1>2, <1>4

LEMMA UsesInit == Init => TouchesMeet /\ UsesOK
  BY DEF Init, TouchesMeet, UsesOK, Touching, Free, Request

LEMMA UsesNext ==
  BaseInv /\ TouchesMeet /\ UsesOK /\ [Next]_vars => TouchesMeet' /\ UsesOK'
<1> SUFFICES ASSUME BaseInv, TouchesMeet, UsesOK, [Next]_vars
             PROVE  TouchesMeet' /\ UsesOK'
  OBVIOUS
<1>1. ASSUME UNCHANGED <<holder, committed, dirty, served, overlapped>>,
             \A o \in Requests : \/ req'[o] = req[o]
                                 \/ req'[o].pc \notin {"write", "commitTouch", "answer"}
      PROVE  TouchesMeet' /\ UsesOK'
  <2>1. \A s \in SessionIds, a \in Agents :
          /\ Has(committed, s, a) => Has(committed, s, a)'
          /\ Has(Latest, s, a) => Has(Latest, s, a)'
    BY <1>1 DEF Has, Latest
  <2> QED
    BY <1>1, <2>1, UsesStay
<1>2. ASSUME NEW r \in Requests, Open(r) \/ Opened(r) \/ Locked(r)
      PROVE  TouchesMeet' /\ UsesOK'
  <2>1. UNCHANGED <<holder, committed, dirty, served, overlapped>>
    BY <1>2 DEF Open, Opened, Locked, server, history
  <2>2. /\ \A o \in Requests : o # r => req'[o] = req[o]
        /\ req'[r].pc \notin {"write", "commitTouch", "answer"}
    <3>1. CASE Open(r) \/ Opened(r)
      <4>1. PICK pc \in {"open", "openTouch", "create", "touch"} : Goto(r, pc)
        BY <3>1 DEF Open, Opened
      <4> QED
        BY <4>1 DEF Goto, BaseInv, TypeOK
    <3>2. CASE Locked(r)
      BY <3>2 DEF Locked, Fail, Free, Request, BaseInv, TypeOK
    <3> QED
      BY <1>2, <3>1, <3>2
  <2> QED
    BY <1>1, <2>1, <2>2
<1>3. ASSUME NEW c \in Clients, Ask(c) PROVE TouchesMeet' /\ UsesOK'
  <2>1. UNCHANGED <<holder, committed, dirty, served, overlapped>>
    BY <1>3 DEF Ask, server, history
  <2>2. PICK r \in Requests : \E new : req' = [req EXCEPT ![r] = new]
                                       /\ new.pc \in {"create", "touch"}
    BY <1>3, AskKeeps
  <2>3. \A o \in Requests : \/ req'[o] = req[o]
                            \/ req'[o].pc \notin {"write", "commitTouch", "answer"}
    BY <2>2 DEF BaseInv, TypeOK
  <2> QED
    BY <1>1, <2>1, <2>3
<1>4. ASSUME NEW c \in Clients, Switch(c) \/ GiveUp(c) PROVE TouchesMeet' /\ UsesOK'
  BY <1>1, <1>4, CliKeeps
<1>5. ASSUME NEW r \in Requests, InsertSession(r) PROVE TouchesMeet' /\ UsesOK'
  <2>1. PICK n \in SessionIds \ DOMAIN View(current) :
          /\ dirty' = [t \in DOMAIN View(current) \union {n} |->
                         IF t = n THEN Row(0, None, {}) ELSE View(current)[t]]
          /\ req' = [req EXCEPT ![r].session = n, ![r].connection = current, ![r].pc = "commit"]
    BY <1>5 DEF InsertSession
  <2>2. /\ MayWrite(current) /\ holder' = current /\ UNCHANGED <<committed, served, overlapped>>
    BY <1>5 DEF InsertSession, history
  <2>3. View(current) = Latest /\ current # None /\ Latest' = dirty' /\ holder \in {None, current}
    BY <2>2, WriterSeesLatest DEF Latest, MayWrite
  <2>4. \A s \in SessionIds, a \in Agents :
          /\ Has(committed, s, a) => Has(committed, s, a)'
          /\ Has(Latest, s, a) => Has(Latest, s, a)'
    BY <2>1, <2>2, <2>3 DEF Has
  <2>5. /\ \A o \in Requests : o # r => req'[o] = req[o]
        /\ req'[r].pc = "commit"
    BY <2>1 DEF BaseInv, TypeOK
  <2>6. holder' = holder \/ holder = None
    BY <2>2, <2>3
  <2> QED
    BY <2>2, <2>4, <2>5, <2>6, UsesStay
<1>6. CASE UNCHANGED vars
  BY <1>1, <1>6 DEF vars, server, history
<1> QED
  BY <1>2, <1>3, <1>4, <1>5, <1>6, ReadRowUses, CommitUses, WriteRowUses, AnswerUses,
     CrashUses DEF Next

-----------------------------------------------------------------------------
\* Whatever the requests, the CLIs and a crash do, each part of the inductive
\* invariant holds.
THEOREM Invariance == Spec => []IInv
<1>1. Init => IInv
  BY BaseInit, CountsInit, UsesInit DEF IInv
<1>2. IInv /\ [Next]_vars => IInv'
  BY BaseNext, CountsNext, UsesNext DEF IInv
<1> QED
  BY <1>1, <1>2, PTL DEF Spec

\* Every turn a CLI was told of stays counted on disk, for any number of CLIs
\* whose requests overlap, share or lose the connection, and whenever the
\* server crashes. (SQLiteSessionIndexPlugin.touch, and the routes that commit
\* before they answer)
THEOREM TurnsStayCounted == Spec => []TurnsAreCounted
<1>1. IInv => TurnsAreCounted
  BY CountsSuffice DEF IInv
<1> QED
  BY Invariance, <1>1, PTL

\* An agent that was given a turn is among the session's agents on disk, unless
\* its touch overlapped another one of the session: also when the touch's
\* transaction was ended by another request, or the server crashed between its
\* commit and the answer. (SQLiteSessionIndexPlugin.touch)
THEOREM AgentsOnlyLostToOverlap == Spec => []AgentsLostOnlyToOverlap
<1>1. IInv => AgentsLostOnlyToOverlap
  BY DEF IInv, UsesOK, Recorded, AgentsLostOnlyToOverlap
<1> QED
  BY Invariance, <1>1, PTL
==============================================================================
