------------------------ MODULE ConfigurationProofs ------------------------
(***************************************************************************)
(* Proofs about Configuration, for every set of plugins, properties,       *)
(* agents, CLIs and threads of the server and every number of lines and    *)
(* crashes (no proof uses a bound):                                        *)
(*                                                                         *)
(*   - a version a CLI was told of stays in the file, unless two requests  *)
(*     were at work on that file or one was cut off (NoVersionLost);       *)
(*   - between requests the server runs what the files say                 *)
(*     (StoredStaysLive).                                                  *)
(*                                                                         *)
(* Both are about the same thing: the latest history of a scope, which is  *)
(* in the hands of the request that is about to write it, or in the file.  *)
(* The invariant says of it what the file must satisfy when nobody writes. *)
(***************************************************************************)
EXTENDS Configuration, SequenceTheorems, FiniteSetTheorems, TLAPS

(***************************************************************************)
(* The inductive invariant.                                                *)
(***************************************************************************)
IsSequence(s) == s \in Seq({s[i] : i \in DOMAIN s})

IsEntry(e) == e = Entry(e.name, e.enabled, e.props) /\ e.enabled \in BOOLEAN

IsConfig(config) ==
  /\ IsSequence(config)
  /\ \A i \in DOMAIN config : IsEntry(config[i])
  /\ \A i, j \in DOMAIN config : config[i].name = config[j].name => i = j

\* What is stored has no secrets
IsVersion(v) == IsConfig(v.config) /\ Clean(v.config) = v.config

IsHistory(h) == IsSequence(h) /\ \A i \in DOMAIN h : IsVersion(h[i])

Fields == {"pc", "op", "scopes", "body", "target", "payload"}

RequestOK(q) ==
  /\ DOMAIN q = Fields
  /\ q.pc \in {"free", "load", "apply", "open", "fill"}
  /\ q.pc # "free" => q.scopes \in Seq(Scopes) /\ q.scopes # <<>>
  /\ q.op = "put" => IsConfig(q.body)
  /\ q.pc = "apply" => /\ q.op \in {"put", "rollback"} /\ IsConfig(q.body)
                       /\ q.op = "rollback" => Clean(q.body) = q.body
  /\ q.pc \in {"apply", "open", "fill"} => IsHistory(q.payload)
  /\ q.pc \in {"open", "fill"} => q.payload # <<>>

BodyOK(b) ==
  /\ b = [scope |-> b.scope, config |-> b.config]
  /\ b # NoBody => b.scope \in Scopes
  /\ IsConfig(b.config)

ClientOK(x) == x = [request |-> x.request, body |-> x.body] /\ BodyOK(x.body)

FilesOK ==
  /\ file = [s \in Scopes |-> file[s]]
  /\ \A s \in Scopes : file[s] # Torn => IsHistory(file[s])
  /\ \A a \in answered : a[1] \in Scopes

RequestsOK ==
  /\ req = [r \in Requests |-> req[r]]
  /\ \A r \in Requests : RequestOK(req[r])
  /\ ~up => \A r \in Requests : req[r].pc = "free"

ClientsOK == /\ cli = [c \in Clients |-> cli[c]] /\ \A c \in Clients : ClientOK(cli[c])

BindingsOK == bindings = [a \in AgentScopes |-> bindings[a]] /\ up \in BOOLEAN

Types == FilesOK /\ RequestsOK /\ ClientsOK /\ BindingsOK

\* The requests that are to write the file of a scope, and the history that
\* is the file's then, or already
Writers(q, s) == {r \in Requests : q[r].pc \in {"open", "fill"} /\ q[r].scopes[1] = s}

LatestOf(q, f, s) ==
  IF Writers(q, s) = {} THEN f[s] ELSE q[CHOOSE r \in Writers(q, s) : TRUE].payload

Latest(s) == LatestOf(req, file, s)

\* One request at a time is at work on an undisturbed file
Alone ==
  \A r, o \in Requests :
    Busy(r) /\ Busy(o) /\ ScopeOf(r) = ScopeOf(o) /\ ScopeOf(r) \notin disturbed => r = o

\* What a request is about to change is what the file holds
Fresh ==
  \A r \in Requests : req[r].pc = "apply" /\ ScopeOf(r) \notin disturbed =>
    req[r].payload = file[ScopeOf(r)]

Holds(h, a) == a[2] \in DOMAIN h /\ h[a[2]] = a[3]

\* The manager has what the entry says, apart from secrets
InForce(entry) ==
  LET have == record[entry.name] IN
  /\ entry.name \in Known
  /\ have.enabled = entry.enabled
  /\ \A k \in Keys \ Secrets : (have.props[k] = "set") <=> k \in entry.props
  /\ entry.enabled /\ entry.props # {} => running[entry.name] \in {Nobody, have.props}

\* A history that has what CLIs were told of it, and whose last version is live
Agrees(s, h) ==
  /\ \A a \in answered : a[1] = s => Holds(h, a)
  /\ s = "api" => \A i \in DOMAIN Current(h) : InForce(Current(h)[i])
  /\ s \in AgentScopes /\ up => Clean(bindings[s]) = Current(h)

Told == \A s \in Scopes \ disturbed : Agrees(s, Latest(s))

CInv == Types /\ Alone /\ Fresh /\ Told

-----------------------------------------------------------------------------
(* Sequences *)

LEMMA SequenceFacts ==
  ASSUME NEW s, IsSequence(s)
  PROVE  /\ Len(s) \in Nat /\ DOMAIN s = 1 .. Len(s)
         /\ s # <<>> => Len(s) > 0
         /\ Len(s) = 0 => s = <<>>
<1> DEFINE S == {s[i] : i \in DOMAIN s}
<1>1. s \in Seq(S)
  BY DEF IsSequence
<1> HIDE DEF S
<1>2. Len(s) \in Nat /\ DOMAIN s = 1 .. Len(s)
  BY <1>1, LenProperties
<1>3. s # <<>> => Len(s) \in Nat \ {0}
  BY <1>1, EmptySeq
<1> QED
  BY <1>2, <1>3

LEMMA SeqIsSequence ==
  ASSUME NEW S, NEW s \in Seq(S)
  PROVE  IsSequence(s)
<1> DEFINE T == {s[i] : i \in DOMAIN s}
<1>1. Len(s) \in Nat /\ s \in [1 .. Len(s) -> S] /\ DOMAIN s = 1 .. Len(s)
  BY LenProperties
<1>2. s \in [1 .. Len(s) -> T]
  BY <1>1
<1>3. s \in UNION {[1 .. n -> T] : n \in Nat}
  BY <1>1, <1>2
<1>4. s \in Seq(T)
  BY <1>2, <1>1, SeqDef
<1> QED
  BY <1>4 DEF IsSequence

LEMMA FunctionIsSequence ==
  ASSUME NEW n \in Nat, NEW f, f = [i \in 1 .. n |-> f[i]]
  PROVE  IsSequence(f) /\ Len(f) = n /\ DOMAIN f = 1 .. n
<1> DEFINE T == {f[i] : i \in DOMAIN f}
<1>1. f \in [1 .. n -> T]
  OBVIOUS
<1>2. f \in Seq(T)
  BY <1>1, SeqDef
<1>3. Len(f) = n /\ DOMAIN f = 1 .. n
  BY <1>1, <1>2, LenProperties
<1> QED
  BY <1>2, <1>3 DEF IsSequence

LEMMA AppendFacts ==
  ASSUME NEW s, IsSequence(s), NEW e
  PROVE  /\ IsSequence(Append(s, e)) /\ Append(s, e) # <<>>
         /\ Len(Append(s, e)) = Len(s) + 1
         /\ DOMAIN Append(s, e) = 1 .. Len(s) + 1
         /\ \A i \in DOMAIN s : Append(s, e)[i] = s[i]
         /\ Append(s, e)[Len(s) + 1] = e
<1> DEFINE S == {s[i] : i \in DOMAIN s} \union {e}
<1>1. Len(s) \in Nat /\ DOMAIN s = 1 .. Len(s)
  BY SequenceFacts
<1>2. s \in Seq(S)
  <2>1. s \in Seq({s[i] : i \in DOMAIN s})
    BY DEF IsSequence
  <2>2. s \in [1 .. Len(s) -> {s[i] : i \in DOMAIN s}]
    BY <2>1, LenProperties
  <2>3. s \in [1 .. Len(s) -> S]
    BY <2>2
  <2> QED
    BY <1>1, <2>3, SeqDef
<1>3. e \in S
  OBVIOUS
<1> HIDE DEF S
<1>4. /\ Append(s, e) \in Seq(S) /\ Append(s, e) # <<>>
      /\ Len(Append(s, e)) = Len(s) + 1
      /\ \A i \in 1 .. Len(s) : Append(s, e)[i] = s[i]
      /\ Append(s, e)[Len(s) + 1] = e
  BY <1>2, <1>3, AppendProperties
<1>5. IsSequence(Append(s, e))
  BY <1>4, SeqIsSequence
<1>6. DOMAIN Append(s, e) = 1 .. Len(s) + 1
  BY <1>4, <1>5, SequenceFacts
<1> QED
  BY <1>1, <1>4, <1>5, <1>6

LEMMA SingletonFacts ==
  ASSUME NEW e
  PROVE  IsSequence(<<e>>) /\ Len(<<e>>) = 1 /\ <<e>>[1] = e /\ <<e>> # <<>> /\ DOMAIN <<e>> = 1 .. 1
<1>1. <<e>> \in Seq({e})
  OBVIOUS
<1>2. IsSequence(<<e>>)
  BY <1>1, SeqIsSequence
<1> QED
  BY <1>2

LEMMA EmptyIsSequence == IsSequence(<<>>)
<1>1. <<>> \in Seq({})
  OBVIOUS
<1> QED
  BY <1>1, SeqIsSequence

\* The least of some numbers is one of them
LEMMA LeastExists ==
  ASSUME NEW S \in SUBSET Nat, S # {}
  PROVE  Min(S) \in S /\ \A i \in S : Min(S) <= i
<1> DEFINE R == {ss \in Nat \X Nat : ss[1] < ss[2]}
<1>1. OpToRel(<, Nat) = R
  BY Zenon DEF OpToRel
<1>2. IsWellFoundedOn(OpToRel(<, Nat), Nat)
  BY Zenon, NatLessThanWellFounded
<1>3. IsWellFoundedOn(R, Nat)
  BY <1>1, <1>2, Zenon
<1>4. PICK x \in S : \A y \in S : ~(<<y, x>> \in R)
  <2> HIDE DEF R
  <2> QED
    BY <1>3, WFMin, Zenon
<1>5. ASSUME NEW y \in S, y < x
      PROVE  FALSE
  <2>1. <<y, x>> \in Nat \X Nat /\ <<y, x>>[1] = y /\ <<y, x>>[2] = x
    OBVIOUS
  <2>2. <<y, x>> \in R
    BY <2>1, <1>5
  <2> QED
    BY <2>2, <1>4
<1>6. \A y \in S : x <= y
  BY <1>5
<1> QED
  BY <1>6 DEF Min

\* SetToSeq makes a sequence of a finite set
LEMMA SetToSeqFacts ==
  ASSUME NEW S, IsFiniteSet(S)
  PROVE  SetToSeq(S) \in Seq(S)
<1>1. Cardinality(S) \in Nat /\ ExistsBijection(1 .. Cardinality(S), S)
  BY FS_CardinalityType
<1>2. PICK f \in [1 .. Cardinality(S) -> S] : IsInjective(f)
  BY <1>1 DEF ExistsBijection, Bijection, Injection, IsInjective
<1>3. SetToSeq(S) \in [1 .. Cardinality(S) -> S]
  BY <1>2 DEF SetToSeq
<1> QED
  BY <1>1, <1>3, SeqDef

-----------------------------------------------------------------------------
(* Configurations and histories *)

LEMMA EntryFacts ==
  ASSUME NEW name, NEW enabled \in BOOLEAN, NEW props
  PROVE  /\ IsEntry(Entry(name, enabled, props))
         /\ Entry(name, enabled, props).name = name
         /\ Entry(name, enabled, props).enabled = enabled
         /\ Entry(name, enabled, props).props = props
BY DEF IsEntry, Entry

LEMMA EntryChanges ==
  ASSUME NEW e, e = Entry(e.name, e.enabled, e.props), NEW x
  PROVE  /\ [e EXCEPT !.enabled = x] = Entry(e.name, x, e.props)
         /\ [e EXCEPT !.props = x] = Entry(e.name, e.enabled, x)
<1> DEFINE n == e.name
           b == e.enabled
           p == e.props
<1>1. e = [name |-> n, enabled |-> b, props |-> p]
  BY DEF Entry
<1> HIDE DEF n, b, p
<1>2. [e EXCEPT !.enabled = x] = [name |-> n, enabled |-> x, props |-> p]
  BY <1>1
<1>3. [e EXCEPT !.props = x] = [name |-> n, enabled |-> b, props |-> x]
  BY <1>1
<1> QED
  BY <1>2, <1>3 DEF Entry, n, b, p

\* Without its secrets a configuration is still one, and has none
LEMMA CleanFacts ==
  ASSUME NEW c, IsConfig(c)
  PROVE  /\ IsConfig(Clean(c)) /\ Clean(Clean(c)) = Clean(c)
         /\ DOMAIN Clean(c) = DOMAIN c
         /\ \A i \in DOMAIN c : /\ Clean(c)[i].name = c[i].name
                                /\ Clean(c)[i].enabled = c[i].enabled
                                /\ Clean(c)[i].props = c[i].props \ Secrets
<1>1. Len(c) \in Nat /\ DOMAIN c = 1 .. Len(c)
  BY SequenceFacts DEF IsConfig
<1>2. \A i \in DOMAIN c : c[i] = Entry(c[i].name, c[i].enabled, c[i].props) /\ c[i].enabled \in BOOLEAN
  BY DEF IsConfig, IsEntry
<1> DEFINE d == Clean(c)
<1>3. d = [i \in 1 .. Len(c) |-> d[i]] /\ DOMAIN d = DOMAIN c
  BY <1>1 DEF Clean
<1>4. ASSUME NEW i \in DOMAIN c
      PROVE  d[i] = Entry(c[i].name, c[i].enabled, c[i].props \ Secrets)
  <2>1. d[i] = [c[i] EXCEPT !.props = @ \ Secrets]
    BY DEF Clean
  <2>2. c[i] = [name |-> c[i].name, enabled |-> c[i].enabled, props |-> c[i].props]
    BY <1>2 DEF Entry
  <2> QED
    BY <2>1, <2>2 DEF Entry
<1>5. \A i \in DOMAIN c : /\ d[i].name = c[i].name /\ d[i].enabled = c[i].enabled
                          /\ d[i].props = c[i].props \ Secrets /\ IsEntry(d[i])
  <2> SUFFICES ASSUME NEW i \in DOMAIN c
               PROVE  /\ d[i].name = c[i].name /\ d[i].enabled = c[i].enabled
                      /\ d[i].props = c[i].props \ Secrets /\ IsEntry(d[i])
    OBVIOUS
  <2>1. c[i].enabled \in BOOLEAN
    BY <1>2
  <2>2. d[i] = Entry(c[i].name, c[i].enabled, c[i].props \ Secrets)
    BY <1>4
  <2> HIDE DEF d
  <2> QED
    BY <2>1, <2>2, EntryFacts
<1>6. IsSequence(d) /\ DOMAIN d = DOMAIN c
  BY <1>1, <1>3, FunctionIsSequence
<1>7. IsConfig(d)
  <2>1. \A i, j \in DOMAIN c : c[i].name = c[j].name => i = j
    BY DEF IsConfig
  <2> QED
    BY <1>5, <1>6, <2>1 DEF IsConfig
<1>8. Clean(d) = d
  <2>1. Clean(d) = [i \in DOMAIN c |-> [d[i] EXCEPT !.props = @ \ Secrets]]
    BY <1>3 DEF Clean
  <2>2. \A i \in DOMAIN c : [d[i] EXCEPT !.props = @ \ Secrets] = d[i]
    <3> SUFFICES ASSUME NEW i \in DOMAIN c
                 PROVE  [d[i] EXCEPT !.props = @ \ Secrets] = d[i]
      OBVIOUS
    <3>1. d[i] = [name |-> c[i].name, enabled |-> c[i].enabled, props |-> c[i].props \ Secrets]
      BY <1>4 DEF Entry
    <3>2. (c[i].props \ Secrets) \ Secrets = c[i].props \ Secrets
      OBVIOUS
    <3> QED
      BY <3>1, <3>2
  <2>3. d = [i \in DOMAIN c |-> d[i]]
    BY <1>1, <1>3
  <2> HIDE DEF d
  <2> QED
    BY <2>1, <2>2, <2>3
<1> QED
  BY <1>5, <1>6, <1>7, <1>8

LEMMA EmptyConfig == IsConfig(<<>>) /\ Clean(<<>>) = <<>> /\ DOMAIN <<>> = {}
<1>1. DOMAIN <<>> = {}
  OBVIOUS
<1>2. Clean(<<>>) = <<>>
  BY <1>1 DEF Clean
<1> QED
  BY <1>1, <1>2, EmptyIsSequence DEF IsConfig

LEMMA InitHistory ==
  /\ IsHistory(<<>>) /\ Current(<<>>) = <<>>
  /\ IsHistory(<<InitVersion>>) /\ Current(<<InitVersion>>) = <<>> /\ <<InitVersion>> # <<>>
<1>1. InitVersion.config = <<>>
  BY DEF InitVersion, Version
<1>2. IsVersion(InitVersion)
  BY <1>1, EmptyConfig DEF IsVersion
<1>3. IsHistory(<<InitVersion>>) /\ Current(<<InitVersion>>) = <<>> /\ <<InitVersion>> # <<>>
  <2> DEFINE v == InitVersion
  <2>1. v.config = <<>> /\ IsVersion(v)
    BY <1>1, <1>2
  <2> HIDE DEF v
  <2>2. IsSequence(<<v>>) /\ Len(<<v>>) = 1 /\ <<v>>[1] = v /\ <<v>> # <<>> /\ DOMAIN <<v>> = 1 .. 1
    BY SingletonFacts
  <2>3. \A i \in DOMAIN <<v>> : IsVersion(<<v>>[i])
    BY <2>1, <2>2
  <2>4. Current(<<v>>) = <<>>
    BY <2>1, <2>2 DEF Current, Last
  <2> QED
    BY <2>2, <2>3, <2>4 DEF IsHistory, v
<1>4. IsHistory(<<>>) /\ Current(<<>>) = <<>>
  BY EmptyIsSequence, EmptyConfig DEF IsHistory, Current
<1> QED
  BY <1>3, <1>4

LEMMA CurrentFacts ==
  ASSUME NEW h, IsHistory(h)
  PROVE  IsConfig(Current(h)) /\ Clean(Current(h)) = Current(h)
<1>1. CASE h = <<>>
  BY <1>1, EmptyConfig DEF Current
<1>2. CASE h # <<>>
  <2>1. Len(h) \in DOMAIN h
    BY <1>2, SequenceFacts DEF IsHistory
  <2>2. IsVersion(h[Len(h)])
    BY <2>1 DEF IsHistory
  <2> QED
    BY <1>2, <2>2 DEF Current, Last, IsVersion
<1> QED
  BY <1>1, <1>2

LEMMA AppendedFacts ==
  ASSUME NEW h, IsHistory(h), NEW v, IsVersion(v)
  PROVE  /\ IsHistory(Appended(h, v)) /\ Current(Appended(h, v)) = v.config
         /\ Appended(h, v) # <<>>
         /\ \A a : Holds(h, a) => Holds(Appended(h, v), a)
<1> DEFINE g == Append(h, v)
<1>1. Len(h) \in Nat /\ DOMAIN h = 1 .. Len(h)
  BY SequenceFacts DEF IsHistory
<1>2. /\ IsSequence(g) /\ g # <<>> /\ Len(g) = Len(h) + 1 /\ DOMAIN g = 1 .. Len(h) + 1
      /\ \A i \in DOMAIN h : g[i] = h[i]
      /\ g[Len(h) + 1] = v
  BY AppendFacts DEF IsHistory
<1> HIDE DEF g
<1>3. \A i \in DOMAIN g : IsVersion(g[i])
  <2> SUFFICES ASSUME NEW i \in DOMAIN g
               PROVE  IsVersion(g[i])
    OBVIOUS
  <2>1. i \in DOMAIN h \/ i = Len(h) + 1
    BY <1>1, <1>2
  <2> QED
    BY <1>2, <2>1 DEF IsHistory
<1>4. Current(g) = v.config
  BY <1>2 DEF Current, Last
<1>5. \A i \in DOMAIN h : i \in DOMAIN g
  BY <1>1, <1>2
<1>6. \A a : Holds(h, a) => Holds(g, a)
  BY <1>2, <1>5 DEF Holds
<1>7. IsHistory(g)
  BY <1>2, <1>3 DEF IsHistory
<1> QED
  BY <1>2, <1>4, <1>6, <1>7 DEF Appended, g

\* What the CLI sends back is a configuration, whatever it was asked to change
LEMMA ChangedIsConfig ==
  ASSUME NEW c, IsConfig(c), NEW name, NEW words
  PROVE  IsConfig(Changed(c, name, words))
<1>1. Len(c) \in Nat /\ DOMAIN c = 1 .. Len(c) /\ IsSequence(c)
  BY SequenceFacts DEF IsConfig
<1> DEFINE old == IF name \in Names(c) THEN c[Find(c, name)] ELSE Entry(name, TRUE, {})
           keys == {KeyOf[words[i]] : i \in DOMAIN words}
           new == CASE words = <<"enable">> -> [old EXCEPT !.enabled = TRUE]
                    [] words = <<"disable">> -> [old EXCEPT !.enabled = FALSE]
                    [] OTHER -> [old EXCEPT !.props = @ \union keys]
<1>2. name \in Names(c) => Find(c, name) \in DOMAIN c /\ c[Find(c, name)].name = name
  BY DEF Names, Find
<1>3. IsEntry(old) /\ old.name = name
  <2>1. CASE name \in Names(c)
    BY <2>1, <1>2 DEF IsConfig
  <2>2. CASE name \notin Names(c)
    BY <2>2, EntryFacts
  <2> QED
    BY <2>1, <2>2
<1>4. IsEntry(new) /\ new.name = name
  <2> HIDE DEF old, keys
  <2>1. old = [name |-> name, enabled |-> old.enabled, props |-> old.props] /\ old.enabled \in BOOLEAN
    BY <1>3 DEF IsEntry, Entry
  <2>2. [old EXCEPT !.enabled = TRUE] = Entry(name, TRUE, old.props)
    BY <1>3, EntryChanges DEF IsEntry
  <2>3. [old EXCEPT !.enabled = FALSE] = Entry(name, FALSE, old.props)
    BY <1>3, EntryChanges DEF IsEntry
  <2>4. [old EXCEPT !.props = @ \union keys] = Entry(name, old.enabled, old.props \union keys)
    BY <1>3, EntryChanges DEF IsEntry
  <2>5. \/ new = Entry(name, TRUE, old.props) \/ new = Entry(name, FALSE, old.props)
        \/ new = Entry(name, old.enabled, old.props \union keys)
    <3> HIDE DEF new
    <3>1. words # <<"enable">> \/ words # <<"disable">>
      OBVIOUS
    <3>2. CASE words = <<"enable">>
      BY <3>1, <3>2, <2>2 DEF new
    <3>3. CASE words = <<"disable">>
      BY <3>1, <3>3, <2>3 DEF new
    <3>4. CASE words # <<"enable">> /\ words # <<"disable">>
      BY <3>4, <2>4 DEF new
    <3> QED
      BY <3>2, <3>3, <3>4
  <2> HIDE DEF new
  <2>6. \A x \in BOOLEAN : \A p : new = Entry(name, x, p) => IsEntry(new) /\ new.name = name
    BY EntryFacts
  <2>7. TRUE \in BOOLEAN /\ FALSE \in BOOLEAN
    OBVIOUS
  <2> QED
    BY <2>1, <2>5, <2>6, <2>7
<1> DEFINE d == Changed(c, name, words)
<1>5. d = IF name \in Names(c) THEN [c EXCEPT ![Find(c, name)] = new] ELSE Append(c, new)
  BY DEF Changed
<1> HIDE DEF old, keys, new, d
<1>6. CASE name \in Names(c)
  <2> DEFINE k == Find(c, name)
  <2>1. k \in DOMAIN c /\ c[k].name = name
    BY <1>2, <1>6
  <2>2. d = [c EXCEPT ![k] = new]
    BY <1>5, <1>6
  <2> HIDE DEF k
  <2>3. c \in [1 .. Len(c) -> {c[i] : i \in DOMAIN c}]
    BY <1>1, LenProperties DEF IsSequence
  <2>4. /\ d = [i \in 1 .. Len(c) |-> d[i]]
        /\ \A i \in DOMAIN c : d[i] = IF i = k THEN new ELSE c[i]
    BY <1>1, <2>1, <2>2, <2>3
  <2>5. IsSequence(d) /\ DOMAIN d = DOMAIN c
    BY <1>1, <2>4, FunctionIsSequence
  <2>6. \A i \in DOMAIN d : IsEntry(d[i]) /\ d[i].name = c[i].name
    BY <1>4, <2>1, <2>4, <2>5 DEF IsConfig
  <2>7. \A i, j \in DOMAIN c : c[i].name = c[j].name => i = j
    BY DEF IsConfig
  <2> QED
    BY <2>5, <2>6, <2>7 DEF IsConfig, d
<1>7. CASE name \notin Names(c)
  <2>1. /\ IsSequence(d) /\ DOMAIN d = 1 .. Len(c) + 1
        /\ \A i \in DOMAIN c : d[i] = c[i]
        /\ d[Len(c) + 1] = new
    BY <1>1, <1>5, <1>7, AppendFacts
  <2>2. \A i \in DOMAIN d : i \in DOMAIN c \/ i = Len(c) + 1
    BY <1>1, <2>1
  <2>3. \A i \in DOMAIN c : c[i].name # name
    BY <1>7 DEF Names
  <2>4. \A i \in DOMAIN d : IsEntry(d[i])
    BY <1>4, <2>1, <2>2 DEF IsConfig
  <2>5. \A i, j \in DOMAIN c : c[i].name = c[j].name => i = j
    BY DEF IsConfig
  <2>6. \A i, j \in DOMAIN d : d[i].name = d[j].name => i = j
    BY <1>4, <2>1, <2>2, <2>3, <2>5
  <2> QED
    BY <2>1, <2>4, <2>6 DEF IsConfig, d
<1> QED
  BY <1>6, <1>7

-----------------------------------------------------------------------------
(* apply_config *)

LEMMA ReplacedFacts ==
  ASSUME NEW old, NEW e
  PROVE  \A k \in Keys : (Replaced(old, e)[k] = "set") <=> k \in e.props
BY DEF Replaced, Props

\* A configuration that is accepted is in force afterwards, for each of its
\* entries, and without its secrets as it is stored
LEMMA AppliedIsInForce ==
  ASSUME NEW c, IsConfig(c), Applies(c), ApplyConfig(c)
  PROVE  \A i \in DOMAIN Clean(c) : InForce(Clean(c)[i])'
<1>1. Len(c) \in Nat /\ DOMAIN c = 1 .. Len(c) /\ IsSequence(c)
  BY SequenceFacts DEF IsConfig
<1> DEFINE done == SubSeq(c, 1, Len(c))
<1>2. \A i \in DOMAIN c : ~Refuses(c[i]) /\ c[i].name \in Known
  BY DEF Applies, Refuses
<1>3. {i \in DOMAIN c : Refuses(c[i])} = {}
  BY <1>2
<1>4. /\ record' = [p \in Known |->
             IF p \in Names(done) THEN UpdateRecord(done[Find(done, p)]) ELSE record[p]]
      /\ \A p \in Names(done) \intersect Known : running'[p] = UpdateRunning(done[Find(done, p)])
  <2>1. (Len(c) + 1) - 1 = Len(c)
    BY <1>1
  <2> QED
    BY <1>3, <2>1 DEF ApplyConfig
<1>5. /\ DOMAIN done = DOMAIN c /\ \A i \in DOMAIN c : done[i] = c[i]
  <2>1. \A i \in 1 .. Len(c) : c[i] \in {c[j] : j \in DOMAIN c}
    BY <1>1
  <2>2. /\ done \in Seq({c[j] : j \in DOMAIN c})
        /\ Len(done) = Len(c)
        /\ \A i \in 1 .. Len(c) : done[i] = c[i]
    BY <1>1, <2>1, SubSeqProperties, Z3
  <2>3. DOMAIN done = 1 .. Len(done)
    BY <2>2, LenProperties
  <2> QED
    BY <1>1, <2>2, <2>3
<1> HIDE DEF done
<1>6. ASSUME NEW i \in DOMAIN c
      PROVE  InForce(Clean(c)[i])'
  <2> DEFINE e == c[i]
             d == Clean(c)[i]
             p == e.name
  <2>1. p \in Names(done) /\ p \in Known
    BY <1>2, <1>5 DEF Names
  <2>2. Find(done, p) = i
    <3>1. \A j \in DOMAIN done : done[j].name = p => j = i
      BY <1>5 DEF IsConfig
    <3>2. i \in DOMAIN done /\ done[i].name = p
      BY <1>5
    <3> HIDE DEF p
    <3> QED
      BY <3>1, <3>2 DEF Find
  <2>3. done[Find(done, p)] = e
    BY <2>2, <1>5
  <2>4. record'[p] = UpdateRecord(e) /\ running'[p] = UpdateRunning(e)
    BY <1>4, <2>1, <2>3
  <2>5. d.name = p /\ d.enabled = e.enabled /\ d.props = e.props \ Secrets /\ e.enabled \in BOOLEAN
    BY CleanFacts DEF IsConfig, IsEntry
  <2>6. record'[p].enabled = e.enabled /\ record'[p].props = UpdateRecord(e).props
        /\ UpdateRecord(e).props = Replaced(record[p].props, e)
    BY <2>4 DEF UpdateRecord
  <2>7. \A k \in Keys \ Secrets : (record'[p].props[k] = "set") <=> k \in d.props
    BY <2>5, <2>6, ReplacedFacts
  <2>8. d.enabled /\ d.props # {} => running'[p] = record'[p].props
    <3>1. CASE e.enabled /\ e.props # {}
      <4>1. ~record[p].enabled \/ Rebuilds(e)
        BY <3>1 DEF Rebuilds
      <4>2. UpdateRunning(e) = UpdateRecord(e).props
        BY <3>1, <4>1 DEF UpdateRunning
      <4> QED
        BY <4>2, <2>4, <2>6
    <3>2. CASE ~(e.enabled /\ e.props # {})
      BY <3>2, <2>5
    <3> QED
      BY <3>1, <3>2
  <2> HIDE DEF e, d, p
  <2>9. d.name = p /\ p \in Known /\ record'[p].enabled = d.enabled
    BY <2>1, <2>5, <2>6
  <2> QED
    BY <2>7, <2>8, <2>9 DEF InForce, d
<1>7. DOMAIN Clean(c) = DOMAIN c
  BY CleanFacts
<1> QED
  BY <1>6, <1>7

\* A configuration that is refused leaves in force what is stored, if the part
\* that took effect is what is stored
LEMMA RefusedStaysInForce ==
  ASSUME NEW c, IsConfig(c), ~Applies(c), ApplyConfig(c),
         NEW h, IsHistory(h), ~HalfApplied(c, h),
         \A i \in DOMAIN Current(h) : InForce(Current(h)[i])
  PROVE  \A i \in DOMAIN Current(h) : InForce(Current(h)[i])'
<1>1. Len(c) \in Nat /\ DOMAIN c = 1 .. Len(c) /\ IsSequence(c)
  BY SequenceFacts DEF IsConfig
<1> DEFINE refused == {i \in DOMAIN c : Refuses(c[i])}
           stop == Min(refused)
           done == SubSeq(c, 1, stop - 1)
           g == Current(h)
<1>2. refused # {} /\ refused \in SUBSET Nat
  BY <1>1 DEF Applies
<1>3. stop \in DOMAIN c /\ Refuses(c[stop]) /\ stop \in Nat /\ \A j \in 1 .. stop - 1 : ~Refuses(c[j])
  <2>1. stop \in refused /\ \A i \in refused : stop <= i
    <3> HIDE DEF refused
    <3> QED
      BY <1>2, LeastExists
  <2>2. stop \in DOMAIN c /\ Refuses(c[stop])
    BY <2>1
  <2> HIDE DEF stop
  <2>3. stop \in Nat /\ stop <= Len(c)
    BY <2>2, <1>1
  <2>4. ASSUME NEW j \in 1 .. stop - 1
        PROVE  ~Refuses(c[j])
    <3>1. j \in DOMAIN c /\ ~(stop <= j)
      BY <2>3, <1>1
    <3> QED
      BY <2>1, <3>1
  <2> QED
    BY <2>2, <2>3, <2>4
<1>4. /\ record' = [p \in Known |->
             IF p \in Names(done) THEN UpdateRecord(done[Find(done, p)]) ELSE record[p]]
      /\ running' = [p \in Known |->
             IF p \in Names(done) THEN UpdateRunning(done[Find(done, p)])
             ELSE IF refused # {} /\ c[stop].name = p THEN Nobody
             ELSE running[p]]
  BY <1>2 DEF ApplyConfig
<1> HIDE DEF refused, stop
<1>5. DOMAIN done = 1 .. stop - 1 /\ \A i \in DOMAIN done : done[i] = c[i] /\ i \in DOMAIN c
  <2>1. stop - 1 \in Nat /\ stop - 1 <= Len(c)
    BY <1>1, <1>3
  <2>2. \A i \in 1 .. stop - 1 : c[i] \in {c[j] : j \in DOMAIN c}
    BY <1>1, <2>1
  <2>3. /\ done \in Seq({c[j] : j \in DOMAIN c})
        /\ Len(done) = IF 1 <= stop - 1 THEN (stop - 1) - 1 + 1 ELSE 0
        /\ \A i \in 1 .. (stop - 1) - 1 + 1 : done[i] = c[1 + i - 1]
    BY <2>1, <2>2, SubSeqProperties, Z3
  <2>4. DOMAIN done = 1 .. Len(done)
    BY <2>3, LenProperties
  <2> HIDE DEF done
  <2>5. DOMAIN done = 1 .. stop - 1
    BY <2>1, <2>3, <2>4
  <2>6. \A i \in 1 .. stop - 1 : done[i] = c[i] /\ i \in DOMAIN c
    BY <1>1, <2>1, <2>3
  <2> QED
    BY <2>5, <2>6
<1> HIDE DEF done
<1>6. IsConfig(g) /\ \A m, n \in DOMAIN g : g[m].name = g[n].name => m = n
  BY CurrentFacts DEF IsConfig
<1>7. \A i \in DOMAIN done : Clean(c)[i] \in Range(g) /\ ~Refuses(c[i])
  <2> SUFFICES ASSUME NEW i \in DOMAIN done
               PROVE  Clean(c)[i] \in Range(g) /\ ~Refuses(c[i])
    OBVIOUS
  <2>1. \A j \in 1 .. i : j \in 1 .. stop - 1
    BY <1>3, <1>5
  <2>2. \A j \in 1 .. i : ~Refuses(c[j])
    BY <1>3, <2>1
  <2>3. i \in 1 .. i
    BY <1>3, <1>5
  <2> QED
    BY <1>5, <2>2, <2>3 DEF HalfApplied
<1> HIDE DEF g
<1>8. ASSUME NEW n \in DOMAIN g
      PROVE  InForce(g[n])'
  <2> DEFINE e == g[n]
             p == e.name
  <2>1. /\ p \in Known /\ record[p].enabled = e.enabled
        /\ \A k \in Keys \ Secrets : (record[p].props[k] = "set") <=> k \in e.props
        /\ e.enabled /\ e.props # {} => running[p] \in {Nobody, record[p].props}
    BY DEF InForce, g
  <2>2. CASE p \notin Names(done)
    <3>1. record'[p] = record[p] /\ running'[p] \in {Nobody, running[p]}
      BY <1>4, <2>1, <2>2
    <3> QED
      BY <2>1, <3>1 DEF InForce
  <2>3. CASE p \in Names(done)
    <3> DEFINE i == Find(done, p)
               b == c[i]
    <3>1. i \in DOMAIN done /\ done[i].name = p
      BY <2>3 DEF Names, Find
    <3>2. i \in DOMAIN c /\ done[i] = b /\ b.name = p
      BY <3>1, <1>5
    <3>3. record'[p] = UpdateRecord(b) /\ running'[p] = UpdateRunning(b)
      BY <1>4, <2>1, <2>3, <3>2
    <3>4. Clean(c)[i] = e
      <4>1. PICK m \in DOMAIN g : g[m] = Clean(c)[i]
        BY <3>1, <1>7 DEF Range
      <4>2. g[m].name = p
        BY <4>1, <3>2, CleanFacts
      <4> QED
        BY <4>1, <4>2, <1>6
    <3>5. e.enabled = b.enabled /\ e.props = b.props \ Secrets
      BY <3>2, <3>4, CleanFacts
    <3> HIDE DEF i
    <3>6. /\ record'[p].enabled = e.enabled
          /\ record'[p].props = UpdateRecord(b).props
          /\ UpdateRecord(b).props = Replaced(record[p].props, b)
      BY <3>2, <3>3, <3>5 DEF UpdateRecord
    <3>7. \A k \in Keys \ Secrets : (record'[p].props[k] = "set") <=> k \in e.props
      BY <3>5, <3>6, ReplacedFacts
    <3>8. e.enabled /\ e.props # {} => running'[p] = record'[p].props
      <4>1. CASE e.enabled /\ e.props # {}
        <5>1. b.enabled /\ b.props # {}
          BY <4>1, <3>5
        <5>2. ~record[p].enabled \/ Rebuilds(b)
          BY <5>1, <3>2 DEF Rebuilds
        <5>3. UpdateRunning(b) = UpdateRecord(b).props
          BY <5>1, <5>2, <3>2 DEF UpdateRunning
        <5> QED
          BY <5>3, <3>3, <3>6
      <4> QED
        BY <4>1
    <3> HIDE DEF b, e, p
    <3>9. e.name = p
      BY DEF p
    <3> QED
      BY <2>1, <3>6, <3>7, <3>8, <3>9 DEF InForce, e
  <2> QED
    BY <2>2, <2>3
<1> QED
  BY <1>8 DEF g

-----------------------------------------------------------------------------
(* Requests and their CLIs *)

LEMMA FreeOK == RequestOK(Free) /\ Free.pc = "free" /\ DOMAIN Free = Fields
<1>1. DOMAIN Free = Fields /\ Free.pc = "free" /\ Free.body = <<>>
  BY DEF Free, Fields
<1> QED
  BY <1>1, EmptyConfig DEF RequestOK

LEMMA HandlerOK ==
  ASSUME NEW op, NEW scopes \in Seq(Scopes), scopes # <<>>, NEW body, NEW target,
         op = "put" => IsConfig(body)
  PROVE  RequestOK(Handler(op, scopes, body, target)) /\ Handler(op, scopes, body, target).pc = "load"
<1> DEFINE h == Handler(op, scopes, body, target)
<1>1. DOMAIN h = Fields /\ h.pc = "load" /\ h.op = op /\ h.scopes = scopes /\ h.body = body
  BY FreeOK DEF Handler, Fields
<1> HIDE DEF h
<1>2. RequestOK(h)
  BY <1>1 DEF RequestOK
<1> QED
  BY <1>1, <1>2 DEF h

LEMMA NoBodyOK == BodyOK(NoBody)
<1>1. NoBody = [scope |-> NoBody.scope, config |-> NoBody.config] /\ NoBody.config = <<>>
  BY DEF NoBody
<1> QED
  BY <1>1, EmptyConfig DEF BodyOK

LEMMA ScopeIsScope ==
  ASSUME RequestsOK, NEW r \in Requests, req[r].pc # "free"
  PROVE  /\ ScopeOf(r) \in Scopes /\ req[r].scopes \in Seq(Scopes) /\ req[r].scopes # <<>>
         /\ up
<1>1. req[r].scopes \in Seq(Scopes) /\ req[r].scopes # <<>>
  BY DEF RequestsOK, RequestOK
<1>2. Len(req[r].scopes) \in Nat \ {0}
  BY <1>1, EmptySeq
<1>3. ScopeOf(r) \in Scopes
  BY <1>1, <1>2, ElementOfSeq DEF ScopeOf
<1> QED
  BY <1>1, <1>3 DEF RequestsOK

\* One request changes
LEMMA RequestMoves ==
  ASSUME RequestsOK, NEW r \in Requests, NEW n, RequestOK(n),
         req' = [req EXCEPT ![r] = n], up' = up, up
  PROVE  RequestsOK' /\ \A o \in Requests : req'[o] = IF o = r THEN n ELSE req[o]
<1>1. \A o \in Requests : req'[o] = IF o = r THEN n ELSE req[o]
  BY DEF RequestsOK
<1>2. req' = [o \in Requests |-> req'[o]]
  BY <1>1 DEF RequestsOK
<1>3. \A o \in Requests : RequestOK(req'[o])
  BY <1>1 DEF RequestsOK
<1> QED
  BY <1>1, <1>2, <1>3 DEF RequestsOK

LEMMA EndsFacts ==
  ASSUME ClientsOK, NEW r \in Requests, NEW b, BodyOK(b), Ends(r, b)
  PROVE  ClientsOK' /\ req' = [req EXCEPT ![r] = Free]
<1>1. cli' = [c \in Clients |-> IF cli[c].request = r THEN [request |-> Nobody, body |-> b] ELSE cli[c]]
  BY DEF Ends
<1>2. ClientOK([request |-> Nobody, body |-> b])
  BY DEF ClientOK
<1>3. ASSUME NEW c \in Clients PROVE ClientOK(cli'[c])
  BY <1>1, <1>2 DEF ClientsOK
<1>4. cli' = [c \in Clients |-> cli'[c]]
  BY <1>1
<1> QED
  BY <1>3, <1>4 DEF ClientsOK, Ends

LEMMA ToPutOK ==
  ASSUME RequestsOK, NEW r \in Requests, req[r].pc # "free", NEW c, IsConfig(c)
  PROVE  BodyOK(ToPut(r, c))
<1> DEFINE d == Changed(c, req[r].body[1], Tail(req[r].body))
           b == [scope |-> ScopeOf(r), config |-> d]
<1>1. CASE req[r].op = "update"
  <2>1. ToPut(r, c) = b
    BY <1>1 DEF ToPut
  <2>2. IsConfig(d)
    BY ChangedIsConfig
  <2>3. ScopeOf(r) \in Scopes
    BY ScopeIsScope
  <2> HIDE DEF d
  <2>4. BodyOK(b)
    BY <2>2, <2>3 DEF BodyOK
  <2> QED
    BY <2>1, <2>4
<1>2. CASE req[r].op # "update"
  BY <1>2, NoBodyOK DEF ToPut
<1> QED
  BY <1>1, <1>2

\* What a handler makes of the versions it has loaded
LEMMA LoadedFacts ==
  ASSUME RequestsOK, ClientsOK, NEW r \in Requests, req[r].pc \in {"load", "fill"},
         NEW h, IsHistory(h), Loaded(r, h)
  PROVE  /\ ClientsOK'
         /\ \E n : /\ RequestOK(n) /\ req' = [req EXCEPT ![r] = n]
                   /\ \/ /\ n.pc = "apply" /\ n.payload = h /\ n.scopes = req[r].scopes
                         /\ Enters(r)
                      \/ n.pc \in {"free", "load"} /\ disturbed' = disturbed
<1> DEFINE q == req[r]
<1>1. /\ DOMAIN q = Fields
      /\ q.scopes \in Seq(Scopes) /\ q.scopes # <<>>
      /\ q.op = "put" => IsConfig(q.body)
  BY DEF RequestsOK, RequestOK
<1>2. CASE q.op = "put"
  <2> DEFINE n == [q EXCEPT !.pc = "apply", !.payload = h]
  <2>1. req' = [req EXCEPT ![r] = n] /\ Enters(r) /\ cli' = cli
    BY <1>2 DEF Loaded
  <2> HIDE DEF q
  <2>2. /\ DOMAIN n = Fields
        /\ n.pc = "apply" /\ n.op = q.op /\ n.scopes = q.scopes /\ n.body = q.body /\ n.payload = h
    BY <1>1 DEF Fields
  <2> HIDE DEF n
  <2>3. n.op = "put"
    BY <2>2, <1>2 DEF q
  <2>4. RequestOK(n)
    BY <2>2, <2>3, <1>1 DEF RequestOK, q
  <2>5. ClientsOK'
    BY <2>1 DEF ClientsOK
  <2> QED
    BY <2>1, <2>2, <2>4, <2>5 DEF q
<1>3. CASE q.op = "rollback" /\ q.target \in DOMAIN h
  <2> DEFINE b == h[q.target].config
             n == [q EXCEPT !.pc = "apply", !.payload = h, !.body = b]
  <2>1. req' = [req EXCEPT ![r] = n] /\ Enters(r) /\ cli' = cli
    BY <1>3 DEF Loaded
  <2>2. IsConfig(b) /\ Clean(b) = b
    BY <1>3 DEF IsHistory, IsVersion
  <2> HIDE DEF b, q
  <2>3. /\ DOMAIN n = Fields
        /\ n.pc = "apply" /\ n.op = q.op /\ n.scopes = q.scopes /\ n.body = b /\ n.payload = h
    BY <1>1 DEF Fields
  <2> HIDE DEF n
  <2>4. n.op = "rollback"
    BY <2>3, <1>3 DEF q
  <2>5. RequestOK(n)
    BY <2>2, <2>3, <2>4, <1>1 DEF RequestOK, q
  <2>6. ClientsOK'
    BY <2>1 DEF ClientsOK
  <2> QED
    BY <2>1, <2>3, <2>5, <2>6 DEF q
<1>4. CASE q.op \notin {"put", "rollback"} /\ Len(q.scopes) > 1
  <2> DEFINE n == [q EXCEPT !.pc = "load", !.scopes = Tail(@)]
  <2>1. req' = [req EXCEPT ![r] = n] /\ cli' = cli /\ disturbed' = disturbed
    BY <1>4 DEF Loaded
  <2> HIDE DEF q
  <2>2. DOMAIN n = Fields /\ n.pc = "load" /\ n.op = q.op /\ n.scopes = Tail(q.scopes)
    BY <1>1 DEF Fields
  <2> HIDE DEF n
  <2>3. Tail(q.scopes) \in Seq(Scopes) /\ Len(Tail(q.scopes)) = Len(q.scopes) - 1 /\ Len(q.scopes) \in Nat
    BY <1>1, HeadTailProperties, LenProperties
  <2>4. Tail(q.scopes) # <<>>
    <3> DEFINE t == Tail(q.scopes)
    <3>1. Len(q.scopes) > 1
      BY <1>4 DEF q
    <3>2. Len(t) > 0
      BY <3>1, <2>3
    <3> HIDE DEF t
    <3>3. t # <<>>
      BY <3>2
    <3> QED
      BY <3>3 DEF t
  <2>5. n.op # "put"
    BY <2>2, <1>4 DEF q
  <2>6. RequestOK(n)
    BY <2>2, <2>3, <2>4, <2>5 DEF RequestOK
  <2>7. ClientsOK'
    BY <2>1 DEF ClientsOK
  <2> QED
    BY <2>1, <2>2, <2>6, <2>7
<1>5. CASE /\ q.op # "put" /\ ~(q.op = "rollback" /\ q.target \in DOMAIN h)
           /\ ~(q.op \notin {"put", "rollback"} /\ Len(q.scopes) > 1)
  <2>1. Ends(r, ToPut(r, Current(h))) /\ disturbed' = disturbed
    BY <1>5 DEF Loaded
  <2>2. BodyOK(ToPut(r, Current(h)))
    BY CurrentFacts, ToPutOK
  <2> QED
    BY <2>1, <2>2, EndsFacts, FreeOK
<1> QED
  BY <1>2, <1>3, <1>4, <1>5

-----------------------------------------------------------------------------
(* The latest history of a scope *)

LEMMA LatestSame ==
  ASSUME NEW q, NEW p, NEW f, NEW g, NEW s, Writers(q, s) = Writers(p, s),
         \A r \in Writers(q, s) : q[r].payload = p[r].payload,
         Writers(q, s) = {} => f[s] = g[s]
  PROVE  LatestOf(q, f, s) = LatestOf(p, g, s)
<1>1. CASE Writers(q, s) = {}
  BY <1>1 DEF LatestOf
<1>2. CASE Writers(q, s) # {}
  <2> DEFINE o == CHOOSE r \in Writers(q, s) : TRUE
  <2>1. o \in Writers(q, s)
    BY <1>2
  <2>2. LatestOf(q, f, s) = q[o].payload /\ LatestOf(p, g, s) = p[o].payload
    BY <1>2 DEF LatestOf
  <2> QED
    BY <2>1, <2>2
<1> QED
  BY <1>1, <1>2

LEMMA LatestOne ==
  ASSUME NEW q, NEW f, NEW s, NEW r, Writers(q, s) = {r}
  PROVE  LatestOf(q, f, s) = q[r].payload
BY DEF LatestOf

LEMMA LatestNone ==
  ASSUME NEW q, NEW f, NEW s, Writers(q, s) = {}
  PROVE  LatestOf(q, f, s) = f[s]
BY DEF LatestOf

LEMMA LatestKept ==
  ASSUME NEW s, Writers(req', s) = Writers(req, s),
         \A o \in Writers(req', s) : req'[o].payload = req[o].payload,
         Writers(req', s) = {} => file'[s] = file[s]
  PROVE  Latest(s)' = Latest(s)
<1>1. LatestOf(req', file', s) = LatestOf(req, file, s)
  BY LatestSame
<1> QED
  BY <1>1 DEF Latest

LEMMA LatestInHand ==
  ASSUME NEW s, NEW r, Writers(req', s) = {r}
  PROVE  Latest(s)' = req'[r].payload
<1>1. LatestOf(req', file', s) = req'[r].payload
  BY LatestOne
<1> QED
  BY <1>1 DEF Latest

LEMMA OnlyWriter ==
  ASSUME Alone, NEW r \in Requests, Busy(r), ScopeOf(r) \notin disturbed
  PROVE  /\ Writers(req, ScopeOf(r)) \subseteq {r}
         /\ req[r].pc = "apply" => Writers(req, ScopeOf(r)) = {}
         /\ req[r].pc \in {"open", "fill"} => Writers(req, ScopeOf(r)) = {r}
<1>1. \A o \in Writers(req, ScopeOf(r)) : o = r /\ req[o].pc \in {"open", "fill"}
  BY DEF Writers, Alone, Busy, ScopeOf
<1>2. req[r].pc \in {"open", "fill"} => r \in Writers(req, ScopeOf(r))
  BY DEF Writers, ScopeOf
<1> QED
  BY <1>1, <1>2

\* Nothing that is promised changes
LEMMA ToldSteady ==
  ASSUME Told, UNCHANGED <<server, answered>>, disturbed \subseteq disturbed',
         \A s \in Scopes \ disturbed' : Latest(s)' = Latest(s)
  PROVE  Told'
<1> SUFFICES ASSUME NEW s \in Scopes \ disturbed'
             PROVE  Agrees(s, Latest(s))'
  BY DEF Told
<1>1. Agrees(s, Latest(s))
  BY DEF Told
<1>2. record' = record /\ running' = running /\ bindings' = bindings /\ up' = up /\ answered' = answered
  BY DEF server, manager
<1>3. Latest(s)' = Latest(s)
  OBVIOUS
<1> HIDE DEF Latest
<1> QED
  BY <1>1, <1>2, <1>3 DEF Agrees, InForce

-----------------------------------------------------------------------------
(* The steps *)

LEMMA InitHolds == Init => CInv
<1> SUFFICES ASSUME Init PROVE CInv
  OBVIOUS
<1>1. FilesOK
  BY InitHistory DEF Init, FilesOK
<1>2. RequestsOK /\ \A r \in Requests : req[r].pc = "free"
  BY FreeOK DEF Init, RequestsOK
<1>3. ClientsOK
  <2>1. ClientOK([request |-> Nobody, body |-> NoBody])
    BY NoBodyOK DEF ClientOK
  <2> QED
    BY <2>1 DEF Init, ClientsOK
<1>4. BindingsOK
  BY DEF Init, BindingsOK
<1>5. Alone /\ Fresh
  BY <1>2 DEF Alone, Fresh, Busy
<1>6. \A s \in Scopes : Latest(s) = <<>>
  <2> SUFFICES ASSUME NEW s \in Scopes
               PROVE  Latest(s) = <<>>
    OBVIOUS
  <2>1. Writers(req, s) = {}
    BY <1>2 DEF Writers
  <2> QED
    BY <2>1, LatestNone DEF Latest, Init
<1>7. \A s \in Scopes : Agrees(s, <<>>)
  <2>1. \A s \in AgentScopes : bindings[s] = <<>>
    BY DEF Init
  <2> QED
    BY <2>1, InitHistory, EmptyConfig DEF Agrees, Init
<1>8. Told
  BY <1>6, <1>7 DEF Told
<1> QED
  BY <1>1, <1>2, <1>3, <1>4, <1>5, <1>8 DEF CInv, Types

\* One request changes that is not about to write, and is not then; it may
\* start to work on the file it has read
LEMMA ReaderKeeps ==
  ASSUME CInv, NEW r \in Requests, NEW n, RequestOK(n),
         req' = [req EXCEPT ![r] = n], UNCHANGED <<file, server, answered>>, up,
         req[r].pc \notin {"open", "fill"}, ClientsOK',
         \/ n.pc \in {"free", "load"} /\ disturbed' = disturbed
         \/ /\ n.pc = "apply" /\ n.payload = file[ScopeOf(r)] /\ n.scopes = req[r].scopes
            /\ Enters(r)
  PROVE  CInv'
<1>1. record' = record /\ running' = running /\ bindings' = bindings /\ up' = up /\ file' = file
  BY DEF server, manager
<1>2. RequestsOK' /\ \A o \in Requests : req'[o] = IF o = r THEN n ELSE req[o]
  BY <1>1, RequestMoves DEF CInv, Types
<1>3. Types'
  BY <1>1, <1>2 DEF CInv, Types, FilesOK, BindingsOK
<1>4. disturbed \subseteq disturbed'
  BY DEF Enters
<1>5. Told'
  <2>0. n.pc \notin {"open", "fill"}
    OBVIOUS
  <2>1. ASSUME NEW s \in Scopes \ disturbed' PROVE Latest(s)' = Latest(s)
    <3>1. Writers(req', s) = Writers(req, s)
      BY <1>2, <2>0 DEF Writers
    <3>2. \A o \in Writers(req', s) : req'[o].payload = req[o].payload
      BY <1>2, <2>0 DEF Writers
    <3>3. file'[s] = file[s]
      BY <1>1
    <3> QED
      BY <3>1, <3>2, <3>3, LatestKept
  <2> QED
    BY <1>4, <2>1, ToldSteady DEF CInv
<1>6. CASE n.pc \in {"free", "load"} /\ disturbed' = disturbed
  <2>1. Alone'
    BY <1>2, <1>6 DEF CInv, Alone, Busy, ScopeOf
  <2>2. Fresh'
    BY <1>1, <1>2, <1>6 DEF CInv, Fresh, ScopeOf
  <2> QED
    BY <1>3, <1>5, <2>1, <2>2 DEF CInv
<1>7. CASE /\ n.pc = "apply" /\ n.payload = file[ScopeOf(r)] /\ n.scopes = req[r].scopes
           /\ Enters(r)
  <2>1. \A o \in Requests : ScopeOf(o)' = ScopeOf(o)
    BY <1>2, <1>7 DEF ScopeOf
  <2>2. \A o \in Requests \ {r} : Busy(o)' = Busy(o)
    BY <1>2 DEF Busy
  <2>3. ScopeOf(r) \notin disturbed' =>
          \A o \in Requests \ {r} : ~(Busy(o) /\ ScopeOf(o) = ScopeOf(r))
    BY <1>7 DEF Enters
  <2>4. Alone'
    <3> SUFFICES ASSUME NEW p \in Requests, NEW o \in Requests, p # o,
                        Busy(p)', Busy(o)', ScopeOf(p)' = ScopeOf(o)', (ScopeOf(p) \notin disturbed)'
                 PROVE  FALSE
      BY DEF Alone
    <3>1. ScopeOf(p) = ScopeOf(o) /\ ScopeOf(p) \notin disturbed' /\ ScopeOf(p) \notin disturbed
      BY <1>4, <2>1
    <3>2. CASE p # r /\ o # r
      BY <3>1, <3>2, <2>2 DEF CInv, Alone
    <3>3. CASE p = r
      BY <3>1, <3>3, <2>2, <2>3
    <3>4. CASE o = r
      BY <3>1, <3>4, <2>2, <2>3
    <3> QED
      BY <3>2, <3>3, <3>4
  <2>5. Fresh'
    BY <1>1, <1>2, <1>4, <1>7, <2>1 DEF CInv, Fresh
  <2> QED
    BY <1>3, <1>5, <2>4, <2>5 DEF CInv
<1> QED
  BY <1>6, <1>7

LEMMA LoadKeeps ==
  ASSUME CInv, NEW r \in Requests, Load(r)
  PROVE  CInv'
<1> DEFINE h == file[ScopeOf(r)]
<1>1. req[r].pc = "load" /\ UNCHANGED <<file, server, answered>> /\ up /\ ScopeOf(r) \in Scopes
  BY ScopeIsScope DEF Load, CInv, Types
<1>2. CASE h = Torn
  <2>1. Ends(r, NoBody) /\ disturbed' = disturbed
    BY <1>2 DEF Load
  <2>2. ClientsOK' /\ req' = [req EXCEPT ![r] = Free]
    BY <2>1, NoBodyOK, EndsFacts DEF CInv, Types
  <2> QED
    BY <1>1, <2>1, <2>2, FreeOK, ReaderKeeps
<1>3. CASE h # Torn
  <2>1. Loaded(r, h) /\ IsHistory(h)
    BY <1>1, <1>3 DEF Load, CInv, Types, FilesOK
  <2>2. PICK n : /\ RequestOK(n) /\ req' = [req EXCEPT ![r] = n]
                 /\ \/ /\ n.pc = "apply" /\ n.payload = h /\ n.scopes = req[r].scopes
                       /\ Enters(r)
                    \/ n.pc \in {"free", "load"} /\ disturbed' = disturbed
    BY <1>1, <2>1, LoadedFacts DEF CInv, Types
  <2>3. ClientsOK'
    BY <1>1, <2>1, LoadedFacts DEF CInv, Types
  <2> QED
    BY <1>1, <2>2, <2>3, ReaderKeeps
<1> QED
  BY <1>2, <1>3

\* The first version of a file is in hand, and says as much as no file
LEMMA LoadMissingKeeps ==
  ASSUME CInv, NEW r \in Requests, LoadMissing(r)
  PROVE  CInv'
<1> DEFINE s == ScopeOf(r)
           n == [req[r] EXCEPT !.pc = "open", !.payload = <<InitVersion>>]
<1>1. /\ req[r].pc = "load" /\ file[s] = <<>> /\ req' = [req EXCEPT ![r] = n] /\ Enters(r)
      /\ file' = file /\ record' = record /\ running' = running /\ bindings' = bindings
      /\ up' = up /\ answered' = answered /\ cli' = cli
  BY DEF LoadMissing, server, manager
<1>2. s \in Scopes /\ up
  BY <1>1, ScopeIsScope DEF CInv, Types
<1>3. RequestOK(req[r])
  BY DEF CInv, Types, RequestsOK
<1>4. /\ n.pc = "open" /\ n.payload = <<InitVersion>> /\ n.scopes = req[r].scopes
      /\ DOMAIN n = Fields /\ n.op = req[r].op /\ n.body = req[r].body
  BY <1>3 DEF RequestOK, Fields
<1> HIDE DEF n
<1>5. RequestOK(n)
  BY <1>1, <1>3, <1>4, InitHistory DEF RequestOK
<1>6. RequestsOK' /\ \A o \in Requests : req'[o] = IF o = r THEN n ELSE req[o]
  BY <1>1, <1>2, <1>5, RequestMoves DEF CInv, Types
<1>7. Types'
  BY <1>1, <1>6 DEF CInv, Types, FilesOK, ClientsOK, BindingsOK
<1>8. disturbed \subseteq disturbed'
      /\ (s \notin disturbed' => \A o \in Requests \ {r} : ~(Busy(o) /\ ScopeOf(o) = s))
  BY <1>1 DEF Enters
<1>9. \A o \in Requests : ScopeOf(o)' = ScopeOf(o) /\ (o # r => Busy(o)' = Busy(o))
  BY <1>4, <1>6 DEF ScopeOf, Busy
<1>10. Alone'
  <2> SUFFICES ASSUME NEW p \in Requests, NEW o \in Requests, p # o,
                      Busy(p)', Busy(o)', ScopeOf(p)' = ScopeOf(o)', (ScopeOf(p) \notin disturbed)'
               PROVE  FALSE
    BY DEF Alone
  <2>1. ScopeOf(p) = ScopeOf(o) /\ ScopeOf(p) \notin disturbed' /\ ScopeOf(p) \notin disturbed
    BY <1>8, <1>9
  <2>2. CASE p # r /\ o # r
    BY <2>1, <2>2, <1>9 DEF CInv, Alone
  <2>3. CASE p = r
    BY <2>1, <2>3, <1>8, <1>9
  <2>4. CASE o = r
    BY <2>1, <2>4, <1>8, <1>9
  <2> QED
    BY <2>2, <2>3, <2>4
<1>11. Fresh'
  BY <1>1, <1>4, <1>6, <1>8, <1>9 DEF CInv, Fresh
<1>12. ASSUME NEW t \in Scopes \ disturbed' PROVE Agrees(t, Latest(t))'
  <2>1. Agrees(t, Latest(t))
    BY <1>8 DEF CInv, Told
  <2>2. CASE t = s
    <3>1. Writers(req, s) = {}
      BY <1>1, <1>8, <2>2 DEF Writers, Busy, ScopeOf
    <3>2. Writers(req', s) = {r}
      BY <1>4, <1>6, <3>1 DEF Writers, ScopeOf
    <3>3. Latest(s) = <<>>
      BY <1>1, <3>1, LatestNone DEF Latest
    <3>4. Latest(s)' = <<InitVersion>>
      <4>1. LatestOf(req', file', s) = req'[r].payload
        BY <3>2, LatestOne
      <4>2. Latest(s)' = LatestOf(req', file', s)
        BY <1>9 DEF Latest
      <4> QED
        BY <4>1, <4>2, <1>4, <1>6
    <3>5. Agrees(t, <<>>)
      BY <2>1, <2>2, <3>3
    <3>6. \A a \in answered : a[1] # t
      BY <3>5 DEF Agrees, Holds
    <3>7. Agrees(t, <<InitVersion>>)'
      BY <1>1, <3>5, <3>6, InitHistory DEF Agrees, InForce
    <3> QED
      BY <2>2, <3>4, <3>7, <1>9
  <2>3. CASE t # s
    <3>1. Writers(req', t) = Writers(req, t)
      BY <1>1, <1>4, <1>6, <2>3 DEF Writers, ScopeOf
    <3>2. \A o \in Writers(req', t) : req'[o].payload = req[o].payload
      BY <1>1, <1>6, <3>1 DEF Writers
    <3>3. LatestOf(req', file, t) = LatestOf(req, file, t)
      BY <3>1, <3>2, LatestSame
    <3>4. Latest(t)' = Latest(t)
      BY <1>1, <3>3 DEF Latest
    <3> QED
      BY <1>1, <2>1, <3>4 DEF Agrees, InForce
  <2> QED
    BY <2>2, <2>3
<1> QED
  BY <1>7, <1>10, <1>11, <1>12 DEF CInv, Told

LEMMA OpenFileKeeps ==
  ASSUME CInv, NEW r \in Requests, OpenFile(r)
  PROVE  CInv'
<1> DEFINE s == ScopeOf(r)
           n == [req[r] EXCEPT !.pc = "fill"]
<1>1. /\ req[r].pc = "open" /\ req' = [req EXCEPT ![r] = n]
      /\ file' = [file EXCEPT ![s] = Torn] /\ disturbed' = disturbed
      /\ UNCHANGED <<server, answered>>
      /\ bindings' = bindings /\ up' = up /\ answered' = answered /\ cli' = cli
  BY DEF OpenFile, server, manager
<1>2. s \in Scopes /\ up
  BY <1>1, ScopeIsScope DEF CInv, Types
<1>3. RequestOK(req[r])
  BY DEF CInv, Types, RequestsOK
<1>4. /\ n.pc = "fill" /\ n.payload = req[r].payload /\ n.scopes = req[r].scopes
      /\ DOMAIN n = Fields /\ n.op = req[r].op /\ n.body = req[r].body
  BY <1>3 DEF RequestOK, Fields
<1> HIDE DEF n
<1>5. RequestOK(n)
  BY <1>1, <1>3, <1>4 DEF RequestOK
<1>6. RequestsOK' /\ \A o \in Requests : req'[o] = IF o = r THEN n ELSE req[o]
  BY <1>1, <1>2, <1>5, RequestMoves DEF CInv, Types
<1>7. \A t \in Scopes : file'[t] = IF t = s THEN Torn ELSE file[t]
  BY <1>1 DEF CInv, Types, FilesOK
<1>8. Types'
  <2>1. file' = [t \in Scopes |-> file'[t]]
    BY <1>1 DEF CInv, Types, FilesOK
  <2>2. FilesOK'
    BY <1>1, <1>7, <2>1 DEF CInv, Types, FilesOK
  <2> QED
    BY <1>1, <1>6, <2>2 DEF CInv, Types, ClientsOK, BindingsOK
<1>9. \A o \in Requests : ScopeOf(o)' = ScopeOf(o) /\ Busy(o)' = Busy(o)
  BY <1>1, <1>4, <1>6 DEF ScopeOf, Busy
<1>10. Alone'
  BY <1>1, <1>9 DEF CInv, Alone
<1>11. Fresh'
  <2> SUFFICES ASSUME NEW o \in Requests, (req[o].pc = "apply")', (ScopeOf(o) \notin disturbed)'
               PROVE  (req[o].payload = file[ScopeOf(o)])'
    BY DEF Fresh
  <2>1. o # r /\ req'[o] = req[o] /\ ScopeOf(o) \notin disturbed /\ ScopeOf(o)' = ScopeOf(o)
    BY <1>1, <1>4, <1>6, <1>9
  <2>2. ScopeOf(o) # s
    BY <1>1, <2>1 DEF CInv, Alone, Busy
  <2>3. ScopeOf(o) \in Scopes
    BY <2>1, ScopeIsScope DEF CInv, Types
  <2> QED
    BY <2>1, <2>2, <2>3, <1>7 DEF CInv, Fresh
<1>12. ASSUME NEW t \in Scopes \ disturbed' PROVE Latest(t)' = Latest(t)
  <2>1. Writers(req', t) = Writers(req, t) /\ \A o \in Writers(req', t) : req'[o].payload = req[o].payload
    BY <1>1, <1>4, <1>6 DEF Writers
  <2>2. Writers(req', t) = {} => file'[t] = file[t]
    BY <1>1, <1>7, <2>1 DEF Writers, ScopeOf
  <2>3. LatestOf(req', file', t) = LatestOf(req, file, t)
    BY <2>1, <2>2, LatestSame
  <2> QED
    BY <2>3 DEF Latest
<1>13. Told'
  BY <1>1, <1>12, ToldSteady DEF CInv
<1> QED
  BY <1>8, <1>10, <1>11, <1>13 DEF CInv

\* What is written is what was in hand, and what the CLI is told of is its
\* last version
LEMMA FillFileKeeps ==
  ASSUME CInv, NEW r \in Requests, FillFile(r)
  PROVE  CInv'
<1> DEFINE s == ScopeOf(r)
           h == req[r].payload
           told == <<s, Len(h), Last(h)>>
<1>1. /\ req[r].pc = "fill" /\ file' = [file EXCEPT ![s] = h] /\ UNCHANGED server
      /\ record' = record /\ running' = running /\ bindings' = bindings /\ up' = up
  BY DEF FillFile, server, manager
<1>2. s \in Scopes /\ up
  BY <1>1, ScopeIsScope DEF CInv, Types
<1>3. IsHistory(h) /\ h # <<>>
  BY <1>1 DEF CInv, Types, RequestsOK, RequestOK
<1>4. /\ ClientsOK' /\ answered \subseteq answered' /\ answered' \subseteq answered \union {told}
      /\ \E n : /\ RequestOK(n) /\ req' = [req EXCEPT ![r] = n]
                /\ \/ /\ n.pc = "apply" /\ n.payload = h /\ n.scopes = req[r].scopes
                      /\ Enters(r)
                   \/ n.pc \in {"free", "load"} /\ disturbed' = disturbed
  <2>1. CASE h = <<InitVersion>>
    <3>1. Loaded(r, h) /\ answered' = answered
      BY <2>1 DEF FillFile
    <3> HIDE DEF told
    <3> QED
      BY <1>1, <1>3, <3>1, LoadedFacts DEF CInv, Types
  <2>2. CASE h # <<InitVersion>>
    <3>1. /\ Ends(r, NoBody) /\ disturbed' = disturbed
          /\ answered' = answered \/ answered' = answered \union {told}
      BY <2>2 DEF FillFile
    <3>2. ClientsOK' /\ req' = [req EXCEPT ![r] = Free]
      BY <3>1, NoBodyOK, EndsFacts DEF CInv, Types
    <3> HIDE DEF told
    <3> QED
      BY <3>1, <3>2, FreeOK
  <2> QED
    BY <2>1, <2>2
<1>5. PICK n : /\ RequestOK(n) /\ req' = [req EXCEPT ![r] = n]
               /\ \/ /\ n.pc = "apply" /\ n.payload = h /\ n.scopes = req[r].scopes
                     /\ Enters(r)
                  \/ n.pc \in {"free", "load"} /\ disturbed' = disturbed
  BY <1>4
<1>6. RequestsOK' /\ \A o \in Requests : req'[o] = IF o = r THEN n ELSE req[o]
  BY <1>1, <1>2, <1>5, RequestMoves DEF CInv, Types
<1>7. /\ file' = [t \in Scopes |-> file'[t]]
      /\ \A t \in Scopes : file'[t] = IF t = s THEN h ELSE file[t]
  BY <1>1 DEF CInv, Types, FilesOK
<1>8. Types'
  <2>1. \A a \in answered' : a[1] \in Scopes
    BY <1>2, <1>4 DEF CInv, Types, FilesOK
  <2>2. FilesOK'
    BY <1>3, <1>7, <2>1 DEF CInv, Types, FilesOK
  <2> QED
    BY <1>1, <1>4, <1>6, <2>2 DEF CInv, Types, BindingsOK
<1>9. disturbed \subseteq disturbed'
  BY <1>5 DEF Enters
<1>10. /\ \A o \in Requests \ {r} : ScopeOf(o)' = ScopeOf(o) /\ Busy(o)' = Busy(o)
       /\ Busy(r)' => ScopeOf(r)' = s /\ n.pc = "apply" /\ n.payload = h
  BY <1>5, <1>6 DEF ScopeOf, Busy
<1>11. Busy(r) /\ \A o \in Requests : o # r /\ Busy(o) /\ ScopeOf(o) = s => s \in disturbed
  BY <1>1 DEF CInv, Alone, Busy
<1>12. Alone'
  <2> SUFFICES ASSUME NEW p \in Requests, NEW o \in Requests, p # o,
                      Busy(p)', Busy(o)', ScopeOf(p)' = ScopeOf(o)', (ScopeOf(p) \notin disturbed)'
               PROVE  FALSE
    BY DEF Alone
  <2>2. CASE p # r /\ o # r
    BY <2>2, <1>9, <1>10 DEF CInv, Alone
  <2>3. CASE p = r
    BY <2>3, <1>9, <1>10, <1>11
  <2>4. CASE o = r
    BY <2>4, <1>9, <1>10, <1>11
  <2> QED
    BY <2>2, <2>3, <2>4
<1>13. Fresh'
  <2> SUFFICES ASSUME NEW o \in Requests, (req[o].pc = "apply")', (ScopeOf(o) \notin disturbed)'
               PROVE  (req[o].payload = file[ScopeOf(o)])'
    BY DEF Fresh
  <2>1. CASE o = r
    <3>1. Busy(r)'
      BY <2>1 DEF Busy
    <3>2. ScopeOf(r)' = s /\ n.payload = h
      BY <3>1, <1>10
    <3> QED
      BY <2>1, <3>2, <1>2, <1>6, <1>7
  <2>2. CASE o # r
    <3>1. req'[o] = req[o] /\ ScopeOf(o)' = ScopeOf(o) /\ ScopeOf(o) \notin disturbed /\ Busy(o)
      BY <2>2, <1>6, <1>9, <1>10 DEF Busy
    <3>2. ScopeOf(o) # s
      BY <2>2, <3>1, <1>11
    <3>3. ScopeOf(o) \in Scopes
      BY <3>1, ScopeIsScope DEF CInv, Types, Busy
    <3> QED
      BY <3>1, <3>2, <3>3, <1>7 DEF CInv, Fresh
  <2> QED
    BY <2>1, <2>2
<1>14. ASSUME NEW t \in Scopes \ disturbed' PROVE Latest(t)' = Latest(t)
  <2>1. CASE t = s
    <3>1. Writers(req, s) = {r}
      BY <2>1, <1>1, <1>9, <1>11, OnlyWriter DEF CInv
    <3>2. Writers(req', s) = {}
      BY <1>5, <1>6, <3>1 DEF Writers
    <3>3. LatestOf(req, file, s) = h
      BY <3>1, LatestOne
    <3>4. LatestOf(req', file', s) = h
      BY <1>2, <3>2, <1>7, LatestNone
    <3>5. LatestOf(req, file, t) = LatestOf(req', file', t)
      BY <2>1, <3>3, <3>4
    <3> QED
      BY <3>5 DEF Latest
  <2>2. CASE t # s
    <3>1. Writers(req', t) = Writers(req, t) /\ \A o \in Writers(req', t) : req'[o].payload = req[o].payload
      BY <1>1, <1>5, <1>6, <2>2 DEF Writers, ScopeOf
    <3>2. file'[t] = file[t]
      BY <2>2, <1>7
    <3>3. LatestOf(req', file', t) = LatestOf(req, file, t)
      BY <3>1, <3>2, LatestSame
    <3> QED
      BY <3>3 DEF Latest
  <2> QED
    BY <2>1, <2>2
<1>15. s \notin disturbed => Latest(s) = h /\ Holds(h, told)
  <2>1. ASSUME s \notin disturbed PROVE Latest(s) = h
    <3>1. Writers(req, s) = {r}
      BY <2>1, <1>1, <1>11, OnlyWriter DEF CInv
    <3> QED
      BY <3>1, LatestOne DEF Latest
  <2>2. Len(h) \in DOMAIN h
    BY <1>3, SequenceFacts DEF IsHistory
  <2>3. Holds(h, told)
    BY <2>2 DEF Holds, Last
  <2> QED
    BY <2>1, <2>3
<1>16. ASSUME NEW t \in Scopes \ disturbed' PROVE Agrees(t, Latest(t))'
  <2>1. Agrees(t, Latest(t)) /\ Latest(t)' = Latest(t)
    BY <1>9, <1>14 DEF CInv, Told
  <2>2. \A a \in answered' : a[1] = t => Holds(Latest(t), a)
    <3>1. \A a \in answered : a[1] = t => Holds(Latest(t), a)
      BY <2>1 DEF Agrees
    <3>2. told[1] = t => Holds(Latest(t), told)
      BY <1>9, <1>15
    <3> HIDE DEF told, Latest
    <3> QED
      BY <1>4, <3>1, <3>2
  <2> HIDE DEF Latest
  <2> QED
    BY <1>1, <2>1, <2>2 DEF Agrees, InForce
<1> QED
  BY <1>8, <1>12, <1>13, <1>16 DEF CInv, Told

\* A configuration takes effect and goes to the end of the history, or is
\* refused
LEMMA ApplyKeeps ==
  ASSUME CInv, NEW r \in Requests, Apply(r)
  PROVE  CInv'
<1> DEFINE q == req[r]
           s == ScopeOf(r)
           b == q.body
           version == IF q.op = "rollback" THEN Version("rollback", b, q.target)
                      ELSE Version("set", Clean(b), 0)
<1>1. /\ q.pc = "apply"
      /\ IF s = "api" THEN ApplyConfig(b) ELSE UNCHANGED manager
      /\ bindings' = IF s \in AgentScopes THEN [bindings EXCEPT ![s] = b] ELSE bindings
      /\ file' = file /\ up' = up /\ answered' = answered
  BY DEF Apply
<1>2. s \in Scopes /\ up
  BY <1>1, ScopeIsScope DEF CInv, Types
<1>3. RequestOK(q)
  BY DEF CInv, Types, RequestsOK
<1>4. IsConfig(b) /\ IsHistory(q.payload) /\ (q.op = "rollback" => Clean(b) = b)
  BY <1>1, <1>3 DEF RequestOK
<1>5. version.config = Clean(b) /\ IsVersion(version)
  <2>1. version.config = IF q.op = "rollback" THEN b ELSE Clean(b)
    BY DEF Version
  <2> HIDE DEF version
  <2>2. version.config = Clean(b)
    BY <2>1, <1>4
  <2> QED
    BY <2>2, <1>4, CleanFacts DEF IsVersion
<1>6. Busy(r)
  BY <1>1 DEF Busy
<1>7. s \notin disturbed => q.payload = file[s] /\ Writers(req, s) = {} /\ Latest(s) = file[s]
  <2> SUFFICES ASSUME s \notin disturbed
               PROVE  q.payload = file[s] /\ Writers(req, s) = {} /\ Latest(s) = file[s]
    OBVIOUS
  <2>1. q.payload = file[s]
    BY <1>1 DEF CInv, Fresh
  <2>2. Writers(req, s) = {}
    BY <1>1, <1>6, OnlyWriter DEF CInv
  <2> QED
    BY <2>1, <2>2, LatestNone DEF Latest
<1>8. bindings' = [a \in AgentScopes |-> bindings'[a]]
      /\ \A a \in AgentScopes : bindings'[a] = IF a = s THEN b ELSE bindings[a]
  BY <1>1 DEF CInv, Types, BindingsOK
<1>9. s # "api" => record' = record /\ running' = running
  BY <1>1 DEF manager
<1>10. "api" \notin AgentScopes
  BY ConfigurationAssumption DEF ConfigScopes
\* Other files are not concerned
<1>11. ASSUME NEW t \in Scopes, t # s, Agrees(t, Latest(t)), Latest(t)' = Latest(t)
       PROVE  Agrees(t, Latest(t))'
  <2>1. t = "api" => record' = record /\ running' = running
    BY <1>9, <1>11
  <2>2. t \in AgentScopes => bindings'[t] = bindings[t]
    BY <1>8, <1>11
  <2> HIDE DEF Latest
  <2> QED
    BY <1>1, <1>11, <2>1, <2>2 DEF Agrees, InForce
<1>12. CASE s = "api" /\ ~Applies(b)
  <2>1. Ends(r, NoBody) /\ disturbed' = IF HalfApplied(b, q.payload) THEN disturbed \union {s} ELSE disturbed
    BY <1>12 DEF Apply
  <2>2. ClientsOK' /\ req' = [req EXCEPT ![r] = Free]
    BY <2>1, NoBodyOK, EndsFacts DEF CInv, Types
  <2>3. RequestsOK' /\ \A o \in Requests : req'[o] = IF o = r THEN Free ELSE req[o]
    BY <1>1, <1>2, <2>2, FreeOK, RequestMoves DEF CInv, Types
  <2>4. Types'
    BY <1>1, <1>8, <2>2, <2>3 DEF CInv, Types, FilesOK, BindingsOK
  <2>5. disturbed \subseteq disturbed'
    BY <2>1
  <2>6. Alone' /\ Fresh'
    BY <1>1, <2>3, <2>5, FreeOK DEF CInv, Alone, Fresh, Busy, ScopeOf
  <2>7. ASSUME NEW t \in Scopes PROVE Latest(t)' = Latest(t)
    <3>1. Writers(req', t) = Writers(req, t) /\ \A o \in Writers(req', t) : req'[o].payload = req[o].payload
      BY <1>1, <2>3, FreeOK DEF Writers
    <3>2. file'[t] = file[t]
      BY <1>1
    <3> QED
      BY <3>1, <3>2, LatestKept
  <2>8. ASSUME NEW t \in Scopes \ disturbed' PROVE Agrees(t, Latest(t))'
    <3>1. Agrees(t, Latest(t)) /\ Latest(t)' = Latest(t)
      BY <2>5, <2>7 DEF CInv, Told
    <3>2. CASE t # s
      BY <3>1, <3>2, <1>11
    <3>3. CASE t = s
      <4>1. ~HalfApplied(b, q.payload) /\ s \notin disturbed
        BY <3>3, <2>1
      <4>2. PICK h : h = q.payload
        OBVIOUS
      <4>3. Latest(t) = h /\ Latest(t)' = h
        BY <3>1, <3>3, <4>1, <4>2, <1>7
      <4>4. Agrees(t, h)
        BY <3>1, <4>3
      <4>5. ApplyConfig(b)
        BY <1>1, <1>12
      <4>6. \A i \in DOMAIN Current(h) : InForce(Current(h)[i])
        BY <3>3, <4>4, <1>12 DEF Agrees
      <4>7. \A i \in DOMAIN Current(h) : InForce(Current(h)[i])'
        BY <1>4, <1>12, <4>1, <4>2, <4>5, <4>6, RefusedStaysInForce
      <4>8. t \notin AgentScopes
        BY <3>3, <1>12, <1>10
      <4>9. Agrees(t, h)'
        BY <1>1, <4>4, <4>7, <4>8 DEF Agrees
      <4> QED
        BY <4>3, <4>9
    <3> QED
      BY <3>2, <3>3
  <2> QED
    BY <2>4, <2>6, <2>8 DEF CInv, Told
<1>13. CASE ~(s = "api" /\ ~Applies(b))
  <2> DEFINE h == Appended(q.payload, version)
             n == [q EXCEPT !.pc = "open", !.payload = h]
  <2>1. req' = [req EXCEPT ![r] = n] /\ cli' = cli /\ disturbed' = disturbed
    BY <1>13 DEF Apply
  <2> HIDE DEF version
  <2>2. /\ IsHistory(h) /\ Current(h) = Clean(b) /\ h # <<>>
        /\ \A a : Holds(q.payload, a) => Holds(h, a)
    BY <1>4, <1>5, AppendedFacts
  <2> HIDE DEF h
  <2>3. /\ n.pc = "open" /\ n.payload = h /\ n.scopes = q.scopes
        /\ DOMAIN n = Fields /\ n.op = q.op /\ n.body = q.body
    BY <1>3 DEF RequestOK, Fields
  <2> HIDE DEF n
  <2>4. RequestOK(n)
    BY <1>1, <1>3, <2>2, <2>3 DEF RequestOK
  <2>5. RequestsOK' /\ \A o \in Requests : req'[o] = IF o = r THEN n ELSE req[o]
    BY <1>1, <1>2, <2>1, <2>4, RequestMoves DEF CInv, Types
  <2>6. Types'
    BY <1>1, <1>8, <2>1, <2>5 DEF CInv, Types, FilesOK, ClientsOK, BindingsOK
  <2>7. \A o \in Requests : ScopeOf(o)' = ScopeOf(o) /\ Busy(o)' = Busy(o)
    BY <1>1, <2>3, <2>5 DEF ScopeOf, Busy
  <2>8. Alone'
    BY <2>1, <2>7 DEF CInv, Alone
  <2>9. Fresh'
    BY <1>1, <2>1, <2>3, <2>5, <2>7 DEF CInv, Fresh
  <2>10. ASSUME NEW t \in Scopes \ disturbed' PROVE Agrees(t, Latest(t))'
    <3>1. Agrees(t, Latest(t))
      BY <2>1 DEF CInv, Told
    <3>2. CASE t # s
      <4>1. Writers(req', t) = Writers(req, t) /\ \A o \in Writers(req', t) : req'[o].payload = req[o].payload
        BY <1>1, <2>3, <2>5, <3>2 DEF Writers, ScopeOf
      <4>2. file'[t] = file[t]
        BY <1>1
      <4>3. Latest(t)' = Latest(t)
        BY <4>1, <4>2, LatestKept
      <4> QED
        BY <3>1, <3>2, <4>3, <1>11
    <3>3. CASE t = s
      <4>1. s \notin disturbed
        BY <3>3, <2>1
      <4>2. Writers(req', t) = {r}
        BY <1>7, <3>3, <4>1, <2>3, <2>5 DEF Writers, ScopeOf
      <4>3. Latest(t)' = req'[r].payload /\ req'[r].payload = h
        BY <4>2, <2>3, <2>5, LatestInHand
      <4>4. PICK g : g = h
        OBVIOUS
      <4>5. Latest(t)' = g
        BY <4>3, <4>4
      <4>6. Latest(t) = q.payload
        BY <3>3, <4>1, <1>7
      <4>7. \A a \in answered : a[1] = t => Holds(g, a)
        BY <3>1, <4>4, <4>6, <2>2 DEF Agrees
      <4>8. t \in AgentScopes => Clean(bindings'[t]) = Current(g)
        BY <3>3, <4>4, <1>8, <2>2
      <4>9. t = "api" => \A i \in DOMAIN Current(g) : InForce(Current(g)[i])'
        <5>1. CASE t = "api"
          <6>1. PICK c : c = b
            OBVIOUS
          <6>2. Applies(c) /\ ApplyConfig(c) /\ IsConfig(c)
            BY <5>1, <3>3, <1>1, <1>4, <1>13, <6>1
          <6>3. \A i \in DOMAIN Clean(c) : InForce(Clean(c)[i])'
            BY <6>2, AppliedIsInForce
          <6>4. Current(g) = Clean(c)
            BY <4>4, <6>1, <2>2
          <6> QED
            BY <6>3, <6>4
        <5> QED
          BY <5>1
      <4>10. Agrees(t, g)'
        BY <1>1, <4>7, <4>8, <4>9 DEF Agrees
      <4> QED
        BY <4>5, <4>10
    <3> QED
      BY <3>2, <3>3
  <2> QED
    BY <2>6, <2>8, <2>9, <2>10 DEF CInv, Told
<1> QED
  BY <1>12, <1>13

\* Whatever is typed: a request on files is about scopes that have files
LEMMA ConfiguredFacts ==
  ASSUME NEW q, q.op \in OnFiles, Route(q) = "configured"
  PROVE  /\ q.op # "put"
         /\ q.scope \in Scopes \/ (q.op = "config" /\ q.scope = Nobody)
<1>1. q.op \notin {"list", "discover", "install", "put"}
  BY DEF OnFiles
<1>2. Route(q) = IF \/ IsConfigScope(q.scope)
                    \/ q.op = "config" /\ q.scope = Nobody
                 THEN "configured" ELSE "refused"
  <2>1. q.op # "list" /\ q.op # "discover" /\ q.op # "install" /\ q.op \notin Mutations
    BY <1>1 DEF OnFiles, Mutations
  <2> QED
    BY <2>1 DEF Route
<1>3. IsConfigScope(q.scope) \/ (q.op = "config" /\ q.scope = Nobody)
  BY <1>2
<1> QED
  BY <1>1, <1>3 DEF IsConfigScope, Scopes

LEMMA ReadsOK ==
  ASSUME NEW q, q.op \in OnFiles, Route(q) = "configured"
  PROVE  RequestOK(Reads(q)) /\ Reads(q).pc = "load"
<1> DEFINE withFiles == SetToSeq({s \in AgentScopes : file[s] # <<>>})
           scopes == IF q.scope = Nobody THEN <<"api", "cli">> \o withFiles ELSE <<q.scope>>
           body == IF q.op = "update" THEN <<q.name>> \o q.value ELSE <<>>
<1>1. withFiles \in Seq(Scopes)
  <2> DEFINE A == {s \in AgentScopes : file[s] # <<>>}
  <2>1. IsFiniteSet(A)
    BY ConfigurationAssumption, FS_Subset
  <2>2. SetToSeq(A) \in Seq(A)
    BY <2>1, SetToSeqFacts
  <2>3. A \subseteq Scopes
    BY DEF Scopes
  <2> HIDE DEF A
  <2>4. SetToSeq(A) \in Seq(Scopes)
    BY <2>2, <2>3, SeqMonotonic
  <2> QED
    BY <2>4 DEF A
<1> HIDE DEF withFiles
<1>2. scopes \in Seq(Scopes) /\ scopes # <<>>
  <2>1. CASE q.scope = Nobody
    <3>1. <<"api", "cli">> \in Seq(Scopes) /\ Len(<<"api", "cli">>) = 2
      BY DEF Scopes, ConfigScopes
    <3> DEFINE t == <<"api", "cli">>
               u == t \o withFiles
    <3> HIDE DEF t
    <3>2. t \in Seq(Scopes) /\ Len(t) = 2
      BY <3>1 DEF t
    <3>3. u \in Seq(Scopes) /\ Len(u) = Len(t) + Len(withFiles) /\ Len(withFiles) \in Nat
      BY <1>1, <3>2, ConcatProperties, LenProperties
    <3> HIDE DEF u
    <3>4. u # <<>>
      BY <3>2, <3>3
    <3> QED
      BY <2>1, <3>3, <3>4 DEF t, u
  <2>2. CASE q.scope # Nobody
    <3>1. q.scope \in Scopes
      BY <2>2, ConfiguredFacts
    <3> QED
      BY <2>2, <3>1
  <2> QED
    BY <2>1, <2>2
<1>3. Reads(q) = Handler(q.op, scopes, body, 0)
  BY DEF Reads, withFiles
<1>4. q.op # "put"
  BY ConfiguredFacts
<1> HIDE DEF scopes, body
<1> QED
  BY <1>2, <1>3, <1>4, HandlerOK

LEMMA EnterKeeps ==
  ASSUME CInv, NEW c \in Clients, Enter(c)
  PROVE  CInv'
<1>1. PICK line \in Lines \union {said}, r \in Requests :
        LET request == Handle(line) IN
        /\ up /\ req[r] = Free
        /\ request.op \in OnFiles /\ Route(request) = "configured"
        /\ req' = [req EXCEPT ![r] =
             IF request.op = "rollback"
             THEN Handler("rollback", <<request.scope>>, <<>>, NumberOf[request.value])
             ELSE Reads(request)]
        /\ cli' = [cli EXCEPT ![c].request = r]
        /\ UNCHANGED <<file, server, answered, disturbed>>
  BY DEF Enter
<1> DEFINE q == Handle(line)
           n == IF q.op = "rollback"
                THEN Handler("rollback", <<q.scope>>, <<>>, NumberOf[q.value])
                ELSE Reads(q)
<1>2. req' = [req EXCEPT ![r] = n] /\ q.op \in OnFiles /\ Route(q) = "configured"
  BY <1>1
<1>3. RequestOK(n) /\ n.pc = "load"
  <2> HIDE DEF q
  <2>1. CASE q.op = "rollback"
    <3>1. q.scope \in Scopes
      BY <1>2, <2>1, ConfiguredFacts
    <3>2. <<q.scope>> \in Seq(Scopes) /\ <<q.scope>> # <<>>
      BY <3>1
    <3>3. /\ RequestOK(Handler("rollback", <<q.scope>>, <<>>, NumberOf[q.value]))
          /\ Handler("rollback", <<q.scope>>, <<>>, NumberOf[q.value]).pc = "load"
      BY <3>2, HandlerOK
    <3> QED
      BY <2>1, <3>3
  <2>2. CASE q.op # "rollback"
    BY <1>2, <2>2, ReadsOK
  <2> QED
    BY <2>1, <2>2
<1>4. ClientsOK'
  <2>1. cli' = [d \in Clients |-> cli'[d]]
        /\ \A d \in Clients : cli'[d] = IF d = c THEN [cli[c] EXCEPT !.request = r] ELSE cli[d]
    BY <1>1 DEF CInv, Types, ClientsOK
  <2>2. ClientOK(cli[c])
    BY DEF CInv, Types, ClientsOK
  <2> DEFINE x == cli[c]
             y == [x EXCEPT !.request = r]
  <2>3. y = [request |-> r, body |-> x.body]
    <3>1. x = [request |-> x.request, body |-> x.body]
      BY <2>2 DEF ClientOK
    <3> HIDE DEF x
    <3> QED
      BY <3>1
  <2>4. ClientOK(y)
    <3> HIDE DEF y
    <3> QED
      BY <2>2, <2>3 DEF ClientOK
  <2> QED
    BY <2>1, <2>4 DEF CInv, Types, ClientsOK
<1> HIDE DEF n, q
<1>5. req[r].pc = "free" /\ up /\ UNCHANGED <<file, server, answered>> /\ disturbed' = disturbed
  BY <1>1, FreeOK
<1> QED
  BY <1>2, <1>3, <1>4, <1>5, ReaderKeeps

LEMMA PutKeeps ==
  ASSUME CInv, NEW c \in Clients, Put(c)
  PROVE  CInv'
<1>1. PICK r \in Requests :
        /\ up /\ cli[c].body # NoBody /\ req[r] = Free
        /\ req' = [req EXCEPT ![r] = Handler("put", <<cli[c].body.scope>>, cli[c].body.config, 0)]
        /\ cli' = [cli EXCEPT ![c] = [request |-> r, body |-> NoBody]]
        /\ UNCHANGED <<file, server, answered, disturbed>>
  BY DEF Put
<1> DEFINE b == cli[c].body
           n == Handler("put", <<b.scope>>, b.config, 0)
<1>2. RequestOK(n) /\ n.pc = "load"
  <2>1. b.scope \in Scopes /\ IsConfig(b.config)
    BY <1>1 DEF CInv, Types, ClientsOK, ClientOK, BodyOK
  <2>2. <<b.scope>> \in Seq(Scopes) /\ <<b.scope>> # <<>>
    BY <2>1
  <2> QED
    BY <2>1, <2>2, HandlerOK
<1>3. ClientsOK'
  <2>1. ClientOK([request |-> r, body |-> NoBody])
    BY NoBodyOK DEF ClientOK
  <2>2. cli' = [d \in Clients |-> cli'[d]]
        /\ \A d \in Clients : cli'[d] = IF d = c THEN [request |-> r, body |-> NoBody] ELSE cli[d]
    BY <1>1 DEF CInv, Types, ClientsOK
  <2> QED
    BY <2>1, <2>2 DEF CInv, Types, ClientsOK
<1>4. req' = [req EXCEPT ![r] = n]
  BY <1>1
<1> HIDE DEF n
<1>5. req[r].pc = "free" /\ up /\ UNCHANGED <<file, server, answered>> /\ disturbed' = disturbed
  BY <1>1, FreeOK
<1> QED
  BY <1>2, <1>3, <1>4, <1>5, ReaderKeeps

\* Steps of the CLIs alone
LEMMA OthersKeep ==
  ASSUME CInv, UNCHANGED <<file, server, req, answered, disturbed>>, ClientsOK'
  PROVE  CInv'
<1>1. /\ file' = file /\ req' = req /\ answered' = answered /\ disturbed' = disturbed
      /\ up' = up /\ bindings' = bindings /\ record' = record /\ running' = running
  BY DEF server, manager
<1>2. Types'
  BY <1>1 DEF CInv, Types, FilesOK, RequestsOK, BindingsOK
<1>3. Alone' /\ Fresh'
  BY <1>1 DEF CInv, Alone, Fresh, Busy, ScopeOf
<1>4. \A s \in Scopes : Latest(s)' = Latest(s)
  BY <1>1 DEF Latest
<1>5. Told'
  BY <1>1, <1>4, ToldSteady DEF CInv
<1> QED
  BY <1>2, <1>3, <1>5 DEF CInv

LEMMA GiveUpKeeps ==
  ASSUME CInv, NEW c \in Clients, GiveUp(c)
  PROVE  CInv'
<1>1. UNCHANGED <<file, server, req, answered, disturbed>> /\ cli' = [cli EXCEPT ![c].request = Nobody]
  BY DEF GiveUp
<1>2. ClientsOK'
  <2>1. cli' = [d \in Clients |-> cli'[d]]
        /\ \A d \in Clients : cli'[d] = IF d = c THEN [cli[c] EXCEPT !.request = Nobody] ELSE cli[d]
    BY <1>1 DEF CInv, Types, ClientsOK
  <2>2. ClientOK(cli[c])
    BY DEF CInv, Types, ClientsOK
  <2> DEFINE x == cli[c]
             y == [x EXCEPT !.request = Nobody]
  <2>3. y = [request |-> Nobody, body |-> x.body]
    <3>1. x = [request |-> x.request, body |-> x.body]
      BY <2>2 DEF ClientOK
    <3> HIDE DEF x
    <3> QED
      BY <3>1
  <2>4. ClientOK(y)
    <3> HIDE DEF y
    <3> QED
      BY <2>2, <2>3 DEF ClientOK
  <2> QED
    BY <2>1, <2>4 DEF CInv, Types, ClientsOK
<1> QED
  BY <1>1, <1>2, OthersKeep

LEMMA TypeKeeps == CInv /\ Type => CInv'
<1> SUFFICES ASSUME CInv, Type PROVE CInv'
  OBVIOUS
<1>1. UNCHANGED <<file, server, req, answered, disturbed>> /\ cli' = cli
  BY DEF Type
<1>2. ClientsOK'
  BY <1>1 DEF CInv, Types, ClientsOK
<1> QED
  BY <1>1, <1>2, OthersKeep

\* While the server is down nobody writes: the latest history is the file's
LEMMA NobodyWrites ==
  ASSUME NEW q, \A r \in Requests : q[r].pc = "free", NEW s
  PROVE  Writers(q, s) = {}
BY DEF Writers

\* What a crash cuts off is disturbed; the files, and what is recorded, stay
LEMMA CrashKeeps ==
  ASSUME CInv, Crash
  PROVE  CInv'
<1>1. /\ up' = FALSE /\ up
      /\ req' = [r \in Requests |-> Free]
      /\ cli' = [c \in Clients |-> [request |-> Nobody, body |-> NoBody]]
      /\ disturbed' = disturbed \union {ScopeOf(r) : r \in {o \in Requests : req[o].pc \in {"open", "fill"}}}
      /\ bindings' = [a \in AgentScopes |-> <<>>]
      /\ running' = [p \in Known |-> Nobody]
      /\ file' = file /\ record' = record /\ answered' = answered
  BY DEF Crash
<1>2. \A r \in Requests : req'[r] = Free /\ req'[r].pc = "free"
  BY <1>1, FreeOK
<1>3. Types'
  <2>1. ClientOK([request |-> Nobody, body |-> NoBody])
    BY NoBodyOK DEF ClientOK
  <2>2. ClientsOK'
    BY <1>1, <2>1 DEF ClientsOK
  <2>3. RequestsOK'
    BY <1>1, <1>2, FreeOK DEF RequestsOK
  <2> QED
    BY <1>1, <2>2, <2>3 DEF CInv, Types, FilesOK, BindingsOK
<1>4. Alone' /\ Fresh'
  BY <1>2 DEF Alone, Fresh, Busy
<1>5. ASSUME NEW s \in Scopes \ disturbed'
      PROVE  Agrees(s, Latest(s))'
  <2>1. Agrees(s, Latest(s))
    BY <1>1 DEF CInv, Told
  <2>2. Writers(req, s) = {}
    BY <1>1 DEF Writers, ScopeOf
  <2>3. Writers(req', s) = {}
    BY <1>2, NobodyWrites
  <2>4. Latest(s)' = Latest(s)
    BY <1>1, <2>2, <2>3, LatestKept
  <2> HIDE DEF Latest
  <2>5. PICK h : h = Latest(s)
    OBVIOUS
  <2>6. Agrees(s, h)'
    <3>1. Agrees(s, h)
      BY <2>1, <2>5
    <3>2. s = "api" => \A i \in DOMAIN Current(h) : InForce(Current(h)[i])'
      <4> SUFFICES ASSUME s = "api", NEW i \in DOMAIN Current(h)
                   PROVE  InForce(Current(h)[i])'
        OBVIOUS
      <4>1. PICK e : e = Current(h)[i]
        OBVIOUS
      <4>2. InForce(e)
        BY <3>1, <4>1 DEF Agrees
      <4>3. running'[e.name] = Nobody
        BY <1>1, <4>2 DEF InForce
      <4>4. InForce(e)'
        BY <1>1, <4>2, <4>3 DEF InForce
      <4> QED
        BY <4>1, <4>4
    <3> QED
      BY <1>1, <3>1, <3>2 DEF Agrees
  <2> QED
    BY <2>4, <2>5, <2>6
<1> QED
  BY <1>3, <1>4, <1>5 DEF CInv, Told

\* What the assembly makes of a plugin that the stored configuration names
LEMMA EnsuredFacts ==
  ASSUME NEW i \in DOMAIN Current(file["api"]), IsConfig(Current(file["api"])),
         InForce(Current(file["api"])[i])
  PROVE  LET e == Current(file["api"])[i] IN
         /\ Ensured(e.name).enabled = e.enabled
         /\ \A k \in Keys \ Secrets : (Ensured(e.name).props[k] = "set") <=> k \in e.props
<1> DEFINE g == Current(file["api"])
           e == g[i]
           p == e.name
           wanted == Assembled(p)
           user == IF record[p].enabled THEN record[p].props ELSE Props({}, {})
<1>1. p \in Names(g) /\ Find(g, p) = i
  <2>1. \A j \in DOMAIN g : g[j].name = p => j = i
    BY DEF IsConfig
  <2>2. i \in DOMAIN g /\ g[i].name = p
    OBVIOUS
  <2>3. p \in Names(g)
    BY <2>2 DEF Names
  <2> HIDE DEF p, g
  <2> QED
    BY <2>1, <2>2, <2>3 DEF Find
<1>2. wanted = [enabled |-> e.enabled, props |-> Props(e.props, Built[p])]
  BY <1>1 DEF Assembled
<1>3. wanted.enabled = e.enabled
      /\ \A k \in Keys : wanted.props[k] = IF k \in e.props THEN "set"
                                           ELSE IF k \in Built[p] THEN "built" ELSE "none"
  <2> HIDE DEF wanted, e, p
  <2> QED
    BY <1>2 DEF Props
<1>4. /\ record[p].enabled = e.enabled
      /\ \A k \in Keys \ Secrets : (record[p].props[k] = "set") <=> k \in e.props
  BY DEF InForce
<1>5. \A k \in Keys \ Secrets : k \notin e.props => user[k] # "set"
  BY <1>4 DEF Props
<1>6. Ensured(p) = IF record[p].enabled = wanted.enabled /\ user = wanted.props
                   THEN record[p]
                   ELSE [enabled |-> wanted.enabled,
                         props |-> [k \in Keys |-> IF wanted.props[k] = "none" THEN user[k] ELSE wanted.props[k]]]
  BY DEF Ensured
<1> HIDE DEF wanted, user
<1>7. CASE record[p].enabled = wanted.enabled /\ user = wanted.props
  BY <1>4, <1>6, <1>7
<1>8. CASE ~(record[p].enabled = wanted.enabled /\ user = wanted.props)
  <2>1. Ensured(p).enabled = e.enabled
    BY <1>3, <1>6, <1>8
  <2>2. \A k \in Keys : Ensured(p).props[k] = IF wanted.props[k] = "none" THEN user[k] ELSE wanted.props[k]
    BY <1>6, <1>8
  <2>3. \A k \in Keys \ Secrets : (Ensured(p).props[k] = "set") <=> k \in e.props
    BY <1>3, <1>5, <2>2
  <2> QED
    BY <2>1, <2>3
<1> QED
  BY <1>7, <1>8

\* The server starts with what the files say
LEMMA BootKeeps ==
  ASSUME CInv, Boot
  PROVE  CInv'
<1>1. /\ ~up /\ \A s \in {"api"} \union AgentScopes : file[s] # Torn
      /\ up' = TRUE
      /\ record' = [p \in Known |-> Ensured(p)]
      /\ running' = [p \in Known |-> IF Ensured(p).enabled THEN Ensured(p).props ELSE Nobody]
      /\ bindings' = [a \in AgentScopes |-> Current(file[a])]
      /\ file' = file /\ req' = req /\ cli' = cli /\ answered' = answered /\ disturbed' = disturbed
  BY DEF Boot
<1>2. \A r \in Requests : req[r].pc = "free"
  BY <1>1 DEF CInv, Types, RequestsOK
<1>3. Types'
  BY <1>1 DEF CInv, Types, FilesOK, RequestsOK, ClientsOK, BindingsOK
<1>4. Alone' /\ Fresh'
  BY <1>1, <1>2 DEF Alone, Fresh, Busy
<1>5. ASSUME NEW s \in Scopes \ disturbed'
      PROVE  Agrees(s, Latest(s))'
  <2>1. Agrees(s, Latest(s))
    BY <1>1 DEF CInv, Told
  <2>2. Writers(req, s) = {}
    BY <1>2, NobodyWrites
  <2>3. Latest(s) = file[s] /\ Latest(s)' = file[s]
    <3>1. LatestOf(req, file, s) = file[s]
      BY <2>2, LatestNone
    <3> QED
      BY <1>1, <3>1 DEF Latest
  <2> HIDE DEF Latest
  <2>4. PICK h : h = file[s]
    OBVIOUS
  <2>5. Agrees(s, h)
    BY <2>1, <2>3, <2>4
  <2>6. s = "api" \/ s \in AgentScopes => IsHistory(h)
    BY <1>1, <2>4 DEF CInv, Types, FilesOK
  <2>7. s = "api" => \A i \in DOMAIN Current(h) : InForce(Current(h)[i])'
    <3> SUFFICES ASSUME s = "api", NEW i \in DOMAIN Current(h)
                 PROVE  InForce(Current(h)[i])'
      OBVIOUS
    <3>1. PICK e : e = Current(h)[i]
      OBVIOUS
    <3>2. InForce(e) /\ e.name \in Known
      BY <2>5, <3>1 DEF Agrees, InForce
    <3>3. IsConfig(Current(h))
      BY <2>6, CurrentFacts
    <3>4. /\ Ensured(e.name).enabled = e.enabled
          /\ \A k \in Keys \ Secrets : (Ensured(e.name).props[k] = "set") <=> k \in e.props
      BY <2>4, <3>1, <3>2, <3>3, EnsuredFacts
    <3>5. record'[e.name] = Ensured(e.name) /\ running'[e.name] \in {Nobody, Ensured(e.name).props}
      BY <1>1, <3>2
    <3>6. InForce(e)'
      BY <3>2, <3>4, <3>5 DEF InForce
    <3> QED
      BY <3>1, <3>6
  <2>8. s \in AgentScopes => Clean(bindings'[s]) = Current(h)
    BY <1>1, <2>4, <2>6, CurrentFacts
  <2>9. Agrees(s, h)'
    BY <1>1, <2>5, <2>7, <2>8 DEF Agrees
  <2> QED
    BY <2>3, <2>4, <2>9
<1> QED
  BY <1>3, <1>4, <1>5 DEF CInv, Told

LEMMA NextKeeps == CInv /\ [Next]_vars => CInv'
<1> SUFFICES ASSUME CInv, [Next]_vars PROVE CInv'
  OBVIOUS
<1>1. CASE Type
  BY <1>1, TypeKeeps
<1>2. CASE Crash
  BY <1>2, CrashKeeps
<1>3. CASE Boot
  BY <1>3, BootKeeps
<1>4. ASSUME NEW c \in Clients, Enter(c) PROVE CInv'
  BY <1>4, EnterKeeps
<1>5. ASSUME NEW c \in Clients, Put(c) PROVE CInv'
  BY <1>5, PutKeeps
<1>6. ASSUME NEW c \in Clients, GiveUp(c) PROVE CInv'
  BY <1>6, GiveUpKeeps
<1>7. ASSUME NEW r \in Requests, Load(r) PROVE CInv'
  BY <1>7, LoadKeeps
<1>8. ASSUME NEW r \in Requests, LoadMissing(r) PROVE CInv'
  BY <1>8, LoadMissingKeeps
<1>9. ASSUME NEW r \in Requests, Apply(r) PROVE CInv'
  BY <1>9, ApplyKeeps
<1>10. ASSUME NEW r \in Requests, OpenFile(r) PROVE CInv'
  BY <1>10, OpenFileKeeps
<1>11. ASSUME NEW r \in Requests, FillFile(r) PROVE CInv'
  BY <1>11, FillFileKeeps
<1>12. CASE UNCHANGED vars
  <2>1. UNCHANGED <<file, server, req, answered, disturbed>> /\ cli' = cli
    BY <1>12 DEF vars
  <2>2. ClientsOK'
    BY <2>1 DEF CInv, Types, ClientsOK
  <2> QED
    BY <2>1, <2>2, OthersKeep
<1> QED
  BY <1>1, <1>2, <1>3, <1>4, <1>5, <1>6, <1>7, <1>8, <1>9, <1>10, <1>11, <1>12 DEF Next

-----------------------------------------------------------------------------
(* Theorems *)

\* Whatever the CLIs ask, the requests interleave and wherever the server is
\* stopped: at most one request is at work on an undisturbed file, it has in
\* its hands what the file holds, and the latest history has every version a
\* CLI was told of and says what the server runs (config_store.py 178-206,
\* routes/plugins.py 363-391, plugin_manager.py 801-827).
THEOREM Invariance == Spec => []CInv
<1>1. Init => CInv
  BY InitHolds
<1>2. CInv /\ [Next]_vars => CInv'
  BY NextKeeps
<1> QED
  BY <1>1, <1>2, PTL DEF Spec

\* A version that a CLI was told of is in the file, at its place and as it was
\* told, unless requests overlapped there or one was cut off, or one is at
\* work: a request writes all it has loaded back, and one more version
\* (config_store.py 178-206).
THEOREM NoVersionLost == Spec => []VersionsLostOnlyToOverlap
<1>1. CInv => VersionsLostOnlyToOverlap
  <2> SUFFICES ASSUME CInv, NEW a \in answered, a[1] \notin disturbed, ~Writing(a[1])
               PROVE  a[2] \in DOMAIN file[a[1]] /\ file[a[1]][a[2]] = a[3]
    BY DEF VersionsLostOnlyToOverlap
  <2>1. PICK s : s = a[1]
    OBVIOUS
  <2>2. s \in Scopes
    BY <2>1 DEF CInv, Types, FilesOK
  <2>3. Agrees(s, Latest(s))
    BY <2>1, <2>2 DEF CInv, Told
  <2>4. Writers(req, s) = {}
    BY <2>1 DEF Writing, Writers, Busy, ScopeOf
  <2>5. Latest(s) = file[s]
    BY <2>4, LatestNone DEF Latest
  <2> HIDE DEF Latest
  <2>6. Holds(file[s], a)
    BY <2>1, <2>3, <2>5 DEF Agrees
  <2> QED
    BY <2>1, <2>6 DEF Holds
<1> QED
  BY <1>1, Invariance, PTL

\* When no request is at work on the file of the plugin manager, or of an
\* agent, the server runs what its last version says, whatever was refused,
\* edited, rolled back or restarted before (plugin_manager.py 801-827,
\* bootstrap.py 256-268, directory.py's set_config).
THEOREM StoredStaysLive == Spec => []StoredIsLive
<1>1. CInv => StoredIsLive
  <2> SUFFICES ASSUME CInv PROVE StoredIsLive
    OBVIOUS
  <2>1. ASSUME NEW s \in Scopes, Settled(s)
        PROVE  Agrees(s, file[s]) /\ up
    <3>1. Agrees(s, Latest(s)) /\ up
      BY <2>1 DEF CInv, Told, Settled
    <3>2. Writers(req, s) = {}
      BY <2>1 DEF Settled, Writing, Writers, Busy, ScopeOf
    <3>3. Latest(s) = file[s]
      BY <3>2, LatestNone DEF Latest
    <3> QED
      BY <3>1, <3>3
  <2>2. "api" \in Scopes /\ AgentScopes \subseteq Scopes
    BY DEF Scopes, ConfigScopes
  <2>3. Settled("api") => \A i \in DOMAIN Current(file["api"]) : InForce(Current(file["api"])[i])
    BY <2>1, <2>2 DEF Agrees
  <2>4. \A a \in AgentScopes : Settled(a) => Clean(bindings[a]) = Current(file[a])
    BY <2>1, <2>2 DEF Agrees
  <2> QED
    BY <2>3, <2>4 DEF StoredIsLive, InForce
<1> QED
  BY <1>1, Invariance, PTL
==============================================================================
