--------------------------- MODULE AgentLoopProofs ---------------------------
(***************************************************************************)
(* An agent loop at rest has the llm of the nearest scope, and the graph   *)
(* of the services that are registered, for any services, in whatever      *)
(* order they come and go and their fields are bound; and it refuses no    *)
(* request without a cause.                                                *)
(*                                                                         *)
(* Where two llms of a scope have one ranking, the loop and iPOPO prefer   *)
(* different ones (the first key, the older service), and the loop has the *)
(* one or the other: what is said of its llm is said of llms that are told *)
(* apart.                                                                  *)
(***************************************************************************)
EXTENDS AgentLoop, FiniteSetTheorems, SequenceTheorems, NaturalsInduction, WellFoundedInduction, TLAPS

LlmsDiffer ==
  \A p \in Providers : FieldOf[p] = "llm" =>
    /\ RankOf[p] # None
    /\ \A q \in Providers \ {p} : FieldOf[q] = "llm" /\ RankOf[q].scope = RankOf[p].scope =>
         RankOf[q].ranking # RankOf[p].ranking

(***************************************************************************)
(* The inductive invariant.                                                *)
(***************************************************************************)
BestFields == {"llm"} \union Options
Fields     == Aggregates \union BestFields
Optional   == Providers \union {None}

Shape(l) ==
  /\ DOMAIN l = {"llm", "lists", "options", "excluded", "rejected", "remembered", "graph"}
  /\ l.llm \in Optional
  /\ l.lists \in [Aggregates -> Seq(Providers)]
  /\ l.options \in [Options -> Optional]
  /\ l.rejected \subseteq Fields \X Providers
  /\ l.remembered \subseteq Providers

IpopoOK ==
  /\ DOMAIN ipopo = {"valid", "best", "lists"}
  /\ ipopo.valid \in BOOLEAN
  /\ ipopo.best \in [BestFields -> Optional]
  /\ ipopo.lists \in [Aggregates -> Seq(Providers)]

RequestOK ==
  /\ DOMAIN request = {"pc", "overtaken"}
  /\ request.pc \in {"idle", "build", "built", "use"} /\ request.overtaken \in BOOLEAN
  /\ build["request"] # NoGraph => request.pc = "built"

Types ==
  /\ services \in Seq(Providers) /\ tagged \subseteq Providers
  /\ IpopoOK /\ Shape(loop) /\ loop.excluded = None /\ RequestOK
  /\ build = [t \in Threads |-> build[t]] /\ stale \in BOOLEAN

Distinct(s) == \A i, j \in DOMAIN s : s[i] = s[j] => i = j

\* The service that comes is the last of the registry, and the one that goes
\* is not in it any more.
EventOK ==
  /\ Distinct(services)
  /\ event = None => build["event"] = NoGraph
  /\ event # None =>
       /\ event \in Events /\ event.todo \subseteq Dependencies(event.provider)
       /\ event.op = "arrive" => services # <<>> /\ services[Len(services)] = event.provider
       /\ event.op = "leave" => event.provider \notin Range(services)

Pending(op, d) == event # None /\ event.op = op /\ d \in event.todo

\* What a field is for, of the services it has heard of
Heard(d) ==
  {p \in Providers :
     /\ d \in Dependencies(p)
     /\ \/ p \in Range(services) /\ ~(Pending("arrive", d) /\ p = event.provider)
        \/ Pending("leave", d) /\ p = event.provider}

\* A list has some services once each, those that are registered in their order.
ListOf(list, S, order) ==
  /\ Range(list) = S /\ Distinct(list)
  /\ \A i, j \in DOMAIN list :
       i < j /\ list[i] \in Range(order) /\ list[j] \in Range(order) => Older(order, list[i], list[j])

\* iPOPO's lists have what their fields have heard of ...
ListsOK == \A d \in Aggregates : ListOf(ipopo.lists[d], Heard(d), services)

\* ... and its best fields the best of them; the best may be about to go.
Ahead(list, p, q) == Better(p, q) \/ (~Better(q, p) /\ Older(list, p, q))

BestOf(list, f, S, x) ==
  \/ x = None /\ \A q \in S : f \notin Dependencies(q)
  \/ /\ x \in S /\ f \in Dependencies(x)
     /\ \A q \in S \ {x} : f \in Dependencies(q) => Ahead(list, x, q)

BestOK ==
  /\ \A f \in BestFields :
       \/ Pending("leave", f) /\ ipopo.best[f] = event.provider
       \/ BestOf(services, f, Heard(f) \intersect Range(services), ipopo.best[f])
  /\ ipopo.valid <=> ipopo.best["llm"] # None

\* The loop has the same in its fields, but for what a guard keeps out.
FieldsOK ==
  /\ \A d \in Aggregates :
       \/ loop.lists[d] = ipopo.lists[d]
       \/ \E p \in Providers : <<d, p>> \in loop.rejected /\ loop.lists[d] = RemoveFirst(ipopo.lists[d], p)
  /\ \A o \in Options :
       \/ loop.options[o] = ipopo.best[o]
       \/ loop.options[o] = None /\ <<o, ipopo.best[o]>> \in loop.rejected

\* Without an llm there is no graph that counts, and none will be.
InvalidOK ==
  ~ipopo.valid =>
    /\ loop.llm = None /\ build["event"] = NoGraph
    /\ loop.graph # NoGraph => stale
    /\ build["request"] # NoGraph => request.overtaken

\* The manager tags a service at the end of its event; until then the loop
\* itself remembers it, when it is valid.
KnownOK ==
  /\ \A p \in Known(loop) : RankOf[p] # None
  /\ \A p \in Range(services) : RankOf[p] # None /\ p \notin tagged =>
       event # None /\ event.op = "arrive" /\ event.provider = p
  /\ ipopo.valid => \A p \in Range(loop.lists["tools"]) : RankOf[p] # None => p \in Known(loop)

Nearest(p, S) == p \in S /\ \A q \in S \ {p} : Better(p, q)

KeptOut(d) == \E p \in Providers : <<d, p>> \in loop.rejected

\* Once its list has heard of an event, the loop has chosen, of llms that are
\* told apart.
LlmOK ==
  /\ LlmsDiffer /\ ipopo.valid /\ Installed("llm") # {}
  /\ ~KeptOut("llm") /\ ~KeptOut("scoped")
  /\ ~Pending("arrive", "scoped") /\ ~Pending("leave", "scoped")
  => Nearest(loop.llm, Installed("llm"))

\* The graph of the fields as they are
Ranks == [p \in {q \in Providers : RankOf[q] # None} |-> RankOf[p]]

Current(l) ==
  [model |-> l.llm, tools |-> ResolveInjected(Chain, l.lists["tools"], Ranks), options |-> l.options]

GraphOK ==
  loop.rejected = {} =>
    /\ build["event"] # NoGraph => build["event"] = Current(loop)
    /\ build["request"] # NoGraph /\ ~request.overtaken => build["request"] = Current(loop)
    /\ build["event"] = NoGraph /\ loop.graph # NoGraph /\ ~stale => loop.graph = Current(loop)

\* What a graph was compiled from
Parts(g) == {g.model} \union Range(g.tools) \union {g.options[o] : o \in Options}

\* A component that has an llm has one in its field, unless a guard keeps it out.
LlmKeptOut ==
  ipopo.valid /\ loop.llm = None => <<"llm", ipopo.best["llm"]>> \in loop.rejected

\* What is being compiled is what the loop is bound to, guards or not.
PartsOK ==
  /\ build["event"] # NoGraph => Parts(build["event"]) \subseteq Bound(loop)
  /\ build["request"] # NoGraph /\ ~request.overtaken => Parts(build["request"]) \subseteq Bound(loop)

\* A request that has looked for a graph and finds none has a cause.
CauseOK ==
  /\ request.pc = "idle" => ~request.overtaken
  /\ \/ request.pc = "use"
     \/ request.pc = "built" /\ build["request"] = NoGraph
     => loop.graph # NoGraph \/ request.overtaken \/ loop.llm = None \/ Broken \intersect Bound(loop) # {}

RefusalOK == LlmKeptOut /\ PartsOK /\ CauseOK

\* What is compiled and what is stored are graphs.
GraphTypes ==
  /\ loop.graph \in Graphs \union {NoGraph}
  /\ \A t \in Threads : build[t] \in Graphs \union {NoGraph}

LInv ==
  /\ Types /\ EventOK /\ ListsOK /\ BestOK /\ FieldsOK
  /\ InvalidOK /\ KnownOK /\ LlmOK /\ GraphOK /\ RefusalOK /\ GraphTypes

(***************************************************************************)
(* Sequences without duplicates.                                           *)
(***************************************************************************)

\* An element is taken out of a sequence by moving up what follows it.
LEMMA RemoveFirstMoves ==
  ASSUME NEW S, NEW s \in Seq(S), Distinct(s), NEW k \in DOMAIN s
  PROVE  RemoveFirst(s, s[k]) = [i \in 1..(Len(s) - 1) |-> IF i < k THEN s[i] ELSE s[i + 1]]
<1>1. k \in 1..Len(s) /\ Len(s) \in Nat
  BY LenProperties
<1>2. RemoveFirst(s, s[k]) = RemoveAt(s, k)
  <2>1. {i \in 1..Len(s) : s[i] = s[k]} = {k}
    BY <1>1 DEF Distinct
  <2>2. Min({k}) = k
    BY <1>1 DEF Min
  <2> QED
    BY <1>1, <2>1, <2>2 DEF SelectInSeq, RemoveFirst
<1> DEFINE a == SubSeq(s, 1, k - 1)
           b == SubSeq(s, k + 1, Len(s))
           r == a \o b
<1>3. a \in Seq(S) /\ Len(a) = k - 1 /\ \A i \in 1..(k - 1) : a[i] = s[i]
  <2>1. a = [i \in 1..(k - 1) |-> s[i]]
    BY <1>1
  <2> QED
    BY <1>1, <2>1
<1>4. b \in Seq(S) /\ Len(b) = Len(s) - k /\ \A i \in 1..(Len(s) - k) : b[i] = s[i + k]
  BY <1>1
<1> HIDE DEF a, b
<1>5. r = [i \in 1..(Len(s) - 1) |-> IF i < k THEN s[i] ELSE s[i + 1]]
  <2>1. /\ r \in Seq(S) /\ Len(r) = Len(a) + Len(b)
        /\ \A i \in 1..(Len(a) + Len(b)) : r[i] = IF i <= Len(a) THEN a[i] ELSE b[i - Len(a)]
    BY <1>3, <1>4, ConcatProperties
  <2> HIDE DEF r
  <2>2. DOMAIN r = 1..(Len(s) - 1)
    BY <1>1, <1>3, <1>4, <2>1
  <2>3. \A i \in 1..(Len(s) - 1) : r[i] = IF i < k THEN s[i] ELSE s[i + 1]
    <3> TAKE i \in 1..(Len(s) - 1)
    <3>1. CASE i < k
      BY <3>1, <1>1, <1>3, <1>4, <2>1, SMTT(30)
    <3>2. CASE ~(i < k)
      <4>1. r[i] = b[i - (k - 1)]
        BY <3>2, <1>1, <1>3, <1>4, <2>1, SMTT(30)
      <4>2. i - (k - 1) \in 1..(Len(s) - k) /\ (i - (k - 1)) + k = i + 1
        BY <3>2, <1>1
      <4> QED
        BY <4>1, <4>2, <1>4, <3>2
    <3> QED
      BY <3>1, <3>2
  <2> QED
    BY <1>1, <2>1, <2>2, <2>3
<1> QED
  BY <1>2, <1>5 DEF RemoveAt, a, b

\* What is not in a sequence cannot be taken out of it.
LEMMA RemoveFirstAbsent ==
  ASSUME NEW S, NEW s \in Seq(S), NEW e, e \notin Range(s)
  PROVE  RemoveFirst(s, e) = s
BY DEF RemoveFirst, Range

\* Taking an element out loses it, and nothing else; the order stays.
LEMMA RemoveFirstFacts ==
  ASSUME NEW S, NEW s \in Seq(S), Distinct(s), NEW e
  PROVE  /\ RemoveFirst(s, e) \in Seq(S) /\ Distinct(RemoveFirst(s, e))
         /\ Range(RemoveFirst(s, e)) = Range(s) \ {e}
         /\ \A p, q : Older(RemoveFirst(s, e), p, q) <=> Older(s, p, q) /\ p # e /\ q # e
<1>1. CASE e \notin Range(s)
  <2>1. \A p, q : Older(s, p, q) => p # e /\ q # e
    BY <1>1 DEF Older, Range
  <2> QED
    BY <1>1, <2>1, RemoveFirstAbsent
<1>2. CASE e \in Range(s)
  <2>1. PICK k \in DOMAIN s : s[k] = e
    BY <1>2 DEF Range
  <2>2. k \in 1..Len(s) /\ Len(s) \in Nat /\ DOMAIN s = 1..Len(s)
    BY LenProperties
  <2>3. PICK r : r = RemoveFirst(s, e)
    OBVIOUS
  <2>4. r = [i \in 1..(Len(s) - 1) |-> IF i < k THEN s[i] ELSE s[i + 1]]
    BY <2>1, <2>3, RemoveFirstMoves
  <2>5. r \in Seq(S) /\ DOMAIN r = 1..(Len(s) - 1)
    BY <2>2, <2>4
  <2>6. \A i \in DOMAIN r : i < k => i \in DOMAIN s /\ r[i] = s[i]
    BY <2>2, <2>4, <2>5
  <2>7. \A i \in DOMAIN r : i >= k => i + 1 \in DOMAIN s /\ r[i] = s[i + 1]
    BY <2>2, <2>4, <2>5
  <2>8. Distinct(r)
    BY <2>2, <2>5, <2>6, <2>7 DEF Distinct
  <2>9. \A i \in DOMAIN s : s[i] # e => \E j \in DOMAIN r : r[j] = s[i] /\ ((j = i /\ i < k) \/ (j = i - 1 /\ i > k))
    <3> TAKE i \in DOMAIN s
    <3> HAVE s[i] # e
    <3>1. CASE i < k
      BY <3>1, <2>2, <2>5, <2>6
    <3>2. CASE i > k
      <4>1. i - 1 \in DOMAIN r /\ r[i - 1] = s[i]
        BY <3>2, <2>2, <2>5, <2>7
      <4> QED
        BY <4>1, <3>2
    <3> QED
      BY <3>1, <3>2, <2>1, <2>2
  <2>10. \A i \in DOMAIN r : r[i] # e
    BY <2>1, <2>2, <2>5, <2>6, <2>7 DEF Distinct
  <2>11. Range(r) = Range(s) \ {e}
    BY <2>6, <2>7, <2>9, <2>10, <2>2, <2>5 DEF Range
  <2>12. \A p, q : Older(r, p, q) => Older(s, p, q) /\ p # e /\ q # e
    <3> TAKE p, q
    <3> HAVE Older(r, p, q)
    <3>1. PICK i, j \in DOMAIN r : i < j /\ r[i] = p /\ r[j] = q
      BY DEF Older
    <3>2. \E m, n \in DOMAIN s : m < n /\ s[m] = p /\ s[n] = q
      <4>1. CASE j < k
        BY <4>1, <3>1, <2>2, <2>5, <2>6
      <4>2. CASE i < k /\ j >= k
        BY <4>2, <3>1, <2>2, <2>5, <2>6, <2>7
      <4>3. CASE i >= k
        BY <4>3, <3>1, <2>2, <2>5, <2>7
      <4> QED
        BY <4>1, <4>2, <4>3, <3>1, <2>2, <2>5
    <3> QED
      BY <3>1, <3>2, <2>10 DEF Older
  <2>13. \A p, q : Older(s, p, q) /\ p # e /\ q # e => Older(r, p, q)
    <3> TAKE p, q
    <3> HAVE Older(s, p, q) /\ p # e /\ q # e
    <3>1. PICK i, j \in DOMAIN s : i < j /\ s[i] = p /\ s[j] = q
      BY DEF Older
    <3>2. PICK m \in DOMAIN r : r[m] = p /\ ((m = i /\ i < k) \/ (m = i - 1 /\ i > k))
      BY <3>1, <2>9
    <3>3. PICK n \in DOMAIN r : r[n] = q /\ ((n = j /\ j < k) \/ (n = j - 1 /\ j > k))
      BY <3>1, <2>9
    <3>4. m < n
      BY <3>1, <3>2, <3>3, <2>2, <2>5
    <3> QED
      BY <3>2, <3>3, <3>4 DEF Older
  <2> QED
    BY <2>3, <2>5, <2>8, <2>11, <2>12, <2>13
<1> QED
  BY <1>1, <1>2

\* What is appended is new, and younger than the rest.
LEMMA AppendFacts ==
  ASSUME NEW S, NEW s \in Seq(S), Distinct(s), NEW e \in S, e \notin Range(s)
  PROVE  /\ Append(s, e) \in Seq(S) /\ Distinct(Append(s, e))
         /\ Append(s, e) # <<>> /\ Append(s, e)[Len(Append(s, e))] = e
         /\ Range(Append(s, e)) = Range(s) \union {e}
         /\ \A p, q : Older(Append(s, e), p, q) <=> Older(s, p, q) \/ (p \in Range(s) /\ q = e)
<1>1. PICK r : r = Append(s, e)
  OBVIOUS
<1>2. /\ r \in Seq(S) /\ Len(r) = Len(s) + 1 /\ r[Len(r)] = e /\ Len(s) \in Nat
      /\ DOMAIN r = 1..(Len(s) + 1) /\ DOMAIN s = 1..Len(s)
      /\ \A i \in 1..Len(s) : r[i] = s[i]
  BY <1>1, AppendProperties, LenProperties
<1>3. \A i \in 1..Len(s) : s[i] # e
  BY <1>2 DEF Range
<1>4. Distinct(r)
  BY <1>2, <1>3 DEF Distinct
<1>5. Range(r) = Range(s) \union {e}
  BY <1>2 DEF Range
<1>6. \A p, q : Older(r, p, q) => Older(s, p, q) \/ (p \in Range(s) /\ q = e)
  BY <1>2 DEF Older, Range
<1>7. \A p, q : Older(s, p, q) => Older(r, p, q)
  BY <1>2 DEF Older
<1>8. \A p, q : p \in Range(s) /\ q = e => Older(r, p, q)
  BY <1>2 DEF Older, Range
<1>9. r # <<>>
  BY <1>2
<1> QED
  BY <1>1, <1>2, <1>4, <1>5, <1>6, <1>7, <1>8, <1>9

\* Of two elements one is older.
LEMMA OlderOrders ==
  ASSUME NEW S, NEW s \in Seq(S), Distinct(s)
  PROVE  /\ \A p, q : Older(s, p, q) => p \in Range(s) /\ q \in Range(s) /\ ~Older(s, q, p)
         /\ \A p, q \in Range(s) : p # q => Older(s, p, q) \/ Older(s, q, p)
         /\ \A p, q, r : Older(s, p, q) /\ Older(s, q, r) => Older(s, p, r)
<1>1. DOMAIN s = 1..Len(s) /\ Len(s) \in Nat
  BY LenProperties
<1>2. \A p, q : Older(s, p, q) => p \in Range(s) /\ q \in Range(s) /\ ~Older(s, q, p)
  BY <1>1 DEF Older, Range, Distinct
<1>3. \A p, q \in Range(s) : p # q => Older(s, p, q) \/ Older(s, q, p)
  BY <1>1 DEF Older, Range
<1>4. \A p, q, r : Older(s, p, q) /\ Older(s, q, r) => Older(s, p, r)
  BY <1>1 DEF Older, Distinct
<1> QED
  BY <1>2, <1>3, <1>4

(***************************************************************************)
(* What is preferred: iPOPO's order of services, and the loop's of llms.   *)
(***************************************************************************)

\* The distance of a scope tells which scope it is.
LEMMA DistanceTells ==
  ASSUME NEW s \in Range(Chain)
  PROVE  /\ Distance(Chain, s) \in DOMAIN Chain /\ Distance(Chain, s) \in Nat
         /\ Chain[Distance(Chain, s)] = s
<1>1. \E i \in DOMAIN Chain : Chain[i] = s
  BY DEF Range
<1>2. DOMAIN Chain \subseteq Nat
  BY LoopAssumption
<1> QED
  BY <1>1, <1>2 DEF Distance

\* A service with metadata has a distance and a ranking, both numbers.
LEMMA Ranked ==
  ASSUME NEW p \in Providers, RankOf[p] # None
  PROVE  /\ RankOf[p].scope \in Range(Chain) /\ Distance(Chain, RankOf[p].scope) \in Nat
         /\ RankOf[p].ranking \in Int /\ RankOf[p].key \in Int
         /\ \A q \in Providers : RankOf[q] # None =>
              (RankOf[p].scope = RankOf[q].scope
                <=> Distance(Chain, RankOf[p].scope) = Distance(Chain, RankOf[q].scope))
<1>1. \A q \in Providers : RankOf[q] # None =>
        RankOf[q] \in [scope: Range(Chain), key: Int, ranking: Int]
  BY LoopAssumption
<1> QED
  BY <1>1, DistanceTells

\* iPOPO's order is a weak order.
LEMMA BetterOrders ==
  ASSUME NEW p \in Providers, NEW q \in Providers, NEW r \in Providers
  PROVE  /\ Better(p, q) => ~Better(q, p)
         /\ Better(p, q) /\ Better(q, r) => Better(p, r)
         /\ Better(p, r) => Better(p, q) \/ Better(q, r)
<1> DEFINE d(x) == Distance(Chain, RankOf[x].scope)
           k(x) == RankOf[x].ranking
<1>1. \A x \in {p, q, r} : RankOf[x] # None => d(x) \in Nat /\ k(x) \in Int
  BY Ranked
<1>2. \A x, y \in {p, q, r} :
        Better(x, y) <=>
          \/ RankOf[x] # None /\ RankOf[y] # None
             /\ (d(x) < d(y) \/ (d(x) = d(y) /\ k(x) > k(y)))
          \/ RankOf[x] = None /\ RankOf[y] # None
  BY Ranked DEF Better
<1> HIDE DEF d, k
<1> QED
  BY <1>1, <1>2

\* With the age of the services it is a total order of a list of them.
LEMMA AheadOrders ==
  ASSUME NEW list \in Seq(Providers), Distinct(list), NEW p \in Range(list), NEW q \in Range(list),
         NEW r \in Range(list)
  PROVE  /\ Ahead(list, p, q) => ~Ahead(list, q, p)
         /\ p # q => Ahead(list, p, q) \/ Ahead(list, q, p)
         /\ Ahead(list, p, q) /\ Ahead(list, q, r) => Ahead(list, p, r)
<1>1. p \in Providers /\ q \in Providers /\ r \in Providers
  BY DEF Range
<1>2. /\ \A x, y : Older(list, x, y) => ~Older(list, y, x)
      /\ \A x, y \in Range(list) : x # y => Older(list, x, y) \/ Older(list, y, x)
      /\ \A x, y, z : Older(list, x, y) /\ Older(list, y, z) => Older(list, x, z)
  BY OlderOrders
<1>3. \A x, y, z \in {p, q, r} :
        /\ Better(x, y) => ~Better(y, x)
        /\ Better(x, y) /\ Better(y, z) => Better(x, z)
        /\ Better(x, z) => Better(x, y) \/ Better(y, z)
  BY <1>1, BetterOrders
<1>4. Ahead(list, p, q) => ~Ahead(list, q, p)
  BY <1>2, <1>3 DEF Ahead
<1>5. p # q => Ahead(list, p, q) \/ Ahead(list, q, p)
  BY <1>2, <1>3 DEF Ahead
<1>6. Ahead(list, p, q) /\ Ahead(list, q, r) => Ahead(list, p, r)
  BY <1>2, <1>3 DEF Ahead
<1> QED
  BY <1>4, <1>5, <1>6

\* There is one best service.
LEMMA BestUnique ==
  ASSUME NEW list \in Seq(Providers), Distinct(list), NEW f, NEW S, S \subseteq Range(list),
         NEW x, NEW y, BestOf(list, f, S, x), BestOf(list, f, S, y)
  PROVE  x = y
<1>1. S \subseteq Providers /\ None \notin S
  BY LoopAssumption DEF Range
<1>2. CASE x \in S /\ y \in S /\ x # y
  <2>1. Ahead(list, x, y) /\ Ahead(list, y, x)
    BY <1>1, <1>2 DEF BestOf
  <2> QED
    BY <2>1, <1>2, AheadOrders
<1> QED
  BY <1>1, <1>2 DEF BestOf

\* The best is the best among those that are for the field, whatever else there
\* is, and in any list that has them in the same order.
LEMMA BestAmong ==
  ASSUME NEW list, NEW other, NEW f, NEW S, NEW T, NEW x, BestOf(list, f, S, x),
         \A q : q \in T /\ f \in Dependencies(q) <=> q \in S /\ f \in Dependencies(q),
         \A p, q \in S : Older(list, p, q) => Older(other, p, q)
  PROVE  BestOf(other, f, T, x)
BY DEF BestOf, Ahead

\* A service that comes is the best if it is better than the best before.
LEMMA BestWithNew ==
  ASSUME NEW list \in Seq(Providers), Distinct(list), NEW f, NEW S, S \subseteq Range(list),
         NEW p \in Range(list), \A q \in S : Older(list, q, p), f \in Dependencies(p),
         NEW x, BestOf(list, f, S, x)
  PROVE  /\ x = None \/ Better(p, x) => BestOf(list, f, S \union {p}, p)
         /\ ~(x = None \/ Better(p, x)) => BestOf(list, f, S \union {p}, x)
<1>1. S \subseteq Providers /\ p \in Providers /\ None \notin S
  BY LoopAssumption DEF Range
<1>2. CASE x = None
  BY <1>1, <1>2 DEF BestOf
<1>3. CASE x # None /\ Better(p, x)
  <2>1. x \in S /\ x \in Providers
    BY <1>1, <1>3 DEF BestOf
  <2>2. \A q \in S : f \in Dependencies(q) => Better(p, q)
    <3> TAKE q \in S
    <3> HAVE f \in Dependencies(q)
    <3>1. q = x \/ Ahead(list, x, q)
      BY <1>3, <2>1 DEF BestOf
    <3>2. CASE q = x
      BY <3>2, <1>3
    <3>3. CASE Better(x, q)
      BY <3>3, <1>1, <1>3, <2>1, BetterOrders
    <3>4. CASE ~Better(q, x)
      BY <3>4, <1>1, <1>3, <2>1, BetterOrders
    <3> QED
      BY <3>1, <3>2, <3>3, <3>4 DEF Ahead
  <2> QED
    BY <1>3, <2>2 DEF BestOf, Ahead
<1>4. CASE x # None /\ ~Better(p, x)
  <2>1. x \in S /\ Ahead(list, x, p)
    BY <1>1, <1>4 DEF BestOf, Ahead
  <2> QED
    BY <1>4, <2>1 DEF BestOf
<1> QED
  BY <1>2, <1>3, <1>4

\* The least of some numbers is one of them.
LEMMA LeastExists ==
  ASSUME NEW S \in SUBSET Nat, S # {}
  PROVE  \E x \in S : \A y \in S : x <= y
<1> DEFINE R == {ss \in Nat \X Nat : ss[1] < ss[2]}
<1>1. OpToRel(<, Nat) = R
  BY Zenon DEF OpToRel
<1>2. IsWellFoundedOn(OpToRel(<, Nat), Nat)
  BY Zenon, NatLessThanWellFounded
<1>3. IsWellFoundedOn(R, Nat)
  BY <1>1, <1>2, Zenon
<1>4. PICK x \in S : \A y \in S : ~(<<y, x>> \in R)
  <2> HIDE DEF R
  <2> QED
    BY <1>3, WFMin, Zenon
<1>5. \A y \in S : ~(y < x)
  BY <1>4
<1> QED
  BY <1>5

\* There is a best service for a field that any service is for.
LEMMA BestExists ==
  ASSUME NEW list \in Seq(Providers), Distinct(list), NEW f
  PROVE  \E x : BestOf(list, f, Range(list), x)
<1> DEFINE Upto(n) == {list[i] : i \in 1..n}
           Has(n) == \E x : BestOf(list, f, Upto(n), x)
           without == {n \in 0..Len(list) : ~Has(n)}
<1>1. DOMAIN list = 1..Len(list) /\ Len(list) \in Nat
  BY LenProperties
<1>2. Has(0)
  <2>1. Upto(0) = {}
    BY <1>1
  <2>2. BestOf(list, f, Upto(0), None)
    BY <2>1 DEF BestOf
  <2> QED
    BY <2>2
<1>3. ASSUME NEW n \in 1..Len(list), Has(n - 1)
      PROVE  Has(n)
  <2>1. PICK x : BestOf(list, f, Upto(n - 1), x)
    BY <1>3
  <2>2. PICK e : e = list[n]
    OBVIOUS
  <2>3. e \in Range(list)
    BY <2>2, <1>1 DEF Range
  <2>4. Upto(n - 1) \subseteq Range(list) /\ \A q \in Upto(n - 1) : Older(list, q, e)
    BY <2>2, <1>1 DEF Range, Older
  <2>5. Upto(n) = Upto(n - 1) \union {e}
    BY <2>2, <1>1
  <2>6. \E y : BestOf(list, f, Upto(n - 1) \union {e}, y)
    <3> HIDE DEF Upto
    <3> HIDE DEF Has
    <3>1. CASE f \in Dependencies(e)
      <4>1. \/ BestOf(list, f, Upto(n - 1) \union {e}, e)
            \/ BestOf(list, f, Upto(n - 1) \union {e}, x)
        BY <3>1, <2>1, <2>3, <2>4, BestWithNew
      <4> QED
        BY <4>1
    <3>2. CASE f \notin Dependencies(e)
      <4>1. BestOf(list, f, Upto(n - 1) \union {e}, x)
        BY <3>2, <2>1 DEF BestOf
      <4> QED
        BY <4>1
    <3> QED
      BY <3>1, <3>2
  <2> QED
    BY <2>5, <2>6
<1>4. Has(Len(list))
  <2> HIDE DEF Has
  <2>1. ASSUME NEW n \in without, \A m \in without : n <= m
        PROVE  FALSE
    <3>1. n \in 0..Len(list) /\ ~Has(n)
      OBVIOUS
    <3>2. n \in 1..Len(list)
      BY <3>1, <1>1, <1>2
    <3>3. n - 1 \in 0..Len(list) /\ ~(n <= n - 1)
      BY <3>2, <1>1
    <3>4. Has(n - 1)
      BY <3>3, <2>1
    <3> QED
      BY <3>1, <3>2, <3>4, <1>3
  <2>2. without \in SUBSET Nat
    BY <1>1
  <2>3. without = {}
    <3> HIDE DEF without
    <3> QED
      BY <2>1, <2>2, LeastExists
  <2> QED
    BY <2>3, <1>1
<1>5. Upto(Len(list)) = Range(list)
  BY <1>1 DEF Range
<1> QED
  BY <1>4, <1>5

\* It is what iPOPO puts in the place of a service that goes.
LEMMA ReplacementIsBest ==
  ASSUME NEW list \in Seq(Providers), Distinct(list), NEW f
  PROVE  BestOf(list, f, Range(list), Replacement(f, list))
<1> DEFINE for == {p \in Range(list) : f \in Dependencies(p)}
           First(p) == \A q \in for \ {p} : Better(p, q) \/ (~Better(q, p) /\ Older(list, p, q))
<1>1. PICK x : BestOf(list, f, Range(list), x)
  BY BestExists
<1>2. CASE for = {}
  BY <1>2 DEF Replacement, BestOf
<1>3. CASE for # {}
  <2>1. x \in for /\ First(x)
    BY <1>1, <1>3 DEF BestOf, Ahead
  <2>2. PICK y : y = CHOOSE p \in for : First(p)
    OBVIOUS
  <2>3. y \in for /\ First(y)
    BY <2>1, <2>2
  <2>4. Replacement(f, list) = y
    BY <1>3, <2>2 DEF Replacement
  <2> QED
    BY <2>3, <2>4 DEF BestOf, Ahead
<1> QED
  BY <1>2, <1>3

\* Which fields a service is for
LEMMA DependsOn ==
  ASSUME NEW p \in Providers
  PROVE  /\ Dependencies(p) \subseteq Fields /\ Dependencies(p) # {}
         /\ "llm" \in Dependencies(p) <=> FieldOf[p] = "llm"
         /\ "scoped" \in Dependencies(p) <=> FieldOf[p] = "llm"
         /\ \A d \in {"tools"} \union Options : d \in Dependencies(p) <=> FieldOf[p] = d
BY LoopAssumption DEF Dependencies, Fields, BestFields, Aggregates, Options

\* Of two llms one is better, and it is the one the loop prefers.
LEMMA LlmsCompare ==
  ASSUME LlmsDiffer, NEW p \in Providers, NEW q \in Providers, p # q,
         FieldOf[p] = "llm", FieldOf[q] = "llm"
  PROVE  /\ Better(p, q) \/ Better(q, p)
         /\ Better(p, q) <=> Preferred(Chain, RankOf[p], RankOf[q])
<1> DEFINE a == RankOf[p]
           b == RankOf[q]
<1>1. a # None /\ b # None /\ (a.scope = b.scope => a.ranking # b.ranking)
  BY DEF LlmsDiffer
<1>2. /\ Distance(Chain, a.scope) \in Nat /\ Distance(Chain, b.scope) \in Nat
      /\ a.ranking \in Int /\ b.ranking \in Int
      /\ a.scope = b.scope <=> Distance(Chain, a.scope) = Distance(Chain, b.scope)
  BY <1>1, Ranked
<1>3. Better(p, q) <=> \/ Distance(Chain, a.scope) < Distance(Chain, b.scope)
                       \/ a.scope = b.scope /\ a.ranking > b.ranking
  BY <1>1 DEF Better
<1>4. Better(q, p) <=> \/ Distance(Chain, b.scope) < Distance(Chain, a.scope)
                       \/ b.scope = a.scope /\ b.ranking > a.ranking
  BY <1>1 DEF Better
<1> HIDE DEF a, b
<1>5. Preferred(Chain, a, b) <=> \/ Distance(Chain, a.scope) < Distance(Chain, b.scope)
                                 \/ a.scope = b.scope /\ a.ranking > b.ranking
  BY <1>1, <1>2 DEF Preferred
<1>6. Better(p, q) \/ Better(q, p)
  BY <1>1, <1>2, <1>3, <1>4
<1> QED
  BY <1>3, <1>5, <1>6 DEF a, b

\* There is one nearest llm of some ...
LEMMA NearestUnique ==
  ASSUME NEW S \in SUBSET Providers, NEW x, NEW y, Nearest(x, S), Nearest(y, S)
  PROVE  x = y
BY BetterOrders DEF Nearest

\* ... which is the best for iPOPO, ...
LEMMA BestIsNearest ==
  ASSUME LlmsDiffer, NEW list \in Seq(Providers), Distinct(list), NEW S \in SUBSET Range(list),
         NEW x, x # None, BestOf(list, "llm", S, x)
  PROVE  Nearest(x, {q \in S : FieldOf[q] = "llm"})
<1>1. S \subseteq Providers
  BY DEF Range
<1>2. x \in S /\ FieldOf[x] = "llm"
  BY <1>1, DependsOn DEF BestOf
<1>3. ASSUME NEW q \in S \ {x}, FieldOf[q] = "llm"
      PROVE  Better(x, q)
  <2>1. Ahead(list, x, q)
    BY <1>1, <1>3, DependsOn DEF BestOf
  <2> QED
    BY <2>1, <1>1, <1>2, <1>3, LlmsCompare DEF Ahead
<1> QED
  BY <1>2, <1>3 DEF Nearest

\* ... and the one the loop selects, where it knows them all.
LEMMA NearestIsSelected ==
  ASSUME LlmsDiffer, NEW list \in Seq(Providers), Distinct(list), Range(list) # {},
         \A p \in Range(list) : FieldOf[p] = "llm",
         NEW K \in SUBSET Providers, Range(list) \subseteq K
  PROVE  \E x : /\ Nearest(x, Range(list))
                /\ ResolveInjectedBest(Chain, list, [p \in K |-> RankOf[p]]) = {x}
<1> DEFINE rank == [p \in K |-> RankOf[p]]
           S == Range(list)
<1>1. S \subseteq Providers /\ \A p \in S : p \in DOMAIN rank /\ rank[p] = RankOf[p] /\ RankOf[p] # None
  BY DEF Range, LlmsDiffer
<1>2. PICK x : BestOf(list, "llm", S, x)
  BY BestExists
<1>3. x # None
  <2>1. PICK p \in S : TRUE
    OBVIOUS
  <2>2. "llm" \in Dependencies(p)
    BY <2>1, <1>1, DependsOn
  <2> QED
    BY <2>1, <2>2, <1>1, <1>2, LoopAssumption DEF BestOf
<1>4. Nearest(x, S)
  <2>1. {q \in S : FieldOf[q] = "llm"} = S
    OBVIOUS
  <2> HIDE DEF S
  <2>2. S \in SUBSET Range(list)
    BY DEF S
  <2> QED
    BY <2>1, <2>2, <1>2, <1>3, BestIsNearest
<1>5. ScopedProviders(Chain, list, rank) = S
  BY <1>1, Ranked DEF ScopedProviders
<1> HIDE DEF rank
<1>6. \A p, q \in S : p # q => (InjectedBefore(Chain, list, rank, p, q) <=> Better(p, q))
  <2> TAKE p, q \in S
  <2> HAVE p # q
  <2>1. /\ Better(p, q) <=> Preferred(Chain, rank[p], rank[q])
        /\ Better(q, p) <=> Preferred(Chain, rank[q], rank[p])
        /\ Better(p, q) \/ Better(q, p)
    BY <1>1, LlmsCompare
  <2> QED
    BY <2>1, <1>1, BetterOrders DEF InjectedBefore
<1>7. ResolveInjectedBest(Chain, list, rank) = {p \in S : \A q \in S \ {p} : Better(p, q)}
  BY <1>5, <1>6 DEF ResolveInjectedBest
<1>8. {p \in S : \A q \in S \ {p} : Better(p, q)} = {x}
  <2>1. x \in S /\ \A q \in S \ {x} : Better(x, q)
    BY <1>4 DEF Nearest
  <2>2. \A p \in S : (\A q \in S \ {p} : Better(p, q)) => p = x
    BY <2>1, <1>1, BetterOrders
  <2> QED
    BY <2>1, <2>2
<1> QED
  BY <1>4, <1>7, <1>8 DEF rank

\* What the loop selects is injected.
LEMMA SelectedIsInjected ==
  ASSUME NEW list, NEW rank
  PROVE  ResolveInjectedBest(Chain, list, rank) \subseteq Range(list)
BY DEF ResolveInjectedBest, ScopedProviders

\* NearestLlm is the nearest llm.
LEMMA NearestIsNearestLlm ==
  ASSUME LlmsDiffer, Installed("llm") \subseteq Providers, NEW x, Nearest(x, Installed("llm"))
  PROVE  NearestLlm = x
<1> DEFINE S == Installed("llm")
           Fits(p) == \A q \in S : ~Preferred(Chain, RankOf[q], RankOf[p])
<1>1. \A p \in S : p \in Providers /\ FieldOf[p] = "llm"
  BY DEF Installed
<1> HIDE DEF S
<1>2. x \in S /\ \A q \in S \ {x} : Better(x, q)
  BY DEF Nearest, S
<1>3. ~Preferred(Chain, RankOf[x], RankOf[x])
  BY <1>1, <1>2, Ranked DEF Preferred, LlmsDiffer
<1>4. Fits(x)
  <2> TAKE q \in S
  <2>1. CASE q = x
    BY <2>1, <1>3
  <2>2. CASE q # x
    <3>1. Better(x, q) /\ ~Better(q, x)
      BY <2>2, <1>1, <1>2, BetterOrders
    <3> QED
      BY <3>1, <2>2, <1>1, <1>2, LlmsCompare
  <2> QED
    BY <2>1, <2>2
<1>5. \A p \in S : Fits(p) => p = x
  <2> TAKE p \in S
  <2> HAVE Fits(p)
  <2> SUFFICES ASSUME p # x PROVE FALSE
    OBVIOUS
  <2>1. Better(x, p)
    BY <1>2
  <2>2. Preferred(Chain, RankOf[x], RankOf[p])
    BY <2>1, <1>1, <1>2, LlmsCompare
  <2> QED
    BY <2>2, <1>2
<1>6. NearestLlm = CHOOSE p \in S : Fits(p)
  BY DEF NearestLlm, S
<1> HIDE DEF Fits
<1> QED
  BY <1>2, <1>4, <1>5, <1>6

(***************************************************************************)
(* What is shown of an aggregate.                                          *)
(***************************************************************************)

\* A finite set that is ordered can be put in order.
LEMMA SortedExists ==
  ASSUME NEW S, IsFiniteSet(S), NEW R,
         \A p \in S : <<p, p>> \notin R,
         \A p, q \in S : p # q => <<p, q>> \in R \/ <<q, p>> \in R,
         \A p, q, r \in S : <<p, q>> \in R /\ <<q, r>> \in R => <<p, r>> \in R
  PROVE  \E s \in [1 .. Cardinality(S) -> S] :
           \A i, j \in DOMAIN s : i < j => <<s[i], s[j]>> \in R
<1> DEFINE n == Cardinality(S)
           Before(p) == {q \in S : <<q, p>> \in R}
           place == [p \in S |-> Cardinality(Before(p)) + 1]
<1>1. n \in Nat
  BY FS_CardinalityType
<1>2. \A p \in S : IsFiniteSet(Before(p)) /\ Cardinality(Before(p)) \in Nat
  <2> TAKE p \in S
  <2>1. Before(p) \in SUBSET S
    OBVIOUS
  <2> HIDE DEF Before
  <2>2. IsFiniteSet(Before(p))
    BY <2>1, FS_Subset
  <2> QED
    BY <2>2, FS_CardinalityType
<1>3. \A p \in S : place[p] \in 1 .. n
  <2> TAKE p \in S
  <2>1. Before(p) \in SUBSET S /\ p \notin Before(p)
    OBVIOUS
  <2>2. place[p] = Cardinality(Before(p)) + 1
    OBVIOUS
  <2> HIDE DEF Before, place
  <2>3. Cardinality(Before(p)) <= n /\ Cardinality(Before(p)) # n
    BY <2>1, FS_Subset
  <2> QED
    BY <1>1, <1>2, <2>2, <2>3
<1>4. ASSUME NEW p \in S, NEW q \in S, <<p, q>> \in R
      PROVE  place[p] < place[q]
  <2>1. Before(p) \in SUBSET Before(q) /\ p \in Before(q) /\ p \notin Before(p)
    BY <1>4
  <2>2. place[p] = Cardinality(Before(p)) + 1 /\ place[q] = Cardinality(Before(q)) + 1
    OBVIOUS
  <2> HIDE DEF Before, place
  <2>3. Cardinality(Before(p)) <= Cardinality(Before(q)) /\ Cardinality(Before(p)) # Cardinality(Before(q))
    BY <1>2, <2>1, FS_Subset
  <2> QED
    BY <1>2, <2>2, <2>3
<1>5. place \in [S -> 1 .. n]
  BY <1>3
<1> HIDE DEF place, n, Before
<1>6. ASSUME NEW p \in S, NEW q \in S, p # q
      PROVE  place[p] # place[q]
  <2>1. place[p] \in Nat /\ place[q] \in Nat
    BY <1>1, <1>3
  <2>2. <<p, q>> \in R \/ <<q, p>> \in R
    BY <1>6
  <2>3. place[p] < place[q] \/ place[q] < place[p]
    BY <1>4, <2>2
  <2> QED
    BY <2>1, <2>3
<1>7. place \in Injection(S, 1 .. n)
  BY <1>5, <1>6 DEF Injection, IsInjective
<1>8. IsFiniteSet(1 .. n) /\ Cardinality(1 .. n) = n
  BY <1>1, FS_Interval
<1>9. place \in Surjection(S, 1 .. n)
  <2>1. Cardinality(S) = Cardinality(1 .. n)
    BY <1>8 DEF n
  <2> QED
    BY <1>7, <1>8, <2>1, FS_Injection
<1>10. \A i \in 1 .. n : \E p \in S : place[p] = i
  BY <1>9 DEF Surjection
<1> DEFINE s == [i \in 1 .. n |-> CHOOSE p \in S : place[p] = i]
<1>11. \A i \in 1 .. n : s[i] \in S /\ place[s[i]] = i
  BY <1>10
<1>12. s \in [1 .. n -> S] /\ DOMAIN s = 1 .. n
  BY <1>11
<1> HIDE DEF s
<1>13. ASSUME NEW i \in 1 .. n, NEW j \in 1 .. n, i < j
       PROVE  <<s[i], s[j]>> \in R
  <2>1. s[i] \in S /\ s[j] \in S /\ place[s[i]] = i /\ place[s[j]] = j
    BY <1>11
  <2>2. s[i] # s[j] /\ ~(j < i)
    BY <1>1, <1>13, <2>1
  <2>3. <<s[j], s[i]>> \notin R
    BY <1>4, <2>1, <2>2
  <2> QED
    BY <2>1, <2>2, <2>3
<1>14. \A i, j \in DOMAIN s : i < j => <<s[i], s[j]>> \in R
  BY <1>12, <1>13
<1> QED
  BY <1>12, <1>14 DEF n

\* The place of a service in a list is where it stands.
LEMMA PlaceIsWhere ==
  ASSUME NEW list \in Seq(Providers), Distinct(list), NEW p \in Range(list)
  PROVE  Place(list, p) \in Nat /\ Place(list, p) \in DOMAIN list /\ list[Place(list, p)] = p
<1>1. PICK i \in DOMAIN list : list[i] = p
  BY DEF Range
<1>2. DOMAIN list = 1 .. Len(list) /\ Len(list) \in Nat
  OBVIOUS
<1>3. {k \in 1 .. Len(list) : list[k] = p} = {i}
  BY <1>1, <1>2 DEF Distinct
<1>4. Min({i}) = i
  BY <1>1, <1>2 DEF Min
<1>5. Place(list, p) = i
  BY <1>3, <1>4 DEF Place, SelectInSeq
<1> QED
  BY <1>1, <1>2, <1>5

\* The services of a list with metadata, and all of them, are put in an order.
LEMMA PrecedesOrders ==
  ASSUME NEW list \in Seq(Providers), Distinct(list),
         NEW K \in SUBSET Providers, \A p \in K : RankOf[p] # None,
         NEW rank, rank = [p \in K |-> RankOf[p]]
  PROVE  LET L == Range(list)
             B(p, q) == InjectedBefore(Chain, list, rank, p, q)
             P(p, q) == Precedes(Chain, list, rank, p, q)
         IN  /\ \A p, q \in L \intersect K : B(p, q) => ~B(q, p)
             /\ \A p \in L : ~P(p, p)
             /\ \A p, q \in L : p # q => P(p, q) \/ P(q, p)
             /\ \A p, q, r \in L : P(p, q) /\ P(q, r) => P(p, r)
<1> DEFINE L == Range(list)
           B(p, q) == InjectedBefore(Chain, list, rank, p, q)
           P(p, q) == Precedes(Chain, list, rank, p, q)
           F(p, q) == Preferred(Chain, RankOf[p], RankOf[q])
           D(p) == Distance(Chain, RankOf[p].scope)
           at(p) == Place(list, p)
<1>1. \A p \in L : at(p) \in Nat /\ (\A q \in L : at(p) = at(q) => p = q)
  BY PlaceIsWhere
<1>2. \A p \in K : D(p) \in Nat /\ RankOf[p].ranking \in Int /\ RankOf[p].key \in Int
  BY Ranked
<1>3. \A p, q \in K : F(p, q) <=>
        \/ D(p) < D(q)
        \/ D(p) = D(q) /\ RankOf[p].ranking > RankOf[q].ranking
        \/ D(p) = D(q) /\ RankOf[p].ranking = RankOf[q].ranking /\ RankOf[p].key < RankOf[q].key
  BY DEF Preferred
<1>4. \A p, q \in K : B(p, q) <=> F(p, q) \/ (~F(q, p) /\ at(p) < at(q))
  BY DEF InjectedBefore
<1>5. \A p, q \in L : P(p, q) <=> IF p \in K THEN q \in K => B(p, q) ELSE q \notin K /\ at(p) < at(q)
  BY DEF Precedes
<1> HIDE DEF L, B, P, F, D, at
<1>6. \A p, q \in K : F(p, q) => ~F(q, p)
  BY <1>2, <1>3
<1>7. \A p, q, r \in K : F(p, q) /\ F(q, r) => F(p, r)
  BY <1>2, <1>3
<1>8. \A p, q, r \in K : ~F(p, q) /\ ~F(q, p) => (F(p, r) <=> F(q, r)) /\ (F(r, p) <=> F(r, q))
  BY <1>2, <1>3
<1>9. \A p, q \in L \intersect K : B(p, q) => ~B(q, p)
  BY <1>1, <1>4, <1>6
<1>10. \A p, q \in L \intersect K : p # q => B(p, q) \/ B(q, p)
  BY <1>1, <1>4
<1>11. ASSUME NEW p \in L \intersect K, NEW q \in L \intersect K, NEW r \in L \intersect K, B(p, q), B(q, r)
       PROVE  B(p, r)
  <2>1. F(p, q) \/ (~F(p, q) /\ ~F(q, p) /\ at(p) < at(q))
    BY <1>4, <1>11
  <2>2. F(q, r) \/ (~F(q, r) /\ ~F(r, q) /\ at(q) < at(r))
    BY <1>4, <1>11
  <2>3. CASE F(p, q) \/ F(q, r)
    <3>1. F(p, r)
      BY <2>1, <2>2, <2>3, <1>7, <1>8
    <3> QED
      BY <3>1, <1>4
  <2>4. CASE ~F(p, q) /\ ~F(q, r)
    <3>1. ~F(p, r) /\ ~F(r, p)
      BY <2>1, <2>2, <2>4, <1>8
    <3>2. at(p) < at(r)
      BY <2>1, <2>2, <2>4, <1>1
    <3> QED
      BY <3>1, <3>2, <1>4
  <2> QED
    BY <2>3, <2>4
<1>12. \A p \in L : ~P(p, p)
  BY <1>1, <1>5, <1>9
<1>13. \A p, q \in L : p # q => P(p, q) \/ P(q, p)
  BY <1>1, <1>5, <1>10
<1>14. \A p, q, r \in L : P(p, q) /\ P(q, r) => P(p, r)
  <2> TAKE p, q, r \in L
  <2> HAVE P(p, q) /\ P(q, r)
  <2>1. CASE p \in K /\ q \in K /\ r \in K
    BY <2>1, <1>5, <1>11
  <2>2. CASE ~(p \in K /\ q \in K /\ r \in K)
    BY <2>2, <1>1, <1>5
  <2> QED
    BY <2>1, <2>2
<1> QED
  BY <1>9, <1>12, <1>13, <1>14 DEF L, B, P

\* What the loop makes of an aggregate has the services of the list that are not
\* shadowed, or not known, and of those that are known a key once.
LEMMA ResolvedFacts ==
  ASSUME NEW list \in Seq(Providers), Distinct(list),
         NEW K \in SUBSET Providers, \A p \in K : RankOf[p] # None,
         NEW r, r = ResolveInjected(Chain, list, [p \in K |-> RankOf[p]])
  PROVE  /\ r \in Seq(Providers) /\ Range(r) \subseteq Range(list)
         /\ Chain # <<>> => \A p, q \in Range(r) \intersect K : RankOf[p].key = RankOf[q].key => p = q
<1> DEFINE M == Range(list) \intersect K
           rank == [p \in M |-> RankOf[p]]
           kept == Unshadowed(Chain, list, rank)
           shown == kept \union (Range(list) \ M)
<1>1. Restrict([p \in K |-> RankOf[p]], Range(list) \intersect DOMAIN [p \in K |-> RankOf[p]]) = rank
  BY DEF Restrict
<1>2. r = ResolveRanked(Chain, list, rank)
  <2> HIDE DEF rank
  <2> QED
    BY <1>1 DEF ResolveInjected
<1>3. Range(list) \subseteq Providers /\ IsFiniteSet(Range(list))
  <2>1. Range(list) \subseteq Providers
    BY DEF Range
  <2>2. IsFiniteSet(1 .. Len(list)) /\ DOMAIN list = 1 .. Len(list)
    BY FS_Interval
  <2>3. list \in Surjection(1 .. Len(list), Range(list))
    BY <2>2 DEF Surjection, Range
  <2> QED
    BY <2>1, <2>2, <2>3, FS_Surjection
<1>4. CASE Chain = <<>>
  <2>1. r = list
    BY <1>2, <1>4 DEF ResolveRanked
  <2> QED
    BY <1>4, <2>1
<1>5. CASE Chain # <<>>
  <2>1. M \in SUBSET Providers /\ \A p \in M : RankOf[p] # None
    BY <1>3
  <2>2. DOMAIN rank = M
    OBVIOUS
  <2>3. PICK rk : rk = rank
    OBVIOUS
  <2> DEFINE B(p, q) == InjectedBefore(Chain, list, rk, p, q)
             P(p, q) == Precedes(Chain, list, rk, p, q)
             R == {pq \in Range(list) \X Range(list) : P(pq[1], pq[2])}
  <2>4. /\ \A p, q \in Range(list) \intersect M : B(p, q) => ~B(q, p)
        /\ \A p \in Range(list) : ~P(p, p)
        /\ \A p, q \in Range(list) : p # q => P(p, q) \/ P(q, p)
        /\ \A p, q, t \in Range(list) : P(p, q) /\ P(q, t) => P(p, t)
    <3> HIDE DEF M
    <3> QED
      BY <2>1, <2>3, PrecedesOrders
  <2>5. kept \subseteq M /\ \A p \in kept, q \in kept : p # q /\ RankOf[p].key = RankOf[q].key => B(p, q)
    <3>1. kept = {p \in ScopedProviders(Chain, list, rk) : \A q \in ScopedProviders(Chain, list, rk) \ {p} :
                    rk[q].key = rk[p].key => B(p, q)}
      BY <2>3 DEF Unshadowed
    <3>2. ScopedProviders(Chain, list, rk) \subseteq M
      BY <2>2, <2>3 DEF ScopedProviders
    <3>3. \A p \in M : rk[p] = RankOf[p]
      BY <2>3
    <3> HIDE DEF kept, rank, M, B
    <3> QED
      BY <3>1, <3>2, <3>3
  <2>6. shown \subseteq Range(list) /\ IsFiniteSet(shown)
    <3>1. shown \in SUBSET Range(list)
      BY <2>5
    <3> HIDE DEF shown
    <3> QED
      BY <3>1, <1>3, FS_Subset
  <2>7. r = CHOOSE s \in [1 .. Cardinality(shown) -> shown] :
              \A i, j \in DOMAIN s : i < j => P(s[i], s[j])
    BY <1>2, <1>5, <2>2, <2>3 DEF ResolveRanked
  <2> HIDE DEF shown
  <2>8. \A p, q \in shown : <<p, q>> \in R <=> P(p, q)
    BY <2>6
  <2>9. \E s \in [1 .. Cardinality(shown) -> shown] : \A i, j \in DOMAIN s : i < j => <<s[i], s[j]>> \in R
    <3>1. /\ \A p \in shown : <<p, p>> \notin R
          /\ \A p, q \in shown : p # q => <<p, q>> \in R \/ <<q, p>> \in R
          /\ \A p, q, t \in shown : <<p, q>> \in R /\ <<q, t>> \in R => <<p, t>> \in R
      <4> HIDE DEF R, P
      <4> QED
        BY <2>4, <2>6, <2>8
    <3> HIDE DEF R
    <3> QED
      BY <2>6, <3>1, SortedExists
  <2>10. \E s \in [1 .. Cardinality(shown) -> shown] : \A i, j \in DOMAIN s : i < j => P(s[i], s[j])
    <3> HIDE DEF R, P
    <3> QED
      BY <2>8, <2>9
  <2>11. r \in [1 .. Cardinality(shown) -> shown]
    <3> HIDE DEF P
    <3> QED
      BY <2>7, <2>10
  <2>12. Cardinality(shown) \in Nat
    BY <2>6, FS_CardinalityType
  <2>13. r \in Seq(Providers) /\ Range(r) \subseteq shown
    BY <1>3, <2>6, <2>11, <2>12 DEF Range
  <2>14. \A p, q \in Range(r) \intersect K : RankOf[p].key = RankOf[q].key => p = q
    <3> TAKE p, q \in Range(r) \intersect K
    <3> HAVE RankOf[p].key = RankOf[q].key
    <3>1. p \in kept /\ q \in kept
      BY <2>6, <2>13 DEF shown
    <3> HIDE DEF kept, B
    <3> QED
      BY <3>1, <2>4, <2>5
  <2> QED
    BY <2>6, <2>13, <2>14
<1> QED
  BY <1>4, <1>5

(***************************************************************************)
(* What the component's helpers do to its attributes. Each lemma has the   *)
(* attributes before, l, and after, a, and says which differ.              *)
(***************************************************************************)

\* The attributes of l and a are the same, the graph aside.
SameFields(l, a) ==
  /\ a.llm = l.llm /\ a.lists = l.lists /\ a.options = l.options
  /\ a.excluded = l.excluded /\ a.rejected = l.rejected /\ a.remembered = l.remembered

\* What the loop selects from, and with what it knows
Selected(l) == ResolveInjectedBest(Chain, Without(l, "scoped"), [p \in Known(l) |-> RankOf[p]])

\* The loop has chosen its llm, or kept it for want of a choice.
Chosen(llm, a) == (Selected(a) = {} /\ a.llm = llm) \/ a.llm \in Selected(a)

\* There is no graph, or one is to be compiled.
Outcome(r) ==
  \/ r.inputs = NoGraph /\ r.after.graph = NoGraph
  \/ r.inputs = Inputs(r.after) /\ r.after.llm # None

\* DropGraph leaves every other attribute alone.
LEMMA DropGraphEffect ==
  ASSUME NEW l, Shape(l), NEW a, a = DropGraph(l)
  PROVE  Shape(a) /\ SameFields(l, a) /\ a.graph = NoGraph
BY DEF Shape, DropGraph, SameFields

\* Release forgets that the guard rejected a service.
LEMMA ReleaseEffect ==
  ASSUME NEW l, Shape(l), NEW f, NEW p, NEW a, a = Release(l, f, p)
  PROVE  /\ Shape(a) /\ a.llm = l.llm /\ a.lists = l.lists /\ a.options = l.options
         /\ a.excluded = l.excluded /\ a.rejected = l.rejected \ {<<f, p>>}
         /\ a.remembered = l.remembered /\ a.graph = l.graph
BY DEF Shape, Release

\* Remember remembers a service that has metadata.
LEMMA RememberEffect ==
  ASSUME NEW l, Shape(l), NEW p \in Providers, NEW a, a = Remember(l, p)
  PROVE  /\ Shape(a) /\ a.llm = l.llm /\ a.lists = l.lists /\ a.options = l.options
         /\ a.excluded = l.excluded /\ a.rejected = l.rejected /\ a.graph = l.graph
         /\ a.remembered = l.remembered \union ({p} \ {q \in Providers : RankOf[q] = None})
BY DEF Shape, Remember

\* Forget forgets it.
LEMMA ForgetEffect ==
  ASSUME NEW l, Shape(l), NEW p \in Providers, NEW a, a = Forget(l, p)
  PROVE  /\ Shape(a) /\ a.llm = l.llm /\ a.lists = l.lists /\ a.options = l.options
         /\ a.excluded = l.excluded /\ a.rejected = l.rejected /\ a.graph = l.graph
         /\ a.remembered = l.remembered \ {p}
BY DEF Shape, Forget

\* A guard takes a service out of a list ...
LEMMA QuarantineInList ==
  ASSUME NEW l, Shape(l), NEW d \in Aggregates, Distinct(l.lists[d]), NEW p \in Providers,
         NEW a, a = Quarantine(l, d, p)
  PROVE  /\ Shape(a) /\ a.llm = l.llm /\ a.options = l.options
         /\ a.lists = [l.lists EXCEPT ![d] = RemoveFirst(l.lists[d], p)]
         /\ a.excluded = l.excluded /\ a.rejected = l.rejected \union {<<d, p>>}
         /\ a.remembered = l.remembered /\ a.graph = l.graph
<1>1. d # "llm" /\ d \notin Options
  BY DEF Aggregates, Options
<1>2. a = [[l EXCEPT !.lists[d] = RemoveFirst(@, p)] EXCEPT !.rejected = @ \union {<<d, p>>}]
  BY <1>1 DEF Quarantine
<1>3. RemoveFirst(l.lists[d], p) \in Seq(Providers)
  BY RemoveFirstFacts DEF Shape
<1>4. <<d, p>> \in Fields \X Providers
  BY DEF Fields
<1> QED
  BY <1>2, <1>3, <1>4 DEF Shape

\* ... or out of a best field.
LEMMA QuarantineInBest ==
  ASSUME NEW l, Shape(l), NEW f \in BestFields, NEW p \in Providers, NEW a, a = Quarantine(l, f, p)
  PROVE  /\ Shape(a) /\ a.lists = l.lists
         /\ a.llm = (IF f = "llm" THEN None ELSE l.llm)
         /\ a.options = (IF f = "llm" THEN l.options ELSE [l.options EXCEPT ![f] = None])
         /\ a.excluded = l.excluded /\ a.rejected = l.rejected \union {<<f, p>>}
         /\ a.remembered = l.remembered /\ a.graph = l.graph
<1>1. <<f, p>> \in Fields \X Providers
  BY DEF Fields
<1>2. f \notin Aggregates /\ "llm" \notin Options /\ (f # "llm" => f \in Options)
  BY DEF BestFields, Aggregates, Options
<1>3. PICK out : out = IF f = "llm" THEN [l EXCEPT !.llm = None] ELSE [l EXCEPT !.options[f] = None]
  OBVIOUS
<1>4. a = [out EXCEPT !.rejected = @ \union {<<f, p>>}]
  <2>1. CASE f = "llm"
    BY <1>2, <1>3, <2>1 DEF Quarantine
  <2>2. CASE f # "llm"
    BY <1>2, <1>3, <2>2 DEF Quarantine
  <2> QED
    BY <2>1, <2>2
<1>5. /\ DOMAIN out = DOMAIN l /\ out.lists = l.lists
      /\ out.llm = (IF f = "llm" THEN None ELSE l.llm)
      /\ out.options = (IF f = "llm" THEN l.options ELSE [l.options EXCEPT ![f] = None])
      /\ out.excluded = l.excluded /\ out.rejected = l.rejected
      /\ out.remembered = l.remembered /\ out.graph = l.graph
  BY <1>3 DEF Shape
<1>6. /\ DOMAIN a = DOMAIN l /\ a.lists = l.lists
      /\ a.llm = (IF f = "llm" THEN None ELSE l.llm)
      /\ a.options = (IF f = "llm" THEN l.options ELSE [l.options EXCEPT ![f] = None])
      /\ a.excluded = l.excluded /\ a.rejected = l.rejected \union {<<f, p>>}
      /\ a.remembered = l.remembered /\ a.graph = l.graph
  BY <1>4, <1>5 DEF Shape
<1> QED
  BY <1>1, <1>2, <1>6 DEF Shape, Optional

\* _resolve_scoped_llm sets the llm and nothing else.
LEMMA ResolveScopedLlmEffect ==
  ASSUME NEW l, Shape(l), Distinct(l.lists["scoped"]), NEW a, a = ResolveScopedLlm(l)
  PROVE  /\ Shape(a) /\ Chosen(l.llm, a) /\ a.lists = l.lists /\ a.options = l.options
         /\ a.excluded = l.excluded /\ a.rejected = l.rejected
         /\ a.remembered = l.remembered /\ a.graph = l.graph
<1> DEFINE S == Selected(l)
<1>1. S \subseteq Providers
  <2>1. l.lists["scoped"] \in Seq(Providers)
    BY DEF Shape, Aggregates
  <2>2. S \subseteq Range(RemoveFirst(l.lists["scoped"], l.excluded))
    BY SelectedIsInjected DEF Selected, Without
  <2>3. Range(l.lists["scoped"]) \subseteq Providers
    BY <2>1 DEF Range
  <2> QED
    BY <2>1, <2>2, <2>3, RemoveFirstFacts
<1>2. a = IF S = {} THEN l ELSE [l EXCEPT !.llm = CHOOSE p \in S : TRUE]
  BY DEF ResolveScopedLlm, Selected
<1> HIDE DEF S
<1>3. a.lists = l.lists /\ a.excluded = l.excluded /\ a.remembered = l.remembered
  BY <1>2 DEF Shape
<1>4. Selected(a) = S
  BY <1>3 DEF Selected, Without, Known, S
<1>5. CASE S = {}
  BY <1>2, <1>4, <1>5 DEF Chosen
<1>6. CASE S # {}
  <2>1. PICK x : x = CHOOSE p \in S : TRUE
    OBVIOUS
  <2>2. x \in S /\ a = [l EXCEPT !.llm = x]
    BY <1>2, <1>6, <2>1
  <2> QED
    BY <2>2, <1>1, <1>4 DEF Shape, Optional, Chosen
<1> QED
  BY <1>5, <1>6

\* _rebuild drops the graph, or goes on to compile one.
LEMMA RebuildEffect ==
  ASSUME NEW l, Shape(l), NEW thread, NEW r, r = Rebuild(l, thread)
  PROVE  /\ Shape(r.after) /\ SameFields(l, r.after) /\ Outcome(r)
         /\ r.after.graph \in {l.graph, NoGraph} /\ DOMAIN r = {"after", "inputs"}
<1>1. CASE r = [after |-> DropGraph(l), inputs |-> NoGraph]
  BY <1>1, DropGraphEffect DEF Outcome
<1>2. CASE r = [after |-> l, inputs |-> Inputs(l)] /\ l.llm # None
  BY <1>2 DEF Outcome, SameFields
<1> QED
  BY <1>1, <1>2 DEF Rebuild

\* The graph that is to be compiled is one.
LEMMA InputsAreAGraph ==
  ASSUME NEW l, l.llm # None
  PROVE  Inputs(l) # NoGraph
BY DEF Inputs, NoGraph

(***************************************************************************)
(* What the callbacks do.                                                  *)
(***************************************************************************)

\* A service is bound to a list: it is remembered and the llm chosen or the
\* graph rebuilt; or it is taken out again.
LEMMA ListBoundEffect ==
  ASSUME NEW l, Shape(l), \A c \in Aggregates : Distinct(l.lists[c]),
         NEW d \in Aggregates, NEW p \in Providers, NEW r, r = ListBound(l, d, p)
  PROVE  /\ Shape(r.after) /\ r.after.options = l.options /\ r.after.excluded = l.excluded
         /\ r.after.graph \in {l.graph, NoGraph}
         /\ Admits(p) =>
              /\ r.after.lists = l.lists /\ r.after.rejected = l.rejected
              /\ r.after.remembered = l.remembered \union ({p} \ {q \in Providers : RankOf[q] = None})
              /\ (IF d = "scoped" THEN Chosen(l.llm, r.after) ELSE r.after.llm = l.llm)
              /\ Outcome(r)
         /\ ~Admits(p) =>
              /\ r.after.lists = [l.lists EXCEPT ![d] = RemoveFirst(l.lists[d], p)]
              /\ r.after.rejected = l.rejected \union {<<d, p>>}
              /\ r.after.remembered = l.remembered /\ r.after.llm = l.llm
              /\ r.after.graph = l.graph /\ r.inputs = NoGraph
<1>1. CASE ~Admits(p)
  <2>1. r = Only(Quarantine(l, d, p))
    BY <1>1 DEF ListBound, OnScopedLlmBind, OnAggregateBind, Aggregates
  <2>2. PICK q : q = Quarantine(l, d, p)
    OBVIOUS
  <2>3. r.after = q /\ r.inputs = NoGraph
    BY <2>1, <2>2 DEF Only
  <2> QED
    BY <1>1, <2>2, <2>3, QuarantineInList
<1>2. CASE Admits(p) /\ d = "scoped"
  <2>1. PICK m : m = Remember(l, p)
    OBVIOUS
  <2>2. PICK n : n = ResolveScopedLlm(m)
    OBVIOUS
  <2>3. r = Rebuild(n, "event")
    BY <1>2, <2>1, <2>2 DEF ListBound, OnScopedLlmBind
  <2>4. /\ Shape(m) /\ m.llm = l.llm /\ m.lists = l.lists /\ m.options = l.options
        /\ m.excluded = l.excluded /\ m.rejected = l.rejected /\ m.graph = l.graph
        /\ m.remembered = l.remembered \union ({p} \ {q \in Providers : RankOf[q] = None})
    BY <2>1, RememberEffect
  <2>5. /\ Shape(n) /\ Chosen(m.llm, n) /\ n.lists = m.lists /\ n.options = m.options
        /\ n.excluded = m.excluded /\ n.rejected = m.rejected /\ n.remembered = m.remembered
        /\ n.graph = m.graph
    BY <1>2, <2>2, <2>4, ResolveScopedLlmEffect
  <2>6. Shape(r.after) /\ SameFields(n, r.after) /\ Outcome(r) /\ r.after.graph \in {n.graph, NoGraph}
    BY <2>3, <2>5, RebuildEffect
  <2>7. Chosen(l.llm, r.after)
    BY <2>4, <2>5, <2>6 DEF Chosen, Selected, Without, Known, SameFields
  <2> QED
    BY <1>2, <2>4, <2>5, <2>6, <2>7 DEF SameFields
<1>3. CASE Admits(p) /\ d # "scoped"
  <2>1. PICK m : m = Remember(l, p)
    OBVIOUS
  <2>2. r = Rebuild(m, "event")
    BY <1>3, <2>1 DEF ListBound, OnAggregateBind
  <2>3. /\ Shape(m) /\ m.llm = l.llm /\ m.lists = l.lists /\ m.options = l.options
        /\ m.excluded = l.excluded /\ m.rejected = l.rejected /\ m.graph = l.graph
        /\ m.remembered = l.remembered \union ({p} \ {q \in Providers : RankOf[q] = None})
    BY <2>1, RememberEffect
  <2>4. Shape(r.after) /\ SameFields(m, r.after) /\ Outcome(r) /\ r.after.graph \in {m.graph, NoGraph}
    BY <2>2, <2>3, RebuildEffect
  <2> QED
    BY <1>3, <2>3, <2>4 DEF SameFields
<1> QED
  BY <1>1, <1>2, <1>3

\* A service is unbound from a list, which is looked at without it.
LEMMA ListUnboundEffect ==
  ASSUME NEW l, Shape(l), \A c \in Aggregates : Distinct(l.lists[c]),
         NEW d \in Aggregates, NEW p \in Providers, NEW r, r = ListUnbound(l, d, p)
  PROVE  /\ Shape(r.after) /\ r.after.options = l.options /\ r.after.excluded = p
         /\ r.after.lists = l.lists /\ r.after.rejected = l.rejected \ {<<d, p>>}
         /\ r.after.remembered = l.remembered \ {p}
         /\ (IF d = "scoped" THEN Chosen(l.llm, r.after) ELSE r.after.llm = l.llm)
         /\ Outcome(r) /\ DOMAIN r = {"after", "inputs"} /\ r.after.graph \in {l.graph, NoGraph}
<1>1. PICK e : e = [l EXCEPT !.excluded = p]
  OBVIOUS
<1>2. /\ Shape(e) /\ e.llm = l.llm /\ e.lists = l.lists /\ e.options = l.options
      /\ e.excluded = p /\ e.rejected = l.rejected /\ e.remembered = l.remembered
      /\ e.graph = l.graph
  BY <1>1 DEF Shape
<1>3. PICK f : f = Release(e, d, p)
  OBVIOUS
<1>4. /\ Shape(f) /\ f.llm = l.llm /\ f.lists = l.lists /\ f.options = l.options
      /\ f.excluded = p /\ f.rejected = l.rejected \ {<<d, p>>} /\ f.remembered = l.remembered
      /\ f.graph = l.graph
  BY <1>2, <1>3, ReleaseEffect
<1>5. PICK g : g = Forget(f, p)
  OBVIOUS
<1>6. /\ Shape(g) /\ g.llm = l.llm /\ g.lists = l.lists /\ g.options = l.options
      /\ g.excluded = p /\ g.rejected = l.rejected \ {<<d, p>>}
      /\ g.remembered = l.remembered \ {p} /\ g.graph = l.graph
  BY <1>4, <1>5, ForgetEffect
<1>7. CASE d = "scoped"
  <2>1. PICK n : n = ResolveScopedLlm(g)
    OBVIOUS
  <2>2. r = Rebuild(n, "event")
    BY <1>1, <1>3, <1>5, <1>7, <2>1 DEF ListUnbound, OnScopedLlmUnbind
  <2>3. /\ Shape(n) /\ Chosen(g.llm, n) /\ n.lists = g.lists /\ n.options = g.options
        /\ n.excluded = g.excluded /\ n.rejected = g.rejected /\ n.remembered = g.remembered
        /\ n.graph = g.graph
    BY <1>6, <1>7, <2>1, ResolveScopedLlmEffect
  <2>4. /\ Shape(r.after) /\ SameFields(n, r.after) /\ Outcome(r)
        /\ DOMAIN r = {"after", "inputs"} /\ r.after.graph \in {n.graph, NoGraph}
    BY <2>2, <2>3, RebuildEffect
  <2>5. Chosen(l.llm, r.after)
    BY <1>6, <2>3, <2>4 DEF Chosen, Selected, Without, Known, SameFields
  <2> QED
    BY <1>6, <1>7, <2>3, <2>4, <2>5 DEF SameFields
<1>8. CASE d # "scoped"
  <2>1. d = "tools"
    BY <1>8 DEF Aggregates
  <2>2. r = Rebuild(g, "event")
    BY <1>1, <1>3, <1>5, <2>1 DEF ListUnbound, OnAggregateUnbind
  <2>3. /\ Shape(r.after) /\ SameFields(g, r.after) /\ Outcome(r)
        /\ DOMAIN r = {"after", "inputs"} /\ r.after.graph \in {g.graph, NoGraph}
    BY <1>6, <2>2, RebuildEffect
  <2> QED
    BY <1>6, <1>8, <2>3 DEF SameFields
<1> QED
  BY <1>7, <1>8

\* A best field, empty, and with a service
LEMMA SetBestEffect ==
  ASSUME NEW l, Shape(l), NEW f \in BestFields, NEW x \in Optional, NEW a, a = SetBest(l, f, x)
  PROVE  /\ Shape(a) /\ a.lists = l.lists /\ a.excluded = l.excluded
         /\ a.llm = (IF f = "llm" THEN x ELSE l.llm)
         /\ a.options = (IF f = "llm" THEN l.options ELSE [l.options EXCEPT ![f] = x])
         /\ a.rejected = l.rejected /\ a.remembered = l.remembered /\ a.graph = l.graph
<1>1. f # "llm" => f \in Options
  BY DEF BestFields
<1>2. /\ DOMAIN a = DOMAIN l /\ a.lists = l.lists /\ a.excluded = l.excluded
      /\ a.llm = (IF f = "llm" THEN x ELSE l.llm)
      /\ a.options = (IF f = "llm" THEN l.options ELSE [l.options EXCEPT ![f] = x])
      /\ a.rejected = l.rejected /\ a.remembered = l.remembered /\ a.graph = l.graph
  BY DEF SetBest, Shape
<1> QED
  BY <1>1, <1>2 DEF Shape

\* A service is taken out of a best field, and the graph dropped.
LEMMA BestUnboundEffect ==
  ASSUME NEW l, Shape(l), NEW f \in BestFields, NEW p \in Providers, NEW valid \in BOOLEAN,
         NEW a, a = BestUnbound(l, f, p, valid)
  PROVE  /\ Shape(a) /\ a.lists = l.lists /\ a.excluded = l.excluded
         /\ a.llm = (IF f = "llm" THEN None ELSE l.llm)
         /\ a.options = (IF f = "llm" THEN l.options ELSE [l.options EXCEPT ![f] = None])
         /\ a.rejected = (IF f = "llm" /\ ~valid THEN l.rejected ELSE l.rejected \ {<<f, p>>})
         /\ a.remembered = l.remembered /\ a.graph = NoGraph
<1>1. PICK c : c = IF f = "llm" /\ ~valid THEN DropGraph(l) ELSE DropGraph(Release(l, f, p))
  OBVIOUS
<1>2. a = SetBest(c, f, None)
  BY <1>1 DEF BestUnbound, OnLlmUnbind, OnInvalidate, OnOptionUnbind
<1>3. /\ Shape(c) /\ c.lists = l.lists /\ c.excluded = l.excluded /\ c.llm = l.llm
      /\ c.options = l.options /\ c.remembered = l.remembered /\ c.graph = NoGraph
      /\ c.rejected = (IF f = "llm" /\ ~valid THEN l.rejected ELSE l.rejected \ {<<f, p>>})
  <2>1. CASE f = "llm" /\ ~valid
    BY <1>1, <2>1, DropGraphEffect DEF SameFields
  <2>2. CASE ~(f = "llm" /\ ~valid)
    <3>1. PICK b : b = Release(l, f, p)
      OBVIOUS
    <3>2. /\ Shape(b) /\ b.llm = l.llm /\ b.lists = l.lists /\ b.options = l.options
          /\ b.excluded = l.excluded /\ b.rejected = l.rejected \ {<<f, p>>}
          /\ b.remembered = l.remembered
      BY <3>1, ReleaseEffect
    <3>3. Shape(c) /\ SameFields(b, c) /\ c.graph = NoGraph
      BY <1>1, <2>2, <3>1, <3>2, DropGraphEffect
    <3> QED
      BY <2>2, <3>2, <3>3 DEF SameFields
  <2> QED
    BY <2>1, <2>2
<1> QED
  BY <1>2, <1>3, SetBestEffect DEF Optional

\* A service is put into a best field. An invalid component becomes valid with
\* its llm, and chooses; a valid one guards the field.
LEMMA BestBoundEffect ==
  ASSUME NEW l, Shape(l), \A c \in Aggregates : Distinct(l.lists[c]),
         NEW f \in BestFields, NEW p \in Providers, NEW valid \in BOOLEAN,
         NEW r, r = BestBound(l, f, p, valid)
  PROVE  /\ Shape(r.after) /\ r.after.lists = l.lists /\ r.after.excluded = l.excluded
         /\ r.after.remembered = l.remembered /\ r.after.graph \in {l.graph, NoGraph}
         /\ f = "llm" => r.after.options = l.options
         /\ f # "llm" => r.after.llm = l.llm
         /\ valid /\ ~Admits(p) =>
              /\ r.after.rejected = l.rejected \union {<<f, p>>}
              /\ f = "llm" => r.after.llm = None /\ r.after.graph = NoGraph
              /\ f # "llm" => r.after.options = [l.options EXCEPT ![f] = None]
              /\ r.inputs = NoGraph
         /\ ~(valid /\ ~Admits(p)) =>
              /\ r.after.rejected = l.rejected
              /\ f # "llm" => r.after.options = [l.options EXCEPT ![f] = p]
              /\ f = "llm" => IF valid THEN r.after.llm = p ELSE Chosen(p, r.after)
              /\ IF valid \/ f = "llm" THEN Outcome(r)
                 ELSE r.inputs = NoGraph /\ r.after.graph = l.graph
<1>1. PICK s : s = SetBest(l, f, p)
  OBVIOUS
<1>2. /\ Shape(s) /\ s.lists = l.lists /\ s.excluded = l.excluded
      /\ s.llm = (IF f = "llm" THEN p ELSE l.llm)
      /\ s.options = (IF f = "llm" THEN l.options ELSE [l.options EXCEPT ![f] = p])
      /\ s.rejected = l.rejected /\ s.remembered = l.remembered /\ s.graph = l.graph
  BY <1>1, SetBestEffect DEF Optional
<1>3. CASE valid /\ Admits(p)
  <2>1. r = Rebuild(s, "event")
    BY <1>1, <1>3 DEF BestBound, OnLlmBind, OnOptionBind
  <2>2. Shape(r.after) /\ SameFields(s, r.after) /\ Outcome(r) /\ r.after.graph \in {s.graph, NoGraph}
    BY <1>2, <2>1, RebuildEffect
  <2> QED
    BY <1>2, <1>3, <2>2 DEF SameFields
<1>4. CASE valid /\ ~Admits(p)
  <2>1. PICK q : q = Quarantine(s, f, p)
    OBVIOUS
  <2>2. /\ Shape(q) /\ q.lists = s.lists
        /\ q.llm = (IF f = "llm" THEN None ELSE s.llm)
        /\ q.options = (IF f = "llm" THEN s.options ELSE [s.options EXCEPT ![f] = None])
        /\ q.excluded = s.excluded /\ q.rejected = s.rejected \union {<<f, p>>}
        /\ q.remembered = s.remembered /\ q.graph = s.graph
    BY <1>2, <2>1, QuarantineInBest
  <2>3. f # "llm" => q.options = [l.options EXCEPT ![f] = None]
    <3>1. f # "llm" => f \in Options
      BY DEF BestFields
    <3> QED
      BY <1>2, <2>2, <3>1 DEF Shape
  <2>4. CASE f = "llm"
    <3>1. r = Only(DropGraph(q))
      BY <1>1, <1>4, <2>1, <2>4 DEF BestBound, OnLlmBind
    <3>2. r.after = DropGraph(q) /\ r.inputs = NoGraph
      BY <3>1 DEF Only
    <3>3. Shape(r.after) /\ SameFields(q, r.after) /\ r.after.graph = NoGraph
      BY <2>2, <3>2, DropGraphEffect
    <3> QED
      BY <1>2, <1>4, <2>2, <2>4, <3>2, <3>3 DEF SameFields
  <2>5. CASE f # "llm"
    <3>1. r = Only(q)
      BY <1>1, <1>4, <2>1, <2>5 DEF BestBound, OnOptionBind
    <3>2. r.after = q /\ r.inputs = NoGraph
      BY <3>1 DEF Only
    <3> QED
      BY <1>2, <1>4, <2>2, <2>3, <2>5, <3>2
  <2> QED
    BY <2>4, <2>5
<1>5. CASE ~valid /\ f = "llm"
  <2>1. PICK n : n = ResolveScopedLlm(s)
    OBVIOUS
  <2>2. r = Rebuild(n, "event")
    BY <1>1, <1>5, <2>1 DEF BestBound, OnValidate
  <2>3. /\ Shape(n) /\ Chosen(s.llm, n) /\ n.lists = s.lists /\ n.options = s.options
        /\ n.excluded = s.excluded /\ n.rejected = s.rejected /\ n.remembered = s.remembered
        /\ n.graph = s.graph
    BY <1>2, <2>1, ResolveScopedLlmEffect DEF Aggregates
  <2>4. Shape(r.after) /\ SameFields(n, r.after) /\ Outcome(r) /\ r.after.graph \in {n.graph, NoGraph}
    BY <2>2, <2>3, RebuildEffect
  <2>5. Chosen(p, r.after)
    BY <1>2, <1>5, <2>3, <2>4 DEF Chosen, Selected, Without, Known, SameFields
  <2> QED
    BY <1>2, <1>5, <2>3, <2>4, <2>5 DEF SameFields
<1>6. CASE ~valid /\ f # "llm"
  <2>1. r = Only(s)
    BY <1>1, <1>6 DEF BestBound
  <2>2. r.after = s /\ r.inputs = NoGraph
    BY <2>1 DEF Only
  <2> QED
    BY <1>2, <1>6, <2>2
<1> QED
  BY <1>3, <1>4, <1>5, <1>6

(***************************************************************************)
(* What the invariant says of the lists and of the graph.                  *)
(***************************************************************************)

\* The lists are sequences of services, once each.
LEMMA ListFacts ==
  ASSUME LInv, NEW d \in Aggregates
  PROVE  /\ ipopo.lists[d] \in Seq(Providers) /\ Distinct(ipopo.lists[d])
         /\ Range(ipopo.lists[d]) = Heard(d)
         /\ loop.lists[d] \in Seq(Providers) /\ Distinct(loop.lists[d])
         /\ Range(loop.lists[d]) \subseteq Heard(d)
         /\ ~KeptOut(d) => loop.lists[d] = ipopo.lists[d]
<1>1. /\ ipopo.lists[d] \in Seq(Providers) /\ Distinct(ipopo.lists[d])
      /\ Range(ipopo.lists[d]) = Heard(d)
  BY DEF LInv, Types, IpopoOK, ListsOK, ListOf
<1>2. CASE loop.lists[d] = ipopo.lists[d]
  BY <1>1, <1>2
<1>3. CASE loop.lists[d] # ipopo.lists[d]
  <2>1. PICK p \in Providers :
          <<d, p>> \in loop.rejected /\ loop.lists[d] = RemoveFirst(ipopo.lists[d], p)
    BY <1>3 DEF LInv, FieldsOK
  <2> QED
    BY <1>1, <2>1, RemoveFirstFacts DEF KeptOut
<1> QED
  BY <1>2, <1>3

\* What is heard of between two events, and in one
LEMMA HeardFacts ==
  ASSUME LInv, NEW d
  PROVE  /\ Heard(d) \subseteq Providers /\ Range(services) \subseteq Providers
         /\ \A p \in Heard(d) : d \in Dependencies(p)
         /\ ~Pending("arrive", d) /\ ~Pending("leave", d) =>
              Heard(d) = {p \in Range(services) : d \in Dependencies(p)}
         /\ event # None /\ event.op = "arrive" => Heard(d) \subseteq Range(services)
<1>1. Range(services) \subseteq Providers
  BY DEF LInv, Types, Range
<1> QED
  BY <1>1 DEF Heard, Pending

\* What a graph is compiled from is what the fields have, when the loop knows
\* every tool that has metadata.
LEMMA InputsAreCurrent ==
  ASSUME tagged \subseteq Providers, NEW l, Shape(l),
         NEW list, list = RemoveFirst(l.lists["tools"], l.excluded), Range(list) \subseteq Providers,
         \A p \in Known(l) : RankOf[p] # None,
         \A p \in Range(list) : RankOf[p] # None => p \in Known(l)
  PROVE  Inputs(l) = [model |-> l.llm, tools |-> ResolveInjected(Chain, list, Ranks),
                      options |-> l.options]
<1> DEFINE K == [p \in Known(l) |-> RankOf[p]]
<1>1. Known(l) \subseteq Providers
  BY DEF Known, Shape
<1>2. Range(list) \intersect DOMAIN K = Range(list) \intersect DOMAIN Ranks
  BY <1>1 DEF Ranks
<1>3. Restrict(K, Range(list) \intersect DOMAIN K)
        = Restrict(Ranks, Range(list) \intersect DOMAIN Ranks)
  BY <1>1, <1>2 DEF Restrict, Ranks
<1>4. ResolveInjected(Chain, list, K) = ResolveInjected(Chain, list, Ranks)
  <2> HIDE DEF K
  <2> QED
    BY <1>3 DEF ResolveInjected
<1> QED
  BY <1>4 DEF Inputs, Effective, Without

\* What a graph is compiled from is what the fields have, what the loop leaves
\* out aside; and it is a graph if there is an llm.
LEMMA InputsAreBound ==
  ASSUME tagged \subseteq Providers, NEW l, Shape(l), Distinct(l.lists["tools"]),
         \A p \in Known(l) : RankOf[p] # None
  PROVE  /\ Parts(Inputs(l)) \subseteq
              {l.llm} \union (Range(l.lists["tools"]) \ {l.excluded}) \union {l.options[o] : o \in Options}
         /\ l.llm # None => Inputs(l) \in Graphs
<1>1. PICK list : list = RemoveFirst(l.lists["tools"], l.excluded)
  OBVIOUS
<1>2. /\ list \in Seq(Providers) /\ Distinct(list)
      /\ Range(list) = Range(l.lists["tools"]) \ {l.excluded}
  <2>1. l.lists["tools"] \in Seq(Providers)
    BY DEF Shape, Aggregates
  <2> QED
    BY <1>1, <2>1, RemoveFirstFacts
<1>3. Known(l) \in SUBSET Providers
  BY DEF Known, Shape
<1>4. PICK r : r = ResolveInjected(Chain, list, [p \in Known(l) |-> RankOf[p]])
  OBVIOUS
<1>5. Range(r) \subseteq Range(list) /\ r \in Seq(Providers)
  BY <1>2, <1>3, <1>4, ResolvedFacts
<1>6. Inputs(l) = [model |-> l.llm, tools |-> r, options |-> l.options]
  BY <1>1, <1>4 DEF Inputs, Effective, Without
<1>7. Parts(Inputs(l)) = {l.llm} \union Range(r) \union {l.options[o] : o \in Options}
  BY <1>6 DEF Parts
<1>8. l.llm # None => Inputs(l) \in Graphs
  BY <1>5, <1>6 DEF Graphs, Shape, Optional
<1> QED
  BY <1>2, <1>5, <1>7, <1>8

\* The fields are what they were when only the graph differs.
LEMMA SameServices ==
  ASSUME LInv, UNCHANGED <<services, tagged, ipopo, event>>,
         SameFields(loop, loop'), Shape(loop')
  PROVE  ListsOK' /\ BestOK' /\ FieldsOK' /\ KnownOK' /\ LlmOK' /\ Current(loop') = Current(loop)
<1>1. \A d : Heard(d)' = Heard(d) /\ Pending("arrive", d)' = Pending("arrive", d)
             /\ Pending("leave", d)' = Pending("leave", d)
  BY DEF Heard, Pending
<1>2. ListsOK'
  BY <1>1 DEF LInv, ListsOK
<1>3. BestOK'
  BY <1>1 DEF LInv, BestOK
<1>4. FieldsOK'
  BY DEF LInv, FieldsOK, SameFields
<1>5. KnownOK'
  BY DEF LInv, KnownOK, SameFields, Known
<1>6. LlmOK'
  BY <1>1 DEF LInv, LlmOK, SameFields, KeptOut, Installed
<1>7. Current(loop') = Current(loop)
  BY DEF Current, SameFields
<1> QED
  BY <1>2, <1>3, <1>4, <1>5, <1>6, <1>7

\* Ask, Refuse, Proceed and Use move the request only.
LEMMA RequestMoves ==
  ASSUME LInv, UNCHANGED <<services, tagged, ipopo, loop, event, build, stale>>,
         RequestOK', RefusalOK', build["request"] # NoGraph => request'.overtaken = request.overtaken
  PROVE  LInv'
<1>1. Shape(loop)
  BY DEF LInv, Types
<1>2. ListsOK' /\ BestOK' /\ FieldsOK' /\ KnownOK' /\ LlmOK'
  BY <1>1, SameServices DEF SameFields
<1>3. Types'
  BY DEF LInv, Types, IpopoOK
<1>4. EventOK'
  BY DEF LInv, EventOK
<1>5. InvalidOK'
  BY DEF LInv, InvalidOK
<1>6. GraphOK'
  BY DEF LInv, GraphOK
<1>7. GraphTypes'
  BY DEF LInv, GraphTypes
<1> QED
  BY <1>2, <1>3, <1>4, <1>5, <1>6, <1>7 DEF LInv

\* Asking for the graph, and using it
LEMMA RequestKeeps ==
  ASSUME LInv, Ask \/ Refuse \/ Proceed \/ Use
  PROVE  LInv'
<1>1. RequestOK
  BY DEF LInv, Types
<1>2. LlmKeptOut /\ PartsOK /\ CauseOK
  BY DEF LInv, RefusalOK
<1>3. CASE Ask
  <2>1. /\ request.pc = "idle" /\ UNCHANGED <<services, tagged, ipopo, loop, event, build, stale>>
        /\ DOMAIN request' = {"pc", "overtaken"} /\ request'.overtaken = request.overtaken
        /\ request'.pc = IF loop.graph = NoGraph THEN "build" ELSE "use"
    BY <1>1, <1>3 DEF Ask, RequestOK
  <2>2. LlmKeptOut' /\ PartsOK' /\ CauseOK'
    BY <1>1, <1>2, <2>1 DEF LlmKeptOut, PartsOK, CauseOK, RequestOK
  <2> QED
    BY <1>1, <2>1, <2>2, RequestMoves DEF RequestOK, RefusalOK
<1>4. CASE Refuse
  <2>1. /\ build["request"] = NoGraph /\ request' = Idle
        /\ UNCHANGED <<services, tagged, ipopo, loop, event, build, stale>>
    BY <1>4 DEF Refuse
  <2>2. LlmKeptOut' /\ PartsOK' /\ CauseOK'
    BY <1>2, <2>1 DEF LlmKeptOut, PartsOK, CauseOK, Idle
  <2> QED
    BY <2>1, <2>2, RequestMoves DEF RequestOK, RefusalOK, Idle
<1>5. CASE Proceed
  <2>1. /\ build["request"] = NoGraph /\ loop.graph # NoGraph
        /\ UNCHANGED <<services, tagged, ipopo, loop, event, build, stale>>
        /\ DOMAIN request' = {"pc", "overtaken"} /\ request'.overtaken = request.overtaken
        /\ request'.pc = "use"
    BY <1>1, <1>5 DEF Proceed, RequestOK
  <2>2. LlmKeptOut' /\ PartsOK' /\ CauseOK'
    BY <1>2, <2>1 DEF LlmKeptOut, PartsOK, CauseOK
  <2> QED
    BY <1>1, <2>1, <2>2, RequestMoves DEF RequestOK, RefusalOK
<1>6. CASE Use
  <2>1. /\ build["request"] = NoGraph /\ request' = Idle
        /\ UNCHANGED <<services, tagged, ipopo, loop, event, build, stale>>
    BY <1>1, <1>6 DEF Use, RequestOK
  <2>2. LlmKeptOut' /\ PartsOK' /\ CauseOK'
    BY <1>2, <2>1 DEF LlmKeptOut, PartsOK, CauseOK, Idle
  <2> QED
    BY <2>1, <2>2, RequestMoves DEF RequestOK, RefusalOK, Idle
<1> QED
  BY <1>3, <1>4, <1>5, <1>6

\* A request reads the inputs of a graph, as they are now.
LEMMA RequestBuildsKeeps ==
  ASSUME LInv, RequestBuilds
  PROVE  LInv'
<1>1. PICK r : r = Rebuild(loop, "request")
  OBVIOUS
<1>2. /\ request.pc = "build" /\ request' = [request EXCEPT !.pc = "built", !.overtaken = FALSE]
      /\ loop' = r.after /\ build' = [build EXCEPT !["request"] = r.inputs]
      /\ stale' = (stale /\ r.after.graph # NoGraph)
      /\ UNCHANGED <<services, tagged, ipopo, event>>
  BY <1>1 DEF RequestBuilds
<1>3. Types /\ Shape(loop) /\ RequestOK
  BY DEF LInv, Types
<1>4. /\ Shape(loop') /\ SameFields(loop, loop') /\ loop'.graph \in {loop.graph, NoGraph}
      /\ \/ r.inputs = NoGraph /\ loop'.graph = NoGraph
         \/ r.inputs = Inputs(loop') /\ loop'.llm # None
  BY <1>1, <1>2, <1>3, RebuildEffect DEF Outcome
<1>5. ListsOK' /\ BestOK' /\ FieldsOK' /\ KnownOK' /\ LlmOK' /\ Current(loop') = Current(loop)
  BY <1>2, <1>4, SameServices
<1>6. /\ build'["request"] = r.inputs /\ build'["event"] = build["event"]
       /\ build' = [t \in Threads |-> build'[t]]
  BY <1>2, <1>3 DEF Types, Threads
<1>7. Types'
  BY <1>2, <1>3, <1>4, <1>6 DEF Types, IpopoOK, RequestOK, SameFields
<1>8. EventOK'
  BY <1>2, <1>6 DEF LInv, EventOK
<1>9. InvalidOK'
  BY <1>2, <1>4, <1>6 DEF LInv, InvalidOK, SameFields
<1>10. GraphOK'
  <2>1. SUFFICES ASSUME loop'.rejected = {} PROVE GraphOK'
    BY DEF GraphOK
  <2>2. ~KeptOut("tools") /\ loop.rejected = {}
    BY <2>1, <1>4 DEF KeptOut, SameFields
  <2>3. r.inputs # NoGraph => r.inputs = Current(loop)
    <3> SUFFICES ASSUME r.inputs # NoGraph PROVE r.inputs = Current(loop)
      OBVIOUS
    <3>1. r.inputs = Inputs(loop) /\ loop.llm # None
      BY <1>4 DEF SameFields, Inputs, Effective, Without, Known
    <3>2. ipopo.valid
      BY <3>1 DEF LInv, InvalidOK
    <3>3. /\ loop.lists["tools"] \in Seq(Providers) /\ Distinct(loop.lists["tools"])
          /\ loop.excluded = None
      BY ListFacts DEF LInv, Types, Aggregates
    <3>4. RemoveFirst(loop.lists["tools"], loop.excluded) = loop.lists["tools"]
      BY <3>3, RemoveFirstAbsent, LoopAssumption DEF Range
    <3>5. Inputs(loop) = Current(loop)
      BY <3>2, <3>3, <3>4, <1>3, InputsAreCurrent DEF LInv, KnownOK, Types, Current, Range
    <3> QED
      BY <3>1, <3>5
  <2> QED
    BY <2>2, <2>3, <1>2, <1>4, <1>5, <1>6 DEF LInv, GraphOK
<1>11. RefusalOK'
  <2>1. LlmKeptOut /\ PartsOK
    BY DEF LInv, RefusalOK
  <2>2. Bound(loop') = Bound(loop)
    BY <1>4 DEF Bound, SameFields
  <2>3. LlmKeptOut'
    BY <1>2, <1>4, <2>1 DEF LlmKeptOut, SameFields
  <2>4. r.inputs # NoGraph => Parts(r.inputs) \subseteq Bound(loop)
    <3> SUFFICES ASSUME r.inputs # NoGraph PROVE Parts(r.inputs) \subseteq Bound(loop)
      OBVIOUS
    <3>1. r.inputs = Inputs(loop)
      BY <1>4 DEF SameFields, Inputs, Effective, Without, Known
    <3>2. Distinct(loop.lists["tools"])
      BY ListFacts DEF Aggregates
    <3>3. Parts(Inputs(loop)) \subseteq
            {loop.llm} \union (Range(loop.lists["tools"]) \ {loop.excluded})
              \union {loop.options[o] : o \in Options}
      BY <1>3, <3>2, InputsAreBound DEF LInv, KnownOK, Types
    <3> QED
      BY <3>1, <3>3 DEF Bound
  <2>5. PartsOK'
    BY <1>6, <2>1, <2>2, <2>4 DEF PartsOK
  <2>6. r.inputs = NoGraph => loop.llm = None \/ loop.llm \in Broken
    <3> SUFFICES ASSUME r.inputs = NoGraph, loop.llm # None PROVE loop.llm \in Broken
      OBVIOUS
    <3>1. Inputs(loop) # NoGraph
      BY InputsAreAGraph
    <3> QED
      BY <1>1, <3>1 DEF Rebuild
  <2>7. CauseOK'
    <3>1. request'.pc = "built"
      BY <1>2, <1>3 DEF RequestOK
    <3>2. build'["request"] = NoGraph => loop'.llm = None \/ Broken \intersect Bound(loop') # {}
      BY <1>4, <1>6, <2>2, <2>6 DEF SameFields, Bound
    <3> QED
      BY <3>1, <3>2 DEF CauseOK
  <2> QED
    BY <2>3, <2>5, <2>7 DEF RefusalOK
<1>12. GraphTypes'
  <2>1. r.inputs # NoGraph => r.inputs \in Graphs
    <3> SUFFICES ASSUME r.inputs # NoGraph PROVE r.inputs \in Graphs
      OBVIOUS
    <3>1. r.inputs = Inputs(loop) /\ loop.llm # None
      BY <1>4 DEF SameFields, Inputs, Effective, Without, Known
    <3>2. Distinct(loop.lists["tools"])
      BY ListFacts DEF Aggregates
    <3> QED
      BY <1>3, <3>1, <3>2, InputsAreBound DEF LInv, KnownOK, Types
  <2> QED
    BY <1>4, <1>6, <2>1 DEF LInv, GraphTypes, Threads
<1> QED
  BY <1>5, <1>7, <1>8, <1>9, <1>10, <1>11, <1>12 DEF LInv

\* Storing a graph changes no field.
LEMMA GraphStored ==
  ASSUME NEW l, Shape(l), NEW g, NEW a, a = [l EXCEPT !.graph = g]
  PROVE  Shape(a) /\ SameFields(l, a) /\ a.graph = g
BY DEF Shape, SameFields

\* A request stores the graph it compiled.
LEMMA RequestStoresKeeps ==
  ASSUME LInv, RequestStores
  PROVE  LInv'
<1>1. PICK g : g = IF Fails(build["request"]) THEN NoGraph ELSE build["request"]
  OBVIOUS
<1>2. /\ build["request"] # NoGraph /\ loop' = [loop EXCEPT !.graph = g]
      /\ stale' = (g # NoGraph /\ request.overtaken)
      /\ build' = [build EXCEPT !["request"] = NoGraph]
      /\ UNCHANGED <<services, tagged, ipopo, event, request>>
  BY <1>1 DEF RequestStores
<1>3. Types /\ Shape(loop) /\ RequestOK
  BY DEF LInv, Types
<1>4. Shape(loop') /\ SameFields(loop, loop') /\ loop'.graph = g
  BY <1>2, <1>3, GraphStored
<1>5. ListsOK' /\ BestOK' /\ FieldsOK' /\ KnownOK' /\ LlmOK' /\ Current(loop') = Current(loop)
  BY <1>2, <1>4, SameServices
<1>6. /\ build'["request"] = NoGraph /\ build'["event"] = build["event"]
       /\ build' = [t \in Threads |-> build'[t]]
  BY <1>2, <1>3 DEF Types, Threads
<1>7. Types'
  BY <1>2, <1>3, <1>4, <1>6 DEF Types, IpopoOK, RequestOK, SameFields
<1>8. EventOK'
  BY <1>2, <1>6 DEF LInv, EventOK
<1>9. InvalidOK'
  BY <1>2, <1>4, <1>6 DEF LInv, InvalidOK, SameFields
<1>10. GraphOK'
  BY <1>1, <1>2, <1>4, <1>5, <1>6 DEF LInv, GraphOK, SameFields
<1>11. RefusalOK'
  <2>1. LlmKeptOut /\ PartsOK /\ CauseOK
    BY DEF LInv, RefusalOK
  <2>2. Bound(loop') = Bound(loop)
    BY <1>4 DEF Bound, SameFields
  <2>3. LlmKeptOut'
    BY <1>2, <1>4, <2>1 DEF LlmKeptOut, SameFields
  <2>4. PartsOK'
    BY <1>2, <1>6, <2>1, <2>2 DEF PartsOK
  <2>5. g = NoGraph => Broken \intersect Parts(build["request"]) # {}
    BY <1>1, <1>2 DEF Fails, Parts
  <2>6. CauseOK'
    <3>1. request.pc = "built"
      BY <1>2, <1>3 DEF RequestOK
    <3>2. loop'.graph # NoGraph \/ request.overtaken \/ Broken \intersect Bound(loop') # {}
      BY <1>2, <1>4, <2>1, <2>2, <2>5 DEF PartsOK
    <3> QED
      BY <1>2, <3>1, <3>2 DEF CauseOK
  <2> QED
    BY <2>3, <2>4, <2>6 DEF RefusalOK
<1>12. GraphTypes'
  BY <1>1, <1>4, <1>6 DEF LInv, GraphTypes, Threads
<1> QED
  BY <1>5, <1>7, <1>8, <1>9, <1>10, <1>11, <1>12 DEF LInv

\* The event thread stores the graph it compiled.
LEMMA EventStoresKeeps ==
  ASSUME LInv, EventStores
  PROVE  LInv'
<1>1. PICK g : g = IF Fails(build["event"]) THEN NoGraph ELSE build["event"]
  OBVIOUS
<1>2. /\ build["event"] # NoGraph /\ loop' = [loop EXCEPT !.graph = g] /\ stale' = FALSE
      /\ build' = [build EXCEPT !["event"] = NoGraph]
      /\ UNCHANGED <<services, tagged, ipopo, event, request>>
  BY <1>1 DEF EventStores
<1>3. Types /\ Shape(loop) /\ RequestOK
  BY DEF LInv, Types
<1>4. Shape(loop') /\ SameFields(loop, loop') /\ loop'.graph = g
  BY <1>2, <1>3, GraphStored
<1>5. ListsOK' /\ BestOK' /\ FieldsOK' /\ KnownOK' /\ LlmOK' /\ Current(loop') = Current(loop)
  BY <1>2, <1>4, SameServices
<1>6. /\ build'["request"] = build["request"] /\ build'["event"] = NoGraph
       /\ build' = [t \in Threads |-> build'[t]]
  BY <1>2, <1>3 DEF Types, Threads
<1>7. Types'
  BY <1>2, <1>3, <1>4, <1>6 DEF Types, IpopoOK, RequestOK, SameFields
<1>8. EventOK'
  BY <1>2, <1>6 DEF LInv, EventOK
<1>9. InvalidOK'
  BY <1>2, <1>4, <1>6 DEF LInv, InvalidOK, SameFields
<1>10. GraphOK'
  BY <1>1, <1>2, <1>4, <1>5, <1>6 DEF LInv, GraphOK, SameFields
<1>11. RefusalOK'
  <2>1. LlmKeptOut /\ PartsOK /\ CauseOK
    BY DEF LInv, RefusalOK
  <2>2. Bound(loop') = Bound(loop)
    BY <1>4 DEF Bound, SameFields
  <2>3. LlmKeptOut'
    BY <1>2, <1>4, <2>1 DEF LlmKeptOut, SameFields
  <2>4. PartsOK'
    BY <1>2, <1>6, <2>1, <2>2 DEF PartsOK
  <2>5. g = NoGraph => Broken \intersect Parts(build["event"]) # {}
    BY <1>1, <1>2 DEF Fails, Parts
  <2>6. CauseOK'
    <3>1. loop'.graph # NoGraph \/ Broken \intersect Bound(loop') # {}
      BY <1>2, <1>4, <2>1, <2>2, <2>5 DEF PartsOK
    <3> QED
      BY <1>2, <2>1, <3>1 DEF CauseOK
  <2> QED
    BY <2>3, <2>4, <2>6 DEF RefusalOK
<1>12. GraphTypes'
  BY <1>1, <1>4, <1>6 DEF LInv, GraphTypes, Threads
<1> QED
  BY <1>5, <1>7, <1>8, <1>9, <1>10, <1>11, <1>12 DEF LInv

\* An event ends: the manager knows the new service, and forgets the old.
LEMMA EndEventKeeps ==
  ASSUME LInv, EndEvent
  PROVE  LInv'
<1>1. /\ event # None /\ event.todo = {} /\ build["event"] = NoGraph /\ event' = None
      /\ UNCHANGED <<services, ipopo, loop, build, request, stale>>
  BY DEF EndEvent
<1>2. PICK p : p = event.provider
  OBVIOUS
<1>3. tagged' = IF event.op = "leave" THEN tagged \ {p}
                ELSE tagged \union ({p} \ {q \in Providers : RankOf[q] = None})
  BY <1>2 DEF EndEvent
<1>4. event \in Events /\ p \in Providers /\ event.op \in {"arrive", "leave"}
  BY <1>1, <1>2 DEF LInv, EventOK, Events
<1>5. \A op, d : ~Pending(op, d) /\ ~Pending(op, d)'
  BY <1>1 DEF Pending
<1>6. \A d : Heard(d)' = Heard(d)
  BY <1>1, <1>5 DEF Heard
<1>7. Types'
  BY <1>1, <1>3, <1>4 DEF LInv, Types, IpopoOK, RequestOK
<1>8. EventOK'
  BY <1>1 DEF LInv, EventOK
<1>9. ListsOK'
  BY <1>1, <1>6 DEF LInv, ListsOK
<1>10. BestOK'
  BY <1>1, <1>5, <1>6 DEF LInv, BestOK
<1>11. FieldsOK' /\ InvalidOK'
  BY <1>1 DEF LInv, FieldsOK, InvalidOK
<1>12. KnownOK'
  <2>1. \A q \in Known(loop)' : RankOf[q] # None
    BY <1>1, <1>3, <1>4 DEF LInv, KnownOK, Known
  <2>2. \A q \in Range(services) : RankOf[q] # None => q \in tagged'
    <3> TAKE q \in Range(services)
    <3> HAVE RankOf[q] # None
    <3>1. q \in Providers
      BY HeardFacts
    <3>2. q \in tagged \/ (event.op = "arrive" /\ q = p)
      BY <1>2 DEF LInv, KnownOK
    <3>3. event.op = "leave" => q # p
      BY <1>1, <1>2 DEF LInv, EventOK
    <3> QED
      BY <1>3, <1>4, <3>1, <3>2, <3>3
  <2>3. Range(loop.lists["tools"]) \subseteq Range(services)
    BY <1>5, ListFacts, HeardFacts DEF Aggregates
  <2> QED
    BY <1>1, <2>1, <2>2, <2>3 DEF KnownOK, Known
<1>13. LlmOK'
  BY <1>1, <1>5 DEF LInv, LlmOK, KeptOut, Installed
<1>14. GraphOK'
  BY <1>1 DEF LInv, GraphOK
<1>15. RefusalOK' /\ GraphTypes'
  BY <1>1 DEF LInv, RefusalOK, LlmKeptOut, PartsOK, CauseOK, GraphTypes
<1> QED
  BY <1>7, <1>8, <1>9, <1>10, <1>11, <1>12, <1>13, <1>14, <1>15 DEF LInv

\* A service is registered: the fields hear of it later.
LEMMA RegisterKeeps ==
  ASSUME LInv, NEW p \in Providers, Register(p)
  PROVE  LInv'
<1>1. /\ event = None /\ p \notin Range(services) /\ services' = Append(services, p)
      /\ event' = [op |-> "arrive", provider |-> p, todo |-> Dependencies(p)]
      /\ UNCHANGED <<tagged, ipopo, loop, build, request, stale>>
  BY DEF Register
<1>2. services \in Seq(Providers) /\ Distinct(services)
  BY DEF LInv, Types, EventOK
<1>3. /\ services' \in Seq(Providers) /\ Distinct(services') /\ services' # <<>>
      /\ services'[Len(services')] = p /\ Range(services') = Range(services) \union {p}
      /\ \A a, b : Older(services', a, b) <=> Older(services, a, b) \/ (a \in Range(services) /\ b = p)
  BY <1>1, <1>2, AppendFacts
<1>4. event' \in Events /\ event' # None /\ event'.op = "arrive" /\ event'.provider = p
      /\ event'.todo = Dependencies(p)
  BY <1>1, DependsOn, EventAssumption DEF Events, Fields, BestFields
<1>5. \A d : /\ ~Pending("arrive", d) /\ ~Pending("leave", d) /\ ~Pending("leave", d)'
             /\ Pending("arrive", d)' <=> d \in Dependencies(p)
  BY <1>1, <1>4 DEF Pending
<1>6. \A d : Heard(d)' = Heard(d) /\ Heard(d) = {q \in Range(services) : d \in Dependencies(q)}
  <2> TAKE d
  <2>1. Heard(d) = {q \in Range(services) : d \in Dependencies(q)}
    BY <1>5, HeardFacts
  <2>2. Heard(d)' = {q \in Providers : d \in Dependencies(q) /\ q \in Range(services') /\ q # p}
    BY <1>4, <1>5 DEF Heard
  <2> QED
    BY <1>1, <1>3, <2>1, <2>2, HeardFacts
<1>7. Types'
  BY <1>1, <1>3 DEF LInv, Types, IpopoOK, RequestOK
<1>8. EventOK'
  BY <1>1, <1>3, <1>4 DEF LInv, EventOK
<1>9. ListsOK'
  <2> SUFFICES ASSUME NEW d \in Aggregates
               PROVE  ListOf(ipopo'.lists[d], Heard(d)', services')
    BY DEF ListsOK
  <2>1. ListOf(ipopo.lists[d], Heard(d), services)
    BY DEF LInv, ListsOK
  <2>2. \A i \in DOMAIN ipopo.lists[d] : ipopo.lists[d][i] \in Range(services)
    BY <2>1, <1>6 DEF ListOf, Range
  <2> QED
    BY <1>1, <1>3, <1>6, <2>1, <2>2 DEF ListOf
<1>10. BestOK'
  <2>1. ASSUME NEW f \in BestFields
        PROVE  BestOf(services', f, Heard(f)' \intersect Range(services'), ipopo'.best[f])
    <3>1. BestOf(services, f, Heard(f) \intersect Range(services), ipopo.best[f])
      BY <1>5 DEF LInv, BestOK
    <3>2. Heard(f)' \intersect Range(services') = Heard(f) \intersect Range(services)
      BY <1>3, <1>6
    <3> QED
      BY <1>1, <1>3, <3>1, <3>2, BestAmong
  <2> QED
    BY <1>1, <2>1 DEF LInv, BestOK
<1>11. FieldsOK' /\ InvalidOK'
  BY <1>1 DEF LInv, FieldsOK, InvalidOK
<1>12. KnownOK'
  BY <1>1, <1>3, <1>4 DEF LInv, KnownOK, Known
<1>13. LlmOK'
  <2>1. CASE FieldOf[p] = "llm"
    <3>1. Pending("arrive", "scoped")'
      BY <1>5, <2>1, DependsOn
    <3> QED
      BY <3>1 DEF LlmOK
  <2>2. CASE FieldOf[p] # "llm"
    <3>1. Installed("llm")' = Installed("llm")
      BY <1>3, <2>2 DEF Installed
    <3> QED
      BY <1>1, <1>5, <3>1 DEF LInv, LlmOK, KeptOut
  <2> QED
    BY <2>1, <2>2
<1>14. GraphOK'
  BY <1>1 DEF LInv, GraphOK
<1>15. RefusalOK' /\ GraphTypes'
  BY <1>1 DEF LInv, RefusalOK, LlmKeptOut, PartsOK, CauseOK, GraphTypes
<1> QED
  BY <1>7, <1>8, <1>9, <1>10, <1>11, <1>12, <1>13, <1>14, <1>15 DEF LInv

\* A service is unregistered: the fields still have it.
LEMMA UnregisterKeeps ==
  ASSUME LInv, NEW p \in Providers, Unregister(p)
  PROVE  LInv'
<1>1. /\ event = None /\ p \in Range(services) /\ services' = RemoveFirst(services, p)
      /\ event' = [op |-> "leave", provider |-> p, todo |-> Dependencies(p)]
      /\ UNCHANGED <<tagged, ipopo, loop, build, request, stale>>
  BY DEF Unregister
<1>2. services \in Seq(Providers) /\ Distinct(services)
  BY DEF LInv, Types, EventOK
<1>3. /\ services' \in Seq(Providers) /\ Distinct(services') /\ Range(services') = Range(services) \ {p}
      /\ \A a, b : Older(services', a, b) <=> Older(services, a, b) /\ a # p /\ b # p
  BY <1>1, <1>2, RemoveFirstFacts
<1>4. event' \in Events /\ event' # None /\ event'.op = "leave" /\ event'.provider = p
      /\ event'.todo = Dependencies(p)
  BY <1>1, DependsOn, EventAssumption DEF Events, Fields, BestFields
<1>5. \A d : /\ ~Pending("arrive", d) /\ ~Pending("leave", d) /\ ~Pending("arrive", d)'
             /\ Pending("leave", d)' <=> d \in Dependencies(p)
  BY <1>1, <1>4 DEF Pending
<1>6. \A d : Heard(d)' = Heard(d) /\ Heard(d) = {q \in Range(services) : d \in Dependencies(q)}
  <2> TAKE d
  <2>1. Heard(d) = {q \in Range(services) : d \in Dependencies(q)}
    BY <1>5, HeardFacts
  <2>2. Heard(d)' = {q \in Providers : d \in Dependencies(q) /\ (q \in Range(services') \/ q = p)}
    BY <1>4, <1>5 DEF Heard
  <2> QED
    BY <1>1, <1>3, <2>1, <2>2, HeardFacts
<1>7. Types'
  BY <1>1, <1>3 DEF LInv, Types, IpopoOK, RequestOK
<1>8. EventOK'
  BY <1>1, <1>3, <1>4 DEF LInv, EventOK
<1>9. ListsOK'
  <2> SUFFICES ASSUME NEW d \in Aggregates
               PROVE  ListOf(ipopo'.lists[d], Heard(d)', services')
    BY DEF ListsOK
  <2>1. ListOf(ipopo.lists[d], Heard(d), services)
    BY DEF LInv, ListsOK
  <2> QED
    BY <1>1, <1>3, <1>6, <2>1 DEF ListOf
<1>10. BestOK'
  <2>1. ASSUME NEW f \in BestFields, ~(Pending("leave", f)' /\ ipopo'.best[f] = p)
        PROVE  BestOf(services', f, Heard(f)' \intersect Range(services'), ipopo'.best[f])
    <3>1. BestOf(services, f, Heard(f) \intersect Range(services), ipopo.best[f])
      BY <1>5 DEF LInv, BestOK
    <3>2. Heard(f) \intersect Range(services) = Heard(f)
      BY <1>6
    <3>3. Heard(f)' \intersect Range(services') = Heard(f) \ {p}
      BY <1>3, <1>6
    <3>4. ipopo.best[f] # p
      <4> SUFFICES ASSUME ipopo.best[f] = p PROVE FALSE
        OBVIOUS
      <4>1. f \in Dependencies(p)
        BY <3>1, LoopAssumption DEF BestOf
      <4> QED
        BY <4>1, <1>1, <1>5, <2>1
    <3>5. BestOf(services, f, Heard(f) \ {p}, ipopo.best[f])
      BY <3>1, <3>2, <3>4 DEF BestOf
    <3>6. \A a, b \in Heard(f) \ {p} : Older(services, a, b) => Older(services', a, b)
      BY <1>3
    <3> QED
      BY <1>1, <3>3, <3>5, <3>6, BestAmong
  <2> QED
    BY <1>1, <1>4, <2>1 DEF LInv, BestOK
<1>11. FieldsOK' /\ InvalidOK'
  BY <1>1 DEF LInv, FieldsOK, InvalidOK
<1>12. KnownOK'
  BY <1>1, <1>3, <1>4 DEF LInv, KnownOK, Known
<1>13. LlmOK'
  <2>1. CASE FieldOf[p] = "llm"
    <3>1. Pending("leave", "scoped")'
      BY <1>5, <2>1, DependsOn
    <3> QED
      BY <3>1 DEF LlmOK
  <2>2. CASE FieldOf[p] # "llm"
    <3>1. Installed("llm")' = Installed("llm")
      BY <1>3, <2>2 DEF Installed
    <3> QED
      BY <1>1, <1>5, <3>1 DEF LInv, LlmOK, KeptOut
  <2> QED
    BY <2>1, <2>2
<1>14. GraphOK'
  BY <1>1 DEF LInv, GraphOK
<1>15. RefusalOK' /\ GraphTypes'
  BY <1>1 DEF LInv, RefusalOK, LlmKeptOut, PartsOK, CauseOK, GraphTypes
<1> QED
  BY <1>7, <1>8, <1>9, <1>10, <1>11, <1>12, <1>13, <1>14, <1>15 DEF LInv

(***************************************************************************)
(* A delivery.                                                             *)
(***************************************************************************)

\* A delivery concerns one field; a request that is under way is overtaken.
LEMMA Delivered ==
  ASSUME LInv, NEW op \in {"arrive", "leave"}, NEW d, Delivering(op, d)
  PROVE  /\ EventOK' /\ UNCHANGED <<services, tagged>> /\ build["event"] = NoGraph
         /\ event # None /\ event.op = op /\ event.provider \in Providers
         /\ d \in Dependencies(event.provider)
         /\ event' # None /\ event'.op = event.op /\ event'.provider = event.provider
         /\ \A o, c : Pending(o, c)' <=> Pending(o, c) /\ c # d
         /\ \A c : Pending("arrive", c) => op = "arrive"
         /\ \A c : Pending("leave", c) => op = "leave"
         /\ Pending(op, d)
         /\ \A c : c # d => Heard(c)' = Heard(c)
         /\ Heard(d)' = {q \in Range(services) : d \in Dependencies(q)}
         /\ op = "arrive" => /\ Heard(d)' = Heard(d) \union {event.provider}
                             /\ event.provider \notin Heard(d)
                             /\ event.provider \in Range(services)
                             /\ \A q \in Range(services) \ {event.provider} :
                                  Older(services, q, event.provider)
         /\ op = "leave" => /\ Heard(d)' = Heard(d) \ {event.provider}
                            /\ event.provider \notin Range(services)
         /\ DOMAIN request' = {"pc", "overtaken"} /\ request'.pc = request.pc
         /\ request'.overtaken = (request.pc # "idle")
<1>1. /\ event # None /\ event.op = op /\ d \in event.todo /\ build["event"] = NoGraph
      /\ event' = [event EXCEPT !.todo = @ \ {d}]
      /\ request' = [request EXCEPT !.overtaken = (request.pc # "idle")]
      /\ UNCHANGED <<services, tagged>>
  BY DEF Delivering
<1>2. PICK e : e = event
  OBVIOUS
<1>3. e \in Events /\ e.todo \subseteq Dependencies(e.provider) /\ Distinct(services)
      /\ e.op = op /\ e # None /\ d \in e.todo
  BY <1>1, <1>2 DEF LInv, EventOK
<1>4. /\ event' \in Events /\ event'.op = e.op /\ event'.provider = e.provider
      /\ event'.todo = e.todo \ {d} /\ e.provider \in Providers
  BY <1>1, <1>2, <1>3 DEF Events
<1>5. event' # None
  BY <1>4, EventAssumption
<1>6. /\ op = "arrive" => services # <<>> /\ services[Len(services)] = e.provider
      /\ op = "leave" => e.provider \notin Range(services)
  BY <1>1, <1>2, <1>3 DEF LInv, EventOK
<1>7. EventOK'
  BY <1>1, <1>3, <1>4, <1>5, <1>6 DEF EventOK
<1>8. \A o, c : Pending(o, c) <=> o = op /\ c \in e.todo
  BY <1>2, <1>3 DEF Pending
<1>9. \A o, c : Pending(o, c)' <=> o = op /\ c \in e.todo /\ c # d
  BY <1>3, <1>4, <1>5 DEF Pending
<1>10. services \in Seq(Providers) /\ Range(services) \subseteq Providers
  BY HeardFacts DEF LInv, Types
<1>11. op = "arrive" => /\ e.provider \in Range(services)
                        /\ \A q \in Range(services) \ {e.provider} : Older(services, q, e.provider)
  <2> SUFFICES ASSUME op = "arrive"
               PROVE  /\ e.provider \in Range(services)
                      /\ \A q \in Range(services) \ {e.provider} : Older(services, q, e.provider)
    OBVIOUS
  <2>1. Len(services) \in DOMAIN services /\ DOMAIN services = 1..Len(services)
    BY <1>6, <1>10
  <2>2. services[Len(services)] = e.provider
    BY <1>6
  <2>3. e.provider \in Range(services)
    BY <2>1, <2>2 DEF Range
  <2>4. ASSUME NEW q \in Range(services) \ {e.provider}
        PROVE  Older(services, q, e.provider)
    <3>1. PICK i \in DOMAIN services : services[i] = q
      BY DEF Range
    <3>2. i < Len(services)
      BY <3>1, <2>1, <2>2, <2>4
    <3> QED
      BY <3>1, <3>2, <2>1, <2>2 DEF Older
  <2> QED
    BY <2>3, <2>4
<1>12. \A c : Heard(c) = {p \in Providers : c \in Dependencies(p)
                 /\ \/ p \in Range(services) /\ ~(op = "arrive" /\ c \in e.todo /\ p = e.provider)
                    \/ op = "leave" /\ c \in e.todo /\ p = e.provider}
  BY <1>2, <1>8 DEF Heard
<1>13. \A c : Heard(c)' = {p \in Providers : c \in Dependencies(p)
                 /\ \/ p \in Range(services) /\ ~(op = "arrive" /\ c \in e.todo \ {d} /\ p = e.provider)
                    \/ op = "leave" /\ c \in e.todo \ {d} /\ p = e.provider}
  BY <1>1, <1>4, <1>9 DEF Heard
<1>14. \A c : c # d => Heard(c)' = Heard(c)
  BY <1>12, <1>13
<1>15. d \in Dependencies(e.provider)
  BY <1>3
<1>16. op = "arrive" => Heard(d)' = Heard(d) \union {e.provider} /\ e.provider \notin Heard(d)
  BY <1>3, <1>4, <1>11, <1>12, <1>13, <1>15
<1>17. op = "leave" => Heard(d)' = Heard(d) \ {e.provider}
  BY <1>3, <1>4, <1>6, <1>12, <1>13
<1>18. Heard(d)' = {q \in Range(services) : d \in Dependencies(q)}
  BY <1>10, <1>13
<1>19. DOMAIN request' = {"pc", "overtaken"} /\ request'.pc = request.pc
       /\ request'.overtaken = (request.pc # "idle")
  BY <1>1 DEF LInv, Types, RequestOK
<1> QED
  BY <1>1, <1>2, <1>3, <1>4, <1>5, <1>6, <1>7, <1>8, <1>9, <1>11, <1>14, <1>15, <1>16, <1>17, <1>18, <1>19

\* After a callback the attributes are its result, nothing is left out any more.
LEMMA Settled ==
  ASSUME LInv, NEW op \in {"arrive", "leave"}, NEW d, Delivering(op, d),
         NEW r, Settle(r), Shape(r.after), IpopoOK'
  PROVE  /\ Types' /\ loop'.llm = r.after.llm /\ loop'.lists = r.after.lists
         /\ loop'.options = r.after.options /\ loop'.rejected = r.after.rejected
         /\ loop'.remembered = r.after.remembered /\ loop'.graph = r.after.graph
         /\ build'["event"] = r.inputs /\ build'["request"] = build["request"]
         /\ stale' = (stale /\ r.after.graph # NoGraph)
<1>1. PICK l : l = r.after
  OBVIOUS
<1>2. /\ loop' = [l EXCEPT !.excluded = None] /\ build' = [build EXCEPT !["event"] = r.inputs]
      /\ stale' = (stale /\ l.graph # NoGraph)
  BY <1>1 DEF Settle
<1>3. /\ Shape(loop') /\ loop'.excluded = None /\ loop'.llm = l.llm /\ loop'.lists = l.lists
      /\ loop'.options = l.options /\ loop'.rejected = l.rejected
      /\ loop'.remembered = l.remembered /\ loop'.graph = l.graph
  BY <1>1, <1>2 DEF Shape
<1>4. build' = [t \in Threads |-> build'[t]] /\ build'["event"] = r.inputs /\ build'["request"] = build["request"]
  BY <1>2 DEF LInv, Types, Threads
<1>5. RequestOK'
  BY <1>4, Delivered DEF LInv, Types, RequestOK
<1>6. Types'
  BY <1>2, <1>3, <1>4, <1>5, Delivered DEF LInv, Types
<1> QED
  BY <1>1, <1>2, <1>3, <1>4, <1>6

\* The graph that is compiled after a callback is that of the fields.
LEMMA SettledGraph ==
  ASSUME LInv, NEW op \in {"arrive", "leave"}, NEW d, Delivering(op, d),
         Types', KnownOK', build'["request"] = build["request"], NEW m,
         loop'.rejected = {} =>
           \/ build'["event"] = NoGraph /\ (loop'.graph # NoGraph => stale')
           \/ /\ build'["event"] = Inputs(m) /\ build'["event"] # NoGraph /\ ipopo'.valid /\ Shape(m)
              /\ m.llm = loop'.llm /\ m.options = loop'.options /\ m.remembered = loop'.remembered
              /\ RemoveFirst(m.lists["tools"], m.excluded) = loop'.lists["tools"]
  PROVE  GraphOK'
<1> SUFFICES ASSUME loop'.rejected = {} PROVE GraphOK'
  BY DEF GraphOK
<1>1. build'["request"] # NoGraph => request'.overtaken
  BY Delivered DEF LInv, Types, RequestOK
<1>2. CASE build'["event"] = NoGraph /\ (loop'.graph # NoGraph => stale')
  BY <1>1, <1>2 DEF GraphOK
<1>3. CASE /\ build'["event"] = Inputs(m) /\ build'["event"] # NoGraph /\ ipopo'.valid /\ Shape(m)
           /\ m.llm = loop'.llm /\ m.options = loop'.options /\ m.remembered = loop'.remembered
           /\ RemoveFirst(m.lists["tools"], m.excluded) = loop'.lists["tools"]
  <2>1. tagged' = tagged /\ tagged \subseteq Providers
    BY Delivered DEF LInv, Types
  <2>2. PICK list : list = loop'.lists["tools"]
    OBVIOUS
  <2>3. list \in Seq(Providers) /\ Range(list) \subseteq Providers
    BY <2>2 DEF Types, Shape, Aggregates, Range
  <2>4. Known(m) = Known(loop)'
    BY <1>3, <2>1 DEF Known
  <2>5. /\ \A p \in Known(m) : RankOf[p] # None
        /\ \A p \in Range(list) : RankOf[p] # None => p \in Known(m)
    BY <1>3, <2>2, <2>4 DEF KnownOK
  <2>6. Inputs(m) = [model |-> m.llm, tools |-> ResolveInjected(Chain, list, Ranks),
                     options |-> m.options]
    BY <1>3, <2>1, <2>2, <2>3, <2>5, InputsAreCurrent
  <2>7. build'["event"] = Current(loop)'
    BY <1>3, <2>2, <2>6 DEF Current
  <2> QED
    BY <1>1, <1>3, <2>7 DEF GraphOK
<1> QED
  BY <1>2, <1>3

\* After a callback a request has been overtaken, and what is compiled is what
\* the fields have.
LEMMA SettledRefusal ==
  ASSUME LInv, NEW op \in {"arrive", "leave"}, NEW d, Delivering(op, d),
         Types', KnownOK', LlmKeptOut', build'["request"] = build["request"],
         loop'.graph \in {loop.graph, NoGraph}, NEW m,
         build'["event"] # NoGraph =>
           /\ build'["event"] = Inputs(m) /\ m.llm # None /\ Shape(m) /\ Distinct(m.lists["tools"])
           /\ m.llm = loop'.llm /\ m.options = loop'.options /\ m.remembered = loop'.remembered
           /\ Range(m.lists["tools"]) \ {m.excluded} \subseteq Range(loop'.lists["tools"])
  PROVE  RefusalOK' /\ GraphTypes'
<1>1. request'.pc = request.pc /\ request'.overtaken = (request.pc # "idle")
  BY Delivered
<1>2. build'["request"] # NoGraph => request'.overtaken
  BY <1>1 DEF LInv, Types, RequestOK
<1>3. build'["event"] # NoGraph =>
        Parts(build'["event"]) \subseteq Bound(loop') /\ build'["event"] \in Graphs
  <2> SUFFICES ASSUME build'["event"] # NoGraph
               PROVE  Parts(build'["event"]) \subseteq Bound(loop') /\ build'["event"] \in Graphs
    OBVIOUS
  <2>1. tagged' = tagged /\ tagged \subseteq Providers
    BY Delivered DEF LInv, Types
  <2>2. Known(m) = Known(loop)'
    BY <2>1 DEF Known
  <2>3. \A p \in Known(m) : RankOf[p] # None
    BY <2>2 DEF KnownOK
  <2>4. /\ Parts(Inputs(m)) \subseteq
             {m.llm} \union (Range(m.lists["tools"]) \ {m.excluded}) \union {m.options[o] : o \in Options}
        /\ Inputs(m) \in Graphs
    BY <2>1, <2>3, InputsAreBound
  <2> QED
    BY <2>4 DEF Bound
<1>4. PartsOK'
  BY <1>2, <1>3 DEF PartsOK
<1>5. CauseOK'
  BY <1>1 DEF CauseOK
<1>6. GraphTypes'
  BY <1>3 DEF LInv, GraphTypes, Threads
<1> QED
  BY <1>4, <1>5, <1>6 DEF RefusalOK

\* An llm that the loop has, or chooses, is one.
LEMMA ChosenIsSome ==
  ASSUME NEW a, Shape(a), Distinct(a.lists["scoped"]), NEW x, x # None, Chosen(x, a)
  PROVE  a.llm # None
<1>1. a.lists["scoped"] \in Seq(Providers)
  BY DEF Shape, Aggregates
<1>2. Range(Without(a, "scoped")) \subseteq Providers
  BY <1>1, RemoveFirstFacts DEF Without, Range
<1>3. Selected(a) \subseteq Providers
  BY <1>2, SelectedIsInjected DEF Selected
<1> QED
  BY <1>3, LoopAssumption DEF Chosen

\* A delivery to a field leaves what iPOPO binds to the others.
LEMMA OthersKept ==
  ASSUME LInv, NEW op \in {"arrive", "leave"}, NEW d, Delivering(op, d)
  PROVE  /\ d \in Aggregates /\ ipopo'.best = ipopo.best /\ ipopo'.valid = ipopo.valid => BestOK'
         /\ d \notin Aggregates /\ ipopo'.lists = ipopo.lists => ListsOK'
         /\ Installed("llm")' = Installed("llm")
         /\ \A p \in Range(services)' : RankOf[p] # None /\ p \notin tagged' =>
              event' # None /\ event'.op = "arrive" /\ event'.provider = p
<1>1. /\ UNCHANGED services /\ tagged' = tagged
      /\ event # None /\ event' # None /\ event'.op = event.op /\ event'.provider = event.provider
      /\ \A c : c # d => Heard(c)' = Heard(c)
      /\ \A o, c : Pending(o, c)' <=> Pending(o, c) /\ c # d
  BY Delivered
<1>2. ASSUME d \in Aggregates, ipopo'.best = ipopo.best, ipopo'.valid = ipopo.valid
      PROVE  BestOK'
  <2>1. \A f \in BestFields : f # d
    BY <1>2 DEF BestFields, Options, Aggregates
  <2> QED
    BY <1>1, <1>2, <2>1 DEF LInv, BestOK
<1>3. ASSUME d \notin Aggregates, ipopo'.lists = ipopo.lists
      PROVE  ListsOK'
  BY <1>1, <1>3 DEF LInv, ListsOK
<1>4. Installed("llm")' = Installed("llm")
  BY <1>1 DEF Installed
<1>5. \A p \in Range(services)' : RankOf[p] # None /\ p \notin tagged' =>
        event' # None /\ event'.op = "arrive" /\ event'.provider = p
  BY <1>1 DEF LInv, KnownOK
<1> QED
  BY <1>2, <1>3, <1>4, <1>5

\* The llm the loop has chosen among all that are installed is the nearest.
LEMMA ChosenIsNearest ==
  ASSUME LlmsDiffer, tagged \subseteq Providers, NEW a, Shape(a), NEW x, Chosen(x, a),
         NEW list \in Seq(Providers), list = Without(a, "scoped"), Distinct(list),
         Range(list) = Installed("llm"), Installed("llm") # {}, Installed("llm") \subseteq Known(a)
  PROVE  Nearest(a.llm, Installed("llm"))
<1>1. \A p \in Range(list) : FieldOf[p] = "llm"
  BY DEF Installed
<1>2. Known(a) \in SUBSET Providers
  BY DEF Known, Shape
<1>3. PICK n : /\ Nearest(n, Range(list))
               /\ ResolveInjectedBest(Chain, list, [p \in Known(a) |-> RankOf[p]]) = {n}
  BY <1>1, <1>2, NearestIsSelected, ZenonT(30)
<1>4. Selected(a) = {n}
  BY <1>3 DEF Selected
<1> QED
  BY <1>3, <1>4 DEF Chosen

\* A delivery to another field than the tools finds every tool tagged.
LEMMA ToolsKnown ==
  ASSUME LInv, NEW op \in {"arrive", "leave"}, NEW d, Delivering(op, d), d # "tools"
  PROVE  /\ \A p \in Range(loop.lists["tools"]) : RankOf[p] # None => p \in tagged
         /\ event.provider \notin Range(loop.lists["tools"])
<1>1. /\ event # None /\ event.provider \in Providers /\ d \in Dependencies(event.provider)
      /\ event.todo \subseteq Dependencies(event.provider)
  BY Delivered DEF LInv, EventOK
<1>2. "tools" \notin Dependencies(event.provider)
  BY <1>1 DEF Dependencies
<1>3. ~Pending("arrive", "tools") /\ ~Pending("leave", "tools")
  BY <1>1, <1>2 DEF Pending
<1>4. Range(loop.lists["tools"]) \subseteq {p \in Range(services) : "tools" \in Dependencies(p)}
  BY <1>3, ListFacts, HeardFacts DEF Aggregates
<1> QED
  BY <1>2, <1>4 DEF LInv, KnownOK

\* A list that gets a new service, and one that loses a service
LEMMA ListOfMore ==
  ASSUME NEW list \in Seq(Providers), NEW S, NEW order, ListOf(list, S, order),
         NEW p \in Providers, p \notin S, \A q \in Range(order) \ {p} : Older(order, q, p)
  PROVE  ListOf(Append(list, p), S \union {p}, order)
<1>1. PICK r : r = Append(list, p)
  OBVIOUS
<1>2. Distinct(list) /\ Range(list) = S
  BY DEF ListOf
<1>3. Distinct(r) /\ Range(r) = S \union {p}
  BY <1>1, <1>2, AppendFacts
<1>4. \A a, b : Older(r, a, b) <=> Older(list, a, b) \/ (a \in S /\ b = p)
  BY <1>1, <1>2, AppendFacts
<1>5. ASSUME NEW i \in DOMAIN r, NEW j \in DOMAIN r, i < j, r[i] \in Range(order), r[j] \in Range(order)
      PROVE  Older(order, r[i], r[j])
  <2>1. Older(r, r[i], r[j])
    BY <1>5 DEF Older
  <2>2. CASE Older(list, r[i], r[j])
    <3>1. PICK m, n \in DOMAIN list : m < n /\ list[m] = r[i] /\ list[n] = r[j]
      BY <2>2 DEF Older
    <3> QED
      BY <3>1, <1>5 DEF ListOf
  <2>3. CASE r[i] \in S /\ r[j] = p
    BY <2>3, <1>5
  <2> QED
    BY <2>1, <2>2, <2>3, <1>4
<1> QED
  BY <1>1, <1>3, <1>5 DEF ListOf

LEMMA ListOfLess ==
  ASSUME NEW list \in Seq(Providers), NEW S, NEW order, ListOf(list, S, order), NEW p
  PROVE  ListOf(RemoveFirst(list, p), S \ {p}, order)
<1>1. PICK r : r = RemoveFirst(list, p)
  OBVIOUS
<1>2. Distinct(list) /\ Range(list) = S
  BY DEF ListOf
<1>3. Distinct(r) /\ Range(r) = S \ {p} /\ \A a, b : Older(r, a, b) => Older(list, a, b)
  BY <1>1, <1>2, RemoveFirstFacts
<1>4. ASSUME NEW i \in DOMAIN r, NEW j \in DOMAIN r, i < j, r[i] \in Range(order), r[j] \in Range(order)
      PROVE  Older(order, r[i], r[j])
  <2>1. Older(list, r[i], r[j])
    BY <1>3, <1>4 DEF Older
  <2>2. PICK m, n \in DOMAIN list : m < n /\ list[m] = r[i] /\ list[n] = r[j]
    BY <2>1 DEF Older
  <2> QED
    BY <2>2, <1>4 DEF ListOf
<1> QED
  BY <1>1, <1>3, <1>4 DEF ListOf

\* A service is injected into a list.
LEMMA ArriveInListKeeps ==
  ASSUME LInv, NEW d \in Aggregates, ArriveInList(d)
  PROVE  LInv'
<1>1. PICK p : p = event.provider
  OBVIOUS
<1>2. PICK bound : bound = Append(ipopo.lists[d], p)
  OBVIOUS
<1>3. PICK set : set = [loop EXCEPT !.lists[d] = bound]
  OBVIOUS
<1>4. PICK r : r = IF ipopo.valid THEN ListBound(set, d, p) ELSE Only(set)
  OBVIOUS
<1>5. Delivering("arrive", d) /\ ipopo' = [ipopo EXCEPT !.lists[d] = bound] /\ Settle(r)
  BY <1>1, <1>2, <1>3, <1>4 DEF ArriveInList
<1>6. /\ p \in Providers /\ p \in Range(services) /\ p \notin Heard(d) /\ d \in Dependencies(p)
      /\ Heard(d)' = Heard(d) \union {p} /\ Heard(d)' = {q \in Range(services) : d \in Dependencies(q)}
      /\ \A q \in Range(services) \ {p} : Older(services, q, p)
      /\ \A c : c # d => Heard(c)' = Heard(c)
      /\ event # None /\ event.op = "arrive" /\ UNCHANGED <<services, tagged>>
      /\ \A o, c : Pending(o, c)' <=> Pending(o, c) /\ c # d
      /\ EventOK'
  BY <1>1, <1>5, Delivered
<1>7. /\ ipopo.lists[d] \in Seq(Providers) /\ Distinct(ipopo.lists[d])
      /\ Range(ipopo.lists[d]) = Heard(d)
  BY ListFacts
<1>8. bound \in Seq(Providers) /\ Distinct(bound) /\ Range(bound) = Heard(d)'
  BY <1>2, <1>6, <1>7, AppendFacts
<1>9. Types /\ IpopoOK /\ Shape(loop) /\ loop.excluded = None /\ tagged \subseteq Providers
  BY DEF LInv, Types
<1>10. /\ Shape(set) /\ set.llm = loop.llm /\ set.options = loop.options
       /\ set.lists = [loop.lists EXCEPT ![d] = bound] /\ set.excluded = None
       /\ set.rejected = loop.rejected /\ set.remembered = loop.remembered /\ set.graph = loop.graph
  BY <1>3, <1>8, <1>9 DEF Shape
<1>11. \A c \in Aggregates : Distinct(set.lists[c])
  BY <1>8, <1>9, <1>10, ListFacts DEF Shape
<1>12. /\ IpopoOK' /\ ipopo'.valid = ipopo.valid /\ ipopo'.best = ipopo.best
       /\ ipopo'.lists = [ipopo.lists EXCEPT ![d] = bound]
  BY <1>5, <1>8, <1>9 DEF IpopoOK
<1>13. ~ipopo.valid => r.after = set /\ r.inputs = NoGraph
  BY <1>4 DEF Only
<1>14. ipopo.valid => r = ListBound(set, d, p)
  BY <1>4
<1>15. /\ Shape(r.after) /\ r.after.options = loop.options /\ r.after.excluded = None
       /\ r.after.graph \in {loop.graph, NoGraph}
       /\ ipopo.valid /\ Admits(p) =>
            /\ r.after.lists = set.lists /\ r.after.rejected = loop.rejected
            /\ r.after.remembered = loop.remembered \union ({p} \ {q \in Providers : RankOf[q] = None})
            /\ (IF d = "scoped" THEN Chosen(loop.llm, r.after) ELSE r.after.llm = loop.llm)
            /\ Outcome(r)
       /\ ipopo.valid /\ ~Admits(p) =>
            /\ r.after.lists = [set.lists EXCEPT ![d] = RemoveFirst(set.lists[d], p)]
            /\ r.after.rejected = loop.rejected \union {<<d, p>>}
            /\ r.after.remembered = loop.remembered /\ r.after.llm = loop.llm
            /\ r.inputs = NoGraph
  <2>1. CASE ipopo.valid
    <3>1. /\ Shape(r.after) /\ r.after.options = set.options /\ r.after.excluded = set.excluded
          /\ r.after.graph \in {set.graph, NoGraph}
          /\ Admits(p) =>
               /\ r.after.lists = set.lists /\ r.after.rejected = set.rejected
               /\ r.after.remembered = set.remembered \union ({p} \ {q \in Providers : RankOf[q] = None})
               /\ (IF d = "scoped" THEN Chosen(set.llm, r.after) ELSE r.after.llm = set.llm)
               /\ Outcome(r)
          /\ ~Admits(p) =>
               /\ r.after.lists = [set.lists EXCEPT ![d] = RemoveFirst(set.lists[d], p)]
               /\ r.after.rejected = set.rejected \union {<<d, p>>}
               /\ r.after.remembered = set.remembered /\ r.after.llm = set.llm
               /\ r.inputs = NoGraph
      <4>1. p \in Providers /\ Shape(set) /\ r = ListBound(set, d, p)
        BY <1>6, <1>10, <1>14, <2>1
      <4> QED
        BY <1>11, <4>1, ListBoundEffect, SMTT(60)
    <3> QED
      BY <1>10, <3>1
  <2>2. CASE ~ipopo.valid
    BY <1>10, <1>13, <2>2
  <2> QED
    BY <2>1, <2>2
<1>16. /\ Types' /\ loop'.llm = r.after.llm /\ loop'.lists = r.after.lists
       /\ loop'.options = r.after.options /\ loop'.rejected = r.after.rejected
       /\ loop'.remembered = r.after.remembered /\ loop'.graph = r.after.graph
       /\ build'["event"] = r.inputs /\ build'["request"] = build["request"]
       /\ stale' = (stale /\ r.after.graph # NoGraph)
  BY <1>5, <1>12, <1>15, Settled
<1>17. /\ loop.rejected \subseteq loop'.rejected
       /\ \A c, q : c # d => (<<c, q>> \in loop'.rejected <=> <<c, q>> \in loop.rejected)
       /\ \A c \in Aggregates : c # d => loop'.lists[c] = loop.lists[c]
       /\ \/ loop'.lists[d] = bound /\ (ipopo.valid => Admits(p))
          \/ loop'.lists[d] = RemoveFirst(bound, p) /\ <<d, p>> \in loop'.rejected
  <2>1. CASE ~ipopo.valid
    BY <1>9, <1>10, <1>13, <1>16, <2>1 DEF Shape
  <2>2. CASE ipopo.valid /\ Admits(p)
    BY <1>9, <1>10, <1>15, <1>16, <2>2 DEF Shape
  <2>3. CASE ipopo.valid /\ ~Admits(p)
    BY <1>9, <1>10, <1>15, <1>16, <2>3 DEF Shape
  <2> QED
    BY <2>1, <2>2, <2>3
<1>18. ListsOK'
  <2> SUFFICES ASSUME NEW c \in Aggregates PROVE ListOf(ipopo'.lists[c], Heard(c)', services')
    BY DEF ListsOK
  <2>1. ListOf(ipopo.lists[c], Heard(c), services)
    BY DEF LInv, ListsOK
  <2>2. CASE c = d
    <3>1. ipopo'.lists[d] = bound
      BY <1>9, <1>12 DEF IpopoOK
    <3> QED
      BY <1>2, <1>6, <1>7, <2>1, <2>2, <3>1, ListOfMore
  <2>3. CASE c # d
    BY <1>6, <1>9, <1>12, <2>1, <2>3 DEF IpopoOK
  <2> QED
    BY <2>2, <2>3
<1>19. BestOK' /\ Installed("llm")' = Installed("llm")
  BY <1>5, <1>12, OthersKept
<1>20. FieldsOK'
  <2>1. ASSUME NEW c \in Aggregates
        PROVE  \/ loop'.lists[c] = ipopo'.lists[c]
               \/ \E q \in Providers : <<c, q>> \in loop'.rejected
                                       /\ loop'.lists[c] = RemoveFirst(ipopo'.lists[c], q)
    <3>1. CASE c = d
      BY <1>6, <1>9, <1>12, <1>17, <3>1 DEF IpopoOK
    <3>2. CASE c # d
      <4>1. loop'.lists[c] = loop.lists[c] /\ ipopo'.lists[c] = ipopo.lists[c]
        BY <1>9, <1>12, <1>17, <3>2 DEF IpopoOK
      <4> QED
        BY <1>17, <3>2, <4>1 DEF LInv, FieldsOK
    <3> QED
      BY <3>1, <3>2
  <2>2. ASSUME NEW o \in Options
        PROVE  \/ loop'.options[o] = ipopo'.best[o]
               \/ loop'.options[o] = None /\ <<o, ipopo'.best[o]>> \in loop'.rejected
    BY <1>12, <1>15, <1>16, <1>17 DEF LInv, FieldsOK
  <2> QED
    BY <2>1, <2>2 DEF FieldsOK
<1>21. InvalidOK'
  <2> SUFFICES ASSUME ~ipopo.valid PROVE InvalidOK'
    BY <1>12 DEF InvalidOK
  <2>1. loop'.llm = None /\ build'["event"] = NoGraph /\ (loop'.graph # NoGraph => stale')
    BY <1>10, <1>13, <1>16 DEF LInv, InvalidOK
  <2>2. build'["request"] # NoGraph => request'.overtaken
    BY <1>5, <1>16, Delivered DEF LInv, Types, RequestOK
  <2> QED
    BY <2>1, <2>2 DEF InvalidOK
<1>22. KnownOK'
  <2>1. \A q \in Range(services)' : RankOf[q] # None /\ q \notin tagged' =>
          event' # None /\ event'.op = "arrive" /\ event'.provider = q
    BY <1>5, OthersKept
  <2>2. /\ loop'.remembered \subseteq loop.remembered \union ({p} \ {q \in Providers : RankOf[q] = None})
        /\ loop.remembered \subseteq loop'.remembered
        /\ ipopo.valid /\ Admits(p) /\ RankOf[p] # None => p \in loop'.remembered
    <3>1. CASE ~ipopo.valid
      BY <1>10, <1>13, <1>16, <3>1
    <3>2. CASE ipopo.valid /\ Admits(p)
      BY <1>6, <1>15, <1>16, <3>2
    <3>3. CASE ipopo.valid /\ ~Admits(p)
      BY <1>15, <1>16, <3>3
    <3> QED
      BY <3>1, <3>2, <3>3
  <2>3. \A q \in Known(loop)' : RankOf[q] # None
    BY <1>6, <2>2 DEF LInv, KnownOK, Known
  <2>4. ASSUME ipopo.valid, NEW q \in Range(loop'.lists["tools"]), RankOf[q] # None
        PROVE  q \in Known(loop)'
    <3>1. CASE d = "tools"
      <4>1. q \in Range(bound) /\ (q = p => Admits(p))
        BY <1>8, <1>17, <2>4, <3>1, RemoveFirstFacts
      <4>2. q \in Range(services)
        BY <1>6, <1>8, <4>1
      <4>3. CASE q = p
        BY <2>2, <2>4, <4>1, <4>3 DEF Known
      <4>4. CASE q # p
        BY <1>1, <1>6, <2>4, <4>2, <4>4 DEF LInv, KnownOK, Known
      <4> QED
        BY <4>3, <4>4
    <3>2. CASE d # "tools"
      <4>1. q \in Range(loop.lists["tools"])
        BY <1>17, <2>4, <3>2 DEF Aggregates
      <4> QED
        BY <1>5, <1>6, <2>4, <3>2, <4>1, ToolsKnown DEF Known
    <3> QED
      BY <3>1, <3>2
  <2> QED
    BY <1>12, <2>1, <2>3, <2>4 DEF KnownOK
<1>23. LlmOK'
  <2> SUFFICES ASSUME LlmsDiffer, ipopo.valid, Installed("llm") # {}, ~KeptOut("llm")', ~KeptOut("scoped")',
                      ~Pending("arrive", "scoped")', ~Pending("leave", "scoped")'
               PROVE  Nearest(loop'.llm, Installed("llm"))
    BY <1>12, <1>19 DEF LlmOK
  <2>1. CASE d = "scoped"
    <3>1. Admits(p)
      BY <1>6, <1>15, <1>16, <2>1 DEF KeptOut
    <3>2. Chosen(loop.llm, r.after) /\ r.after.lists = set.lists
      BY <1>15, <2>1, <3>1
    <3>3. set.lists["scoped"] = bound
      BY <1>9, <1>10, <2>1 DEF Shape
    <3>4. Without(r.after, "scoped") = bound
      <4>1. None \notin Range(bound)
        BY <1>8, LoopAssumption DEF Range
      <4> QED
        BY <1>8, <1>15, <3>2, <3>3, <4>1, RemoveFirstAbsent DEF Without
    <3>5. Range(bound) = Installed("llm")
      BY <1>6, <1>8, <2>1, HeardFacts, DependsOn DEF Installed
    <3>6. Installed("llm") \subseteq Known(r.after)
      <4> SUFFICES ASSUME NEW q \in Installed("llm") PROVE q \in Known(r.after)
        OBVIOUS
      <4>1. q \in Range(services) /\ q \in Providers /\ RankOf[q] # None
        BY HeardFacts DEF Installed, LlmsDiffer
      <4>2. CASE q = p
        BY <1>15, <3>1, <4>1, <4>2 DEF Known
      <4>3. CASE q # p
        BY <1>1, <4>1, <4>3 DEF LInv, KnownOK, Known
      <4> QED
        BY <4>2, <4>3
    <3>7. Nearest(r.after.llm, Installed("llm"))
      BY <1>8, <1>9, <1>15, <3>2, <3>4, <3>5, <3>6, ChosenIsNearest
    <3> QED
      BY <1>16, <3>7
  <2>2. CASE d # "scoped"
    <3>1. loop'.llm = loop.llm
      BY <1>15, <1>16, <2>2
    <3>2. ~KeptOut("llm") /\ ~KeptOut("scoped")
      BY <1>17 DEF KeptOut
    <3>3. ~Pending("arrive", "scoped") /\ ~Pending("leave", "scoped")
      BY <1>6, <2>2
    <3> QED
      BY <3>1, <3>2, <3>3 DEF LInv, LlmOK
  <2> QED
    BY <2>1, <2>2
<1>24. GraphOK'
  <2>1. ASSUME loop'.rejected = {}
        PROVE  \/ build'["event"] = NoGraph /\ (loop'.graph # NoGraph => stale')
               \/ /\ build'["event"] = Inputs(r.after) /\ build'["event"] # NoGraph /\ ipopo'.valid
                  /\ Shape(r.after) /\ r.after.llm = loop'.llm /\ r.after.options = loop'.options
                  /\ r.after.remembered = loop'.remembered
                  /\ RemoveFirst(r.after.lists["tools"], r.after.excluded) = loop'.lists["tools"]
    <3>1. CASE ~ipopo.valid
      BY <1>10, <1>13, <1>16, <3>1 DEF LInv, InvalidOK
    <3>2. CASE ipopo.valid
      <4>1. Outcome(r)
        BY <1>15, <1>16, <2>1, <3>2
      <4>2. r.after.lists["tools"] \in Seq(Providers)
        BY <1>15 DEF Shape, Aggregates
      <4>3. RemoveFirst(r.after.lists["tools"], r.after.excluded) = loop'.lists["tools"]
        BY <1>15, <1>16, <4>2, RemoveFirstAbsent, LoopAssumption DEF Range
      <4> QED
        BY <1>12, <1>15, <1>16, <3>2, <4>1, <4>3, InputsAreAGraph DEF Outcome
    <3> QED
      BY <3>1, <3>2
  <2> QED
    BY <1>5, <1>16, <1>22, <2>1, SettledGraph
<1>25. RefusalOK' /\ GraphTypes'
  <2>1. LlmKeptOut'
    <3> SUFFICES ASSUME ipopo.valid, loop'.llm = None
                 PROVE  <<"llm", ipopo.best["llm"]>> \in loop'.rejected
      BY <1>12 DEF LlmKeptOut
    <3>1. loop.llm = None
      <4>1. CASE ~(d = "scoped" /\ Admits(p))
        BY <1>15, <1>16, <4>1
      <4>2. CASE d = "scoped" /\ Admits(p)
        <5>1. Chosen(loop.llm, r.after) /\ r.after.lists = set.lists
          BY <1>15, <4>2
        <5>2. Distinct(r.after.lists["scoped"])
          BY <1>11, <5>1 DEF Aggregates
        <5> QED
          BY <1>15, <1>16, <5>1, <5>2, ChosenIsSome
      <4> QED
        BY <4>1, <4>2
    <3> QED
      BY <1>17, <3>1 DEF LInv, RefusalOK, LlmKeptOut
  <2>2. build'["event"] # NoGraph =>
          /\ build'["event"] = Inputs(r.after) /\ r.after.llm # None
          /\ Shape(r.after) /\ Distinct(r.after.lists["tools"])
          /\ r.after.llm = loop'.llm /\ r.after.options = loop'.options
          /\ r.after.remembered = loop'.remembered
          /\ Range(r.after.lists["tools"]) \ {r.after.excluded} \subseteq Range(loop'.lists["tools"])
    <3> SUFFICES ASSUME r.inputs # NoGraph
                 PROVE  r.inputs = Inputs(r.after) /\ r.after.llm # None /\ Distinct(r.after.lists["tools"])
      BY <1>15, <1>16
    <3>1. ipopo.valid /\ Admits(p)
      BY <1>13, <1>15
    <3>2. r.inputs = Inputs(r.after) /\ r.after.llm # None
      BY <1>15, <3>1 DEF Outcome
    <3> QED
      BY <1>11, <1>15, <3>1, <3>2 DEF Aggregates
  <2> QED
    BY <1>5, <1>15, <1>16, <1>22, <2>1, <2>2, SettledRefusal
<1> QED
  BY <1>6, <1>16, <1>18, <1>19, <1>20, <1>21, <1>22, <1>23, <1>24, <1>25 DEF LInv

\* A service is taken out of a list.
LEMMA LeaveListKeeps ==
  ASSUME LInv, NEW d \in Aggregates, LeaveList(d)
  PROVE  LInv'
<1>1. PICK p : p = event.provider
  OBVIOUS
<1>2. PICK bound : bound = RemoveFirst(ipopo.lists[d], p)
  OBVIOUS
<1>3. PICK res : res = IF ipopo.valid THEN ListUnbound(loop, d, p) ELSE Only(loop)
  OBVIOUS
<1>4. PICK r : r = [res EXCEPT !.after.lists[d] = bound]
  OBVIOUS
<1>5. Delivering("leave", d) /\ ipopo' = [ipopo EXCEPT !.lists[d] = bound] /\ Settle(r)
  BY <1>1, <1>2, <1>3, <1>4 DEF LeaveList
<1>6. /\ p \in Providers /\ p \notin Range(services) /\ d \in Dependencies(p)
      /\ Heard(d)' = Heard(d) \ {p} /\ Heard(d)' = {q \in Range(services) : d \in Dependencies(q)}
      /\ \A c : c # d => Heard(c)' = Heard(c)
      /\ event # None /\ event.op = "leave" /\ UNCHANGED <<services, tagged>>
      /\ \A o, c : Pending(o, c)' <=> Pending(o, c) /\ c # d
      /\ EventOK'
  BY <1>1, <1>5, Delivered
<1>7. /\ ipopo.lists[d] \in Seq(Providers) /\ Distinct(ipopo.lists[d])
      /\ Range(ipopo.lists[d]) = Heard(d)
      /\ \A c \in Aggregates : loop.lists[c] \in Seq(Providers) /\ Distinct(loop.lists[c])
  BY ListFacts
<1>8. bound \in Seq(Providers) /\ Distinct(bound) /\ Range(bound) = Heard(d)'
  BY <1>2, <1>6, <1>7, RemoveFirstFacts
<1>9. Types /\ IpopoOK /\ Shape(loop) /\ loop.excluded = None /\ tagged \subseteq Providers
  BY DEF LInv, Types
<1>10. PICK m : m = res.after
  OBVIOUS
<1>11. ~ipopo.valid => m = loop /\ res.inputs = NoGraph /\ DOMAIN res = {"after", "inputs"}
  BY <1>3, <1>10 DEF Only
<1>12. ipopo.valid =>
         /\ Shape(m) /\ m.options = loop.options /\ m.excluded = p
         /\ m.lists = loop.lists /\ m.rejected = loop.rejected \ {<<d, p>>}
         /\ m.remembered = loop.remembered \ {p}
         /\ (IF d = "scoped" THEN Chosen(loop.llm, m) ELSE m.llm = loop.llm)
         /\ Outcome(res) /\ DOMAIN res = {"after", "inputs"} /\ m.graph \in {loop.graph, NoGraph}
  <2> SUFFICES ASSUME ipopo.valid
               PROVE  /\ Shape(m) /\ m.options = loop.options /\ m.excluded = p
                      /\ m.lists = loop.lists /\ m.rejected = loop.rejected \ {<<d, p>>}
                      /\ m.remembered = loop.remembered \ {p}
                      /\ (IF d = "scoped" THEN Chosen(loop.llm, m) ELSE m.llm = loop.llm)
                      /\ Outcome(res) /\ DOMAIN res = {"after", "inputs"}
                      /\ m.graph \in {loop.graph, NoGraph}
    OBVIOUS
  <2>1. p \in Providers /\ Shape(loop) /\ res = ListUnbound(loop, d, p)
        /\ \A c \in Aggregates : Distinct(loop.lists[c])
    BY <1>3, <1>6, <1>7, <1>9
  <2> QED
    BY <1>10, <2>1, ListUnboundEffect, SMTT(60)
<1>13. /\ Shape(m) /\ m.options = loop.options /\ m.lists = loop.lists
       /\ DOMAIN res = {"after", "inputs"} /\ m.rejected \subseteq loop.rejected
       /\ m.remembered \subseteq loop.remembered /\ m.graph \in {loop.graph, NoGraph}
       /\ \A c, q : <<c, q>> # <<d, p>> => (<<c, q>> \in m.rejected <=> <<c, q>> \in loop.rejected)
       /\ ipopo.valid => <<d, p>> \notin m.rejected
  BY <1>9, <1>11, <1>12
<1>14. r.inputs = res.inputs /\ r.after = [m EXCEPT !.lists[d] = bound]
  BY <1>4, <1>10, <1>13
<1>15. /\ Shape(r.after) /\ r.after.llm = m.llm /\ r.after.options = m.options
       /\ r.after.lists = [loop.lists EXCEPT ![d] = bound] /\ r.after.rejected = m.rejected
       /\ r.after.remembered = m.remembered /\ r.after.graph = m.graph
  BY <1>8, <1>13, <1>14 DEF Shape
<1>16. /\ IpopoOK' /\ ipopo'.valid = ipopo.valid /\ ipopo'.best = ipopo.best
       /\ ipopo'.lists = [ipopo.lists EXCEPT ![d] = bound]
  BY <1>5, <1>8, <1>9 DEF IpopoOK
<1>17. /\ Types' /\ loop'.llm = m.llm /\ loop'.lists = [loop.lists EXCEPT ![d] = bound]
       /\ loop'.options = m.options /\ loop'.rejected = m.rejected
       /\ loop'.remembered = m.remembered /\ loop'.graph = m.graph
       /\ build'["event"] = res.inputs /\ build'["request"] = build["request"]
       /\ stale' = (stale /\ m.graph # NoGraph)
  BY <1>5, <1>14, <1>15, <1>16, Settled
<1>18. loop'.lists[d] = bound /\ ipopo'.lists[d] = bound
       /\ \A c \in Aggregates : c # d => loop'.lists[c] = loop.lists[c] /\ ipopo'.lists[c] = ipopo.lists[c]
  BY <1>9, <1>16, <1>17 DEF Shape, IpopoOK
<1>19. ListsOK'
  <2> SUFFICES ASSUME NEW c \in Aggregates PROVE ListOf(ipopo'.lists[c], Heard(c)', services')
    BY DEF ListsOK
  <2>1. ListOf(ipopo.lists[c], Heard(c), services)
    BY DEF LInv, ListsOK
  <2>2. CASE c = d
    BY <1>2, <1>6, <1>7, <1>18, <2>1, <2>2, ListOfLess
  <2>3. CASE c # d
    BY <1>6, <1>18, <2>1, <2>3
  <2> QED
    BY <2>2, <2>3
<1>20. BestOK' /\ Installed("llm")' = Installed("llm")
  BY <1>5, <1>16, OthersKept
<1>21. FieldsOK'
  <2>1. ASSUME NEW c \in Aggregates
        PROVE  \/ loop'.lists[c] = ipopo'.lists[c]
               \/ \E q \in Providers : <<c, q>> \in loop'.rejected
                                       /\ loop'.lists[c] = RemoveFirst(ipopo'.lists[c], q)
    <3>1. CASE c = d
      BY <1>18, <3>1
    <3>2. CASE c # d
      <4>1. \A q : <<c, q>> # <<d, p>>
        BY <3>2
      <4> QED
        BY <1>13, <1>17, <1>18, <3>2, <4>1 DEF LInv, FieldsOK
    <3> QED
      BY <3>1, <3>2
  <2>2. ASSUME NEW o \in Options
        PROVE  \/ loop'.options[o] = ipopo'.best[o]
               \/ loop'.options[o] = None /\ <<o, ipopo'.best[o]>> \in loop'.rejected
    <3>1. o # d
      BY DEF Options, Aggregates
    <3> QED
      BY <1>13, <1>16, <1>17, <3>1 DEF LInv, FieldsOK
  <2> QED
    BY <2>1, <2>2 DEF FieldsOK
<1>22. InvalidOK'
  <2> SUFFICES ASSUME ~ipopo.valid PROVE InvalidOK'
    BY <1>16 DEF InvalidOK
  <2>1. loop'.llm = None /\ build'["event"] = NoGraph /\ (loop'.graph # NoGraph => stale')
    BY <1>11, <1>17 DEF LInv, InvalidOK
  <2>2. build'["request"] # NoGraph => request'.overtaken
    BY <1>5, <1>17, Delivered DEF LInv, Types, RequestOK
  <2> QED
    BY <2>1, <2>2 DEF InvalidOK
<1>23. \A q \in Range(services) : RankOf[q] # None => q \in tagged
  BY <1>6 DEF LInv, KnownOK
<1>24. KnownOK'
  <2>1. \A q \in Range(services)' : RankOf[q] # None /\ q \notin tagged' =>
          event' # None /\ event'.op = "arrive" /\ event'.provider = q
    BY <1>5, OthersKept
  <2>2. \A q \in Known(loop)' : RankOf[q] # None
    BY <1>6, <1>13, <1>17 DEF LInv, KnownOK, Known
  <2>3. ASSUME NEW q \in Range(loop'.lists["tools"]), RankOf[q] # None
        PROVE  q \in Known(loop)'
    <3>1. CASE d = "tools"
      BY <1>6, <1>8, <1>18, <1>23, <2>3, <3>1 DEF Known
    <3>2. CASE d # "tools"
      <4>1. q \in Range(loop.lists["tools"])
        BY <1>18, <2>3, <3>2 DEF Aggregates
      <4> QED
        BY <1>5, <1>6, <2>3, <3>2, <4>1, ToolsKnown DEF Known
    <3> QED
      BY <3>1, <3>2
  <2> QED
    BY <2>1, <2>2, <2>3 DEF KnownOK
\* no guard keeps another out of the list
<1>25. ASSUME ipopo.valid, \A q \in Providers : <<d, q>> \notin loop'.rejected
       PROVE  RemoveFirst(loop.lists[d], p) = bound
  <2>1. CASE loop.lists[d] = ipopo.lists[d]
    BY <1>2, <2>1
  <2>2. CASE loop.lists[d] # ipopo.lists[d]
    <3>1. PICK q \in Providers :
            <<d, q>> \in loop.rejected /\ loop.lists[d] = RemoveFirst(ipopo.lists[d], q)
      BY <2>2 DEF LInv, FieldsOK
    <3>2. q = p
      BY <1>13, <1>17, <1>25, <3>1
    <3>3. p \notin Range(bound)
      BY <1>6, <1>8
    <3> QED
      BY <1>2, <1>8, <3>1, <3>2, <3>3, RemoveFirstAbsent
  <2> QED
    BY <2>1, <2>2
<1>26. LlmOK'
  <2> SUFFICES ASSUME LlmsDiffer, ipopo.valid, Installed("llm") # {}, ~KeptOut("llm")', ~KeptOut("scoped")',
                      ~Pending("arrive", "scoped")', ~Pending("leave", "scoped")'
               PROVE  Nearest(loop'.llm, Installed("llm"))
    BY <1>16, <1>20 DEF LlmOK
  <2>1. CASE d = "scoped"
    <3>1. Chosen(loop.llm, m) /\ m.excluded = p
      BY <1>12, <2>1
    <3>2. Without(m, "scoped") = bound
      <4>1. \A q \in Providers : <<d, q>> \notin loop'.rejected
        BY <2>1 DEF KeptOut
      <4> QED
        BY <1>13, <1>25, <2>1, <3>1, <4>1 DEF Without
    <3>3. Range(bound) = Installed("llm")
      BY <1>6, <1>8, <2>1, HeardFacts, DependsOn DEF Installed
    <3>4. Installed("llm") \subseteq Known(m)
      BY <1>23, HeardFacts DEF Installed, LlmsDiffer, Known
    <3>5. Nearest(m.llm, Installed("llm"))
      BY <1>8, <1>9, <1>13, <3>1, <3>2, <3>3, <3>4, ChosenIsNearest
    <3> QED
      BY <1>17, <3>5
  <2>2. CASE d # "scoped"
    <3>1. loop'.llm = loop.llm
      BY <1>12, <1>17, <2>2
    <3>2. d # "llm"
      BY DEF Aggregates
    <3>3. ~KeptOut("llm") /\ ~KeptOut("scoped")
      BY <1>13, <1>17, <2>2, <3>2 DEF KeptOut
    <3>4. ~Pending("arrive", "scoped") /\ ~Pending("leave", "scoped")
      BY <1>6, <2>2
    <3> QED
      BY <3>1, <3>3, <3>4 DEF LInv, LlmOK
  <2> QED
    BY <2>1, <2>2
<1>27. GraphOK'
  <2>1. ASSUME loop'.rejected = {}
        PROVE  \/ build'["event"] = NoGraph /\ (loop'.graph # NoGraph => stale')
               \/ /\ build'["event"] = Inputs(m) /\ build'["event"] # NoGraph /\ ipopo'.valid
                  /\ Shape(m) /\ m.llm = loop'.llm /\ m.options = loop'.options
                  /\ m.remembered = loop'.remembered
                  /\ RemoveFirst(m.lists["tools"], m.excluded) = loop'.lists["tools"]
    <3>1. CASE ~ipopo.valid
      BY <1>11, <1>17, <3>1 DEF LInv, InvalidOK
    <3>2. CASE ipopo.valid
      <4>1. Outcome(res) /\ m.excluded = p
        BY <1>12, <3>2
      <4>2. RemoveFirst(m.lists["tools"], m.excluded) = loop'.lists["tools"]
        <5>1. CASE d = "tools"
          BY <1>13, <1>18, <1>25, <2>1, <3>2, <4>1, <5>1
        <5>2. CASE d # "tools"
          <6>1. p \notin Range(loop.lists["tools"])
            BY <1>1, <1>5, <5>2, ToolsKnown
          <6> QED
            BY <1>7, <1>13, <1>18, <4>1, <5>2, <6>1, RemoveFirstAbsent DEF Aggregates
        <5> QED
          BY <5>1, <5>2
      <4> QED
        BY <1>10, <1>13, <1>16, <1>17, <3>2, <4>1, <4>2, InputsAreAGraph DEF Outcome
    <3> QED
      BY <3>1, <3>2
  <2> QED
    BY <1>5, <1>17, <1>24, <2>1, SettledGraph
<1>28. RefusalOK' /\ GraphTypes'
  <2>1. LlmKeptOut'
    <3> SUFFICES ASSUME ipopo.valid, loop'.llm = None
                 PROVE  <<"llm", ipopo.best["llm"]>> \in loop'.rejected
      BY <1>16 DEF LlmKeptOut
    <3>1. loop.llm = None
      <4>1. CASE d # "scoped"
        BY <1>12, <1>17, <4>1
      <4>2. CASE d = "scoped"
        <5>1. Chosen(loop.llm, m) /\ Distinct(m.lists["scoped"])
          BY <1>7, <1>12, <4>2
        <5> QED
          BY <1>13, <1>17, <5>1, ChosenIsSome
      <4> QED
        BY <4>1, <4>2
    <3>2. <<"llm", ipopo.best["llm"]>> # <<d, p>>
      BY DEF Aggregates
    <3> QED
      BY <1>13, <1>17, <3>1, <3>2 DEF LInv, RefusalOK, LlmKeptOut
  <2>2. build'["event"] # NoGraph =>
          /\ build'["event"] = Inputs(m) /\ m.llm # None /\ Shape(m) /\ Distinct(m.lists["tools"])
          /\ m.llm = loop'.llm /\ m.options = loop'.options /\ m.remembered = loop'.remembered
          /\ Range(m.lists["tools"]) \ {m.excluded} \subseteq Range(loop'.lists["tools"])
    <3> SUFFICES ASSUME res.inputs # NoGraph
                 PROVE  /\ res.inputs = Inputs(m) /\ m.llm # None /\ Distinct(m.lists["tools"])
                        /\ Range(m.lists["tools"]) \ {m.excluded} \subseteq Range(loop'.lists["tools"])
      BY <1>13, <1>17
    <3>1. res.inputs = Inputs(m) /\ m.llm # None /\ m.excluded = p
      BY <1>10, <1>11, <1>12 DEF Outcome
    <3>2. m.lists["tools"] = loop.lists["tools"] /\ Distinct(loop.lists["tools"])
      BY <1>7, <1>13 DEF Aggregates
    <3>3. Range(loop.lists["tools"]) \ {p} \subseteq Range(loop'.lists["tools"])
      <4>1. CASE d = "tools"
        BY <1>6, <1>8, <1>18, <4>1, ListFacts
      <4>2. CASE d # "tools"
        BY <1>18, <4>2 DEF Aggregates
      <4> QED
        BY <4>1, <4>2
    <3> QED
      BY <3>1, <3>2, <3>3
  <2> QED
    BY <1>5, <1>13, <1>17, <1>24, <2>1, <2>2, SettledRefusal
<1> QED
  BY <1>6, <1>17, <1>19, <1>20, <1>21, <1>22, <1>24, <1>26, <1>27, <1>28 DEF LInv

\* A best field that keeps what it has: nothing moves.
LEMMA UnmovedKeeps ==
  ASSUME LInv, NEW op \in {"arrive", "leave"}, NEW d \in BestFields, Delivering(op, d),
         UNCHANGED <<ipopo, loop, build, stale>>, BestOK'
  PROVE  LInv'
<1>1. /\ UNCHANGED <<services, tagged>> /\ build["event"] = NoGraph /\ EventOK'
      /\ DOMAIN request' = {"pc", "overtaken"} /\ request'.pc = request.pc
      /\ request'.overtaken = (request.pc # "idle")
      /\ \A o, c : Pending(o, c)' <=> Pending(o, c) /\ c # d
  BY Delivered
<1>2. d \notin Aggregates /\ d # "scoped"
  BY DEF BestFields, Options, Aggregates
<1>3. Types'
  BY <1>1 DEF LInv, Types, IpopoOK, RequestOK
<1>4. ListsOK'
  BY <1>2, OthersKept
<1>5. FieldsOK'
  BY DEF LInv, FieldsOK
<1>6. InvalidOK'
  BY <1>1 DEF LInv, InvalidOK, Types, RequestOK
<1>7. KnownOK'
  BY <1>1, OthersKept DEF LInv, KnownOK, Known
<1>8. LlmOK'
  BY <1>1, <1>2, OthersKept DEF LInv, LlmOK, KeptOut
<1>9. GraphOK'
  BY <1>1 DEF LInv, GraphOK, Types, RequestOK
<1>10. RefusalOK' /\ GraphTypes'
  <2>1. LlmKeptOut'
    BY DEF LInv, RefusalOK, LlmKeptOut
  <2> QED
    BY <1>1, <1>3, <1>7, <2>1, SettledRefusal
<1> QED
  BY <1>1, <1>3, <1>4, <1>5, <1>6, <1>7, <1>8, <1>9, <1>10 DEF LInv

\* A best field is given a service, the best there is for it, in the place of
\* the one it had or of none.
LEMMA RebindKeeps ==
  ASSUME LInv, NEW op \in {"arrive", "leave"}, NEW d \in BestFields, Delivering(op, d),
         NEW x \in Providers,
         BestOf(services, d, {q \in Range(services) : d \in Dependencies(q)}, x),
         ~ipopo.valid /\ d = "llm" => Installed("llm") = {x} /\ op = "arrive",
         NEW freed, Shape(freed), freed.lists = loop.lists, freed.excluded = None,
         freed.remembered = loop.remembered,
         d # "llm" => freed.llm = loop.llm,
         \A o \in Options \ {d} : freed.options[o] = loop.options[o],
         freed.rejected \subseteq loop.rejected,
         \A c, q : c # d /\ <<c, q>> \in loop.rejected => <<c, q>> \in freed.rejected,
         freed.graph \in {loop.graph, NoGraph},
         ipopo' = [ipopo EXCEPT !.best[d] = x, !.valid = @ \/ d = "llm"],
         Settle(BestBound(freed, d, x, ipopo.valid))
  PROVE  LInv'
<1>1. PICK r : r = BestBound(freed, d, x, ipopo.valid)
  OBVIOUS
<1>2. /\ d \notin Aggregates /\ d # "scoped" /\ d # "tools" /\ (d # "llm" => d \in Options)
      /\ "llm" \notin Options
  BY DEF BestFields, Options, Aggregates
<1>3. Types /\ IpopoOK /\ Shape(loop) /\ tagged \subseteq Providers
  BY DEF LInv, Types
<1>4. /\ \A c \in Aggregates : /\ loop.lists[c] \in Seq(Providers) /\ Distinct(loop.lists[c])
                               /\ Range(loop.lists[c]) \subseteq Heard(c)
  BY ListFacts
<1>5. /\ Shape(r.after) /\ r.after.lists = loop.lists /\ r.after.excluded = None
      /\ r.after.remembered = loop.remembered /\ r.after.graph \in {loop.graph, NoGraph}
      /\ d = "llm" => r.after.options = freed.options
      /\ d # "llm" => r.after.llm = loop.llm
      /\ ipopo.valid /\ ~Admits(x) =>
           /\ r.after.rejected = freed.rejected \union {<<d, x>>}
           /\ d = "llm" => r.after.llm = None /\ r.after.graph = NoGraph
           /\ d # "llm" => r.after.options = [freed.options EXCEPT ![d] = None]
           /\ r.inputs = NoGraph
      /\ ~(ipopo.valid /\ ~Admits(x)) =>
           /\ r.after.rejected = freed.rejected
           /\ d # "llm" => r.after.options = [freed.options EXCEPT ![d] = x]
           /\ d = "llm" => IF ipopo.valid THEN r.after.llm = x ELSE Chosen(x, r.after)
           /\ IF ipopo.valid \/ d = "llm" THEN Outcome(r)
              ELSE r.inputs = NoGraph /\ r.after.graph = freed.graph
  <2>1. \A c \in Aggregates : Distinct(freed.lists[c])
    BY <1>4
  <2>2. PICK v : v = ipopo.valid
    OBVIOUS
  <2>3. v \in BOOLEAN /\ r = BestBound(freed, d, x, v)
    BY <1>1, <1>3, <2>2 DEF IpopoOK
  <2>4. /\ Shape(r.after) /\ r.after.lists = freed.lists /\ r.after.excluded = freed.excluded
        /\ r.after.remembered = freed.remembered /\ r.after.graph \in {freed.graph, NoGraph}
        /\ d = "llm" => r.after.options = freed.options
        /\ d # "llm" => r.after.llm = freed.llm
        /\ v /\ ~Admits(x) =>
             /\ r.after.rejected = freed.rejected \union {<<d, x>>}
             /\ d = "llm" => r.after.llm = None /\ r.after.graph = NoGraph
             /\ d # "llm" => r.after.options = [freed.options EXCEPT ![d] = None]
             /\ r.inputs = NoGraph
        /\ ~(v /\ ~Admits(x)) =>
             /\ r.after.rejected = freed.rejected
             /\ d # "llm" => r.after.options = [freed.options EXCEPT ![d] = x]
             /\ d = "llm" => IF v THEN r.after.llm = x ELSE Chosen(x, r.after)
             /\ IF v \/ d = "llm" THEN Outcome(r)
                ELSE r.inputs = NoGraph /\ r.after.graph = freed.graph
    BY <2>1, <2>3, BestBoundEffect, SMTT(60)
  <2> QED
    BY <2>2, <2>4
<1>6. /\ IpopoOK' /\ ipopo'.valid = (ipopo.valid \/ d = "llm") /\ ipopo'.lists = ipopo.lists
      /\ ipopo'.best[d] = x /\ \A f \in BestFields \ {d} : ipopo'.best[f] = ipopo.best[f]
  BY <1>3 DEF IpopoOK, Optional
<1>7. /\ Types' /\ loop'.llm = r.after.llm /\ loop'.lists = loop.lists
      /\ loop'.options = r.after.options /\ loop'.rejected = r.after.rejected
      /\ loop'.remembered = loop.remembered /\ loop'.graph = r.after.graph
      /\ build'["event"] = r.inputs /\ build'["request"] = build["request"]
      /\ stale' = (stale /\ r.after.graph # NoGraph)
  BY <1>1, <1>5, <1>6, Settled
<1>8. /\ EventOK' /\ UNCHANGED <<services, tagged>> /\ event # None /\ event.op = op
      /\ Heard(d)' = {q \in Range(services) : d \in Dependencies(q)}
      /\ \A c : c # d => Heard(c)' = Heard(c)
      /\ \A o, c : Pending(o, c)' <=> Pending(o, c) /\ c # d
  BY Delivered
<1>9. ListsOK' /\ Installed("llm")' = Installed("llm")
  BY <1>2, <1>6, OthersKept
<1>10. BestOK'
  <2>1. ASSUME NEW f \in BestFields
        PROVE  \/ Pending("leave", f)' /\ ipopo'.best[f] = event'.provider
               \/ BestOf(services', f, Heard(f)' \intersect Range(services'), ipopo'.best[f])
    <3>1. CASE f = d
      <4>1. Heard(d)' \intersect Range(services') = {q \in Range(services) : d \in Dependencies(q)}
        BY <1>8
      <4> QED
        BY <1>6, <1>8, <3>1, <4>1
    <3>2. CASE f # d
      <4>1. event'.provider = event.provider
        BY Delivered
      <4> QED
        <5>1. Pending("leave", f)' <=> Pending("leave", f)
          BY <1>8, <3>2
        <5>2. ipopo'.best[f] = ipopo.best[f] /\ Heard(f)' = Heard(f) /\ services' = services
          BY <1>6, <1>8, <3>2
        <5>3. \/ Pending("leave", f) /\ ipopo.best[f] = event.provider
              \/ BestOf(services, f, Heard(f) \intersect Range(services), ipopo.best[f])
          BY DEF LInv, BestOK
        <5> QED
          BY <4>1, <5>1, <5>2, <5>3
    <3> QED
      BY <3>1, <3>2
  <2>2. ipopo'.valid <=> ipopo'.best["llm"] # None
    <3>1. CASE d = "llm"
      BY <1>6, <3>1, LoopAssumption
    <3>2. CASE d # "llm"
      BY <1>6, <3>2 DEF LInv, BestOK, BestFields
    <3> QED
      BY <3>1, <3>2
  <2> QED
    BY <2>1, <2>2 DEF BestOK
<1>11. \A c, q : c # d => (<<c, q>> \in loop'.rejected <=> <<c, q>> \in loop.rejected)
  <2>1. CASE ipopo.valid /\ ~Admits(x)
    BY <1>5, <1>7, <2>1
  <2>2. CASE ~(ipopo.valid /\ ~Admits(x))
    BY <1>5, <1>7, <2>2
  <2> QED
    BY <2>1, <2>2
<1>12. FieldsOK'
  <2>1. ASSUME NEW c \in Aggregates
        PROVE  \/ loop'.lists[c] = ipopo'.lists[c]
               \/ \E q \in Providers : <<c, q>> \in loop'.rejected
                                       /\ loop'.lists[c] = RemoveFirst(ipopo'.lists[c], q)
    <3>1. c # d
      BY <1>2
    <3> QED
      <4>1. loop'.lists[c] = loop.lists[c] /\ ipopo'.lists[c] = ipopo.lists[c]
        BY <1>6, <1>7
      <4>2. \A q : <<c, q>> \in loop.rejected => <<c, q>> \in loop'.rejected
        BY <1>11, <3>1
      <4>3. \/ loop.lists[c] = ipopo.lists[c]
            \/ \E q \in Providers : <<c, q>> \in loop.rejected
                                    /\ loop.lists[c] = RemoveFirst(ipopo.lists[c], q)
        BY DEF LInv, FieldsOK
      <4> QED
        BY <4>1, <4>2, <4>3
  <2>2. ASSUME NEW o \in Options
        PROVE  \/ loop'.options[o] = ipopo'.best[o]
               \/ loop'.options[o] = None /\ <<o, ipopo'.best[o]>> \in loop'.rejected
    <3>1. CASE o = d /\ ipopo.valid /\ ~Admits(x)
      BY <1>2, <1>5, <1>6, <1>7, <3>1 DEF Shape
    <3>2. CASE o = d /\ ~(ipopo.valid /\ ~Admits(x))
      BY <1>2, <1>5, <1>6, <1>7, <3>2 DEF Shape
    <3>3. CASE o # d
      <4>1. loop'.options[o] = loop.options[o]
        <5>1. freed.options[o] = loop.options[o] /\ o \in DOMAIN freed.options
          BY <3>3 DEF Shape
        <5>2. CASE d = "llm"
          BY <1>5, <1>7, <5>1, <5>2
        <5>3. CASE d # "llm" /\ ipopo.valid /\ ~Admits(x)
          BY <1>5, <1>7, <3>3, <5>1, <5>3
        <5>4. CASE d # "llm" /\ ~(ipopo.valid /\ ~Admits(x))
          BY <1>5, <1>7, <3>3, <5>1, <5>4
        <5> QED
          BY <5>2, <5>3, <5>4
      <4>2. ipopo'.best[o] = ipopo.best[o]
        BY <1>6, <3>3 DEF BestFields
      <4> QED
        BY <1>11, <3>3, <4>1, <4>2 DEF LInv, FieldsOK
    <3> QED
      BY <3>1, <3>2, <3>3
  <2> QED
    BY <2>1, <2>2 DEF FieldsOK
<1>13. InvalidOK'
  <2> SUFFICES ASSUME ~ipopo.valid, d # "llm" PROVE InvalidOK'
    BY <1>6 DEF InvalidOK
  <2>1. loop'.llm = None /\ build'["event"] = NoGraph /\ (loop'.graph # NoGraph => stale')
    BY <1>5, <1>7 DEF LInv, InvalidOK
  <2>2. build'["request"] # NoGraph => request'.overtaken
    BY <1>7, Delivered DEF LInv, Types, RequestOK
  <2> QED
    BY <2>1, <2>2 DEF InvalidOK
<1>14. KnownOK'
  <2>1. \A q \in Range(services)' : RankOf[q] # None /\ q \notin tagged' =>
          event' # None /\ event'.op = "arrive" /\ event'.provider = q
    BY OthersKept
  <2>2. \A q \in Known(loop)' : RankOf[q] # None
    BY <1>7, <1>8 DEF LInv, KnownOK, Known
  <2>3. \A q \in Range(loop'.lists["tools"]) : RankOf[q] # None => q \in Known(loop)'
    BY <1>2, <1>7, <1>8, ToolsKnown DEF Known
  <2> QED
    BY <2>1, <2>2, <2>3 DEF KnownOK
<1>15. LlmOK'
  <2> SUFFICES ASSUME LlmsDiffer, ipopo'.valid, Installed("llm") # {}, ~KeptOut("llm")', ~KeptOut("scoped")',
                      ~Pending("arrive", "scoped")', ~Pending("leave", "scoped")'
               PROVE  Nearest(loop'.llm, Installed("llm"))
    BY <1>9 DEF LlmOK
  <2>1. CASE d = "llm" /\ ipopo.valid
    <3>1. Admits(x)
      BY <1>5, <1>7, <2>1 DEF KeptOut
    <3>2. loop'.llm = x
      BY <1>5, <1>7, <2>1, <3>1
    <3>3. PICK S : S = {q \in Range(services) : d \in Dependencies(q)}
      OBVIOUS
    <3>4. {q \in S : FieldOf[q] = "llm"} = Installed("llm")
      BY <2>1, <3>3, HeardFacts, DependsOn DEF Installed
    <3>5. /\ services \in Seq(Providers) /\ Distinct(services) /\ S \in SUBSET Range(services)
          /\ x # None /\ BestOf(services, "llm", S, x)
      BY <2>1, <3>3, LoopAssumption DEF LInv, Types, EventOK
    <3>6. Nearest(x, {q \in S : FieldOf[q] = "llm"})
      BY <3>5, BestIsNearest
    <3> QED
      BY <3>2, <3>4, <3>6
  <2>2. CASE d = "llm" /\ ~ipopo.valid
    <3>1. Installed("llm") = {x} /\ op = "arrive"
      BY <2>2
    <3>2. Chosen(x, r.after)
      BY <1>5, <2>2
    <3>3. Selected(r.after) \subseteq {x}
      <4>1. None \notin Range(loop.lists["scoped"])
        BY <1>4, LoopAssumption DEF Aggregates, Range
      <4>2. Without(r.after, "scoped") = loop.lists["scoped"]
        BY <1>4, <1>5, <4>1, RemoveFirstAbsent DEF Without, Aggregates
      <4>3. Selected(r.after) \subseteq Range(loop.lists["scoped"])
        BY <4>2, SelectedIsInjected DEF Selected
      <4>4. Range(loop.lists["scoped"]) \subseteq Heard("scoped")
        BY <1>4 DEF Aggregates
      <4>5. Heard("scoped") \subseteq Installed("llm")
        BY <1>8, <3>1, HeardFacts, DependsOn DEF Installed
      <4> QED
        BY <3>1, <4>3, <4>4, <4>5
    <3>4. loop'.llm = x
      BY <1>7, <3>2, <3>3 DEF Chosen
    <3> QED
      BY <3>1, <3>4 DEF Nearest
  <2>3. CASE d # "llm"
    <3>1. loop'.llm = loop.llm /\ ipopo.valid
      BY <1>5, <1>6, <1>7, <2>3
    <3>2. ~KeptOut("llm") /\ ~KeptOut("scoped")
      BY <1>2, <1>11, <2>3 DEF KeptOut
    <3>3. ~Pending("arrive", "scoped") /\ ~Pending("leave", "scoped")
      BY <1>2, <1>8
    <3> QED
      BY <3>1, <3>2, <3>3 DEF LInv, LlmOK
  <2> QED
    BY <2>1, <2>2, <2>3
<1>16. GraphOK'
  <2>1. ASSUME loop'.rejected = {}
        PROVE  \/ build'["event"] = NoGraph /\ (loop'.graph # NoGraph => stale')
               \/ /\ build'["event"] = Inputs(r.after) /\ build'["event"] # NoGraph /\ ipopo'.valid
                  /\ Shape(r.after) /\ r.after.llm = loop'.llm /\ r.after.options = loop'.options
                  /\ r.after.remembered = loop'.remembered
                  /\ RemoveFirst(r.after.lists["tools"], r.after.excluded) = loop'.lists["tools"]
    <3>1. ~(ipopo.valid /\ ~Admits(x))
      BY <1>5, <1>7, <2>1
    <3>2. CASE ~ipopo.valid /\ d # "llm"
      BY <1>5, <1>7, <3>1, <3>2 DEF LInv, InvalidOK
    <3>3. CASE ipopo.valid \/ d = "llm"
      <4>1. Outcome(r)
        BY <1>5, <3>1, <3>3
      <4>2. None \notin Range(loop.lists["tools"])
        BY <1>4, LoopAssumption DEF Aggregates, Range
      <4>3. RemoveFirst(r.after.lists["tools"], r.after.excluded) = loop'.lists["tools"]
        BY <1>4, <1>5, <1>7, <4>2, RemoveFirstAbsent DEF Aggregates
      <4>4. CASE r.inputs = NoGraph /\ r.after.graph = NoGraph
        BY <1>7, <4>4
      <4>5. CASE r.inputs = Inputs(r.after) /\ r.after.llm # None
        <5>1. r.inputs # NoGraph
          BY <4>5, InputsAreAGraph
        <5> QED
          BY <1>5, <1>6, <1>7, <3>3, <4>3, <4>5, <5>1
      <4> QED
        BY <4>1, <4>4, <4>5 DEF Outcome
    <3> QED
      BY <3>2, <3>3
  <2> QED
    BY <1>7, <1>14, <2>1, SettledGraph
<1>17. RefusalOK' /\ GraphTypes'
  <2>1. LlmKeptOut'
    <3> SUFFICES ASSUME ipopo'.valid, loop'.llm = None
                 PROVE  <<"llm", ipopo'.best["llm"]>> \in loop'.rejected
      BY DEF LlmKeptOut
    <3>1. CASE d # "llm"
      <4>1. ipopo.valid /\ loop.llm = None /\ ipopo'.best["llm"] = ipopo.best["llm"]
        BY <1>5, <1>6, <1>7, <3>1 DEF BestFields
      <4> QED
        BY <1>11, <3>1, <4>1 DEF LInv, RefusalOK, LlmKeptOut
    <3>2. CASE d = "llm" /\ ipopo.valid /\ ~Admits(x)
      BY <1>5, <1>6, <1>7, <3>2
    <3>3. CASE d = "llm" /\ ~(ipopo.valid /\ ~Admits(x))
      <4>1. x # None
        BY LoopAssumption
      <4>2. r.after.llm = x \/ Chosen(x, r.after)
        BY <1>5, <3>3
      <4>3. Distinct(r.after.lists["scoped"])
        BY <1>4, <1>5 DEF Aggregates
      <4> QED
        BY <1>5, <1>7, <4>1, <4>2, <4>3, ChosenIsSome
    <3> QED
      BY <3>1, <3>2, <3>3
  <2>2. build'["event"] # NoGraph =>
          /\ build'["event"] = Inputs(r.after) /\ r.after.llm # None
          /\ Shape(r.after) /\ Distinct(r.after.lists["tools"])
          /\ r.after.llm = loop'.llm /\ r.after.options = loop'.options
          /\ r.after.remembered = loop'.remembered
          /\ Range(r.after.lists["tools"]) \ {r.after.excluded} \subseteq Range(loop'.lists["tools"])
    <3> SUFFICES ASSUME r.inputs # NoGraph
                 PROVE  r.inputs = Inputs(r.after) /\ r.after.llm # None /\ Distinct(r.after.lists["tools"])
      BY <1>5, <1>7
    <3>1. Outcome(r)
      BY <1>5
    <3> QED
      BY <1>4, <1>5, <3>1 DEF Outcome, Aggregates
  <2> QED
    BY <1>5, <1>7, <1>14, <2>1, <2>2, SettledRefusal
<1> QED
  BY <1>7, <1>8, <1>9, <1>10, <1>12, <1>13, <1>14, <1>15, <1>16, <1>17 DEF LInv

\* A service comes to a best field.
LEMMA ArriveInBestKeeps ==
  ASSUME LInv, NEW d \in BestFields, ArriveInBest(d)
  PROVE  LInv'
<1>1. PICK p : p = event.provider
  OBVIOUS
<1>2. PICK old : old = ipopo.best[d]
  OBVIOUS
<1>3. Delivering("arrive", d)
  BY DEF ArriveInBest
<1>4. /\ p \in Providers /\ p \in Range(services) /\ p \notin Heard(d) /\ d \in Dependencies(p)
      /\ Heard(d)' = Heard(d) \union {p} /\ Heard(d)' = {q \in Range(services) : d \in Dependencies(q)}
      /\ \A q \in Range(services) \ {p} : Older(services, q, p)
      /\ \A c : c # d => Heard(c)' = Heard(c)
      /\ event # None /\ event.op = "arrive" /\ UNCHANGED services
      /\ event'.provider = p
      /\ \A o, c : Pending(o, c)' <=> Pending(o, c) /\ c # d
      /\ ~Pending("leave", d)
  BY <1>1, <1>3, Delivered
<1>5. Types /\ IpopoOK /\ Shape(loop) /\ loop.excluded = None
      /\ services \in Seq(Providers) /\ Distinct(services)
  BY DEF LInv, Types, EventOK
<1>6. Heard(d) \subseteq Range(services)
  BY <1>4
<1>7. BestOf(services, d, Heard(d), old)
  <2>1. Heard(d) \intersect Range(services) = Heard(d)
    BY <1>6
  <2> QED
    BY <1>2, <1>4, <2>1 DEF LInv, BestOK
<1>8. /\ old = None \/ Better(p, old) => BestOf(services, d, Heard(d) \union {p}, p)
      /\ ~(old = None \/ Better(p, old)) => BestOf(services, d, Heard(d) \union {p}, old)
  BY <1>4, <1>5, <1>6, <1>7, BestWithNew
<1>9. CASE old # None /\ ~Better(p, old)
  <2>1. UNCHANGED <<ipopo, loop, build, stale>>
    BY <1>1, <1>2, <1>9 DEF ArriveInBest
  <2>2. BestOK'
    <3>1. ASSUME NEW f \in BestFields
          PROVE  \/ Pending("leave", f)' /\ ipopo'.best[f] = event'.provider
                 \/ BestOf(services', f, Heard(f)' \intersect Range(services'), ipopo'.best[f])
      <4>1. CASE f = d
        <5>1. Heard(d)' \intersect Range(services') = Heard(d) \union {p}
          BY <1>4, <1>6
        <5> QED
          BY <1>2, <1>4, <1>8, <1>9, <2>1, <4>1, <5>1
      <4>2. CASE f # d
        BY <1>1, <1>4, <2>1, <4>2 DEF LInv, BestOK
      <4> QED
        BY <4>1, <4>2
    <3> QED
      BY <2>1, <3>1 DEF LInv, BestOK
  <2> QED
    BY <1>3, <2>1, <2>2, UnmovedKeeps
<1>10. CASE old = None \/ Better(p, old)
  <2>1. PICK freed : freed = IF old = None THEN loop ELSE BestUnbound(loop, d, old, ipopo.valid)
    OBVIOUS
  <2>2. /\ ipopo' = [ipopo EXCEPT !.best[d] = p, !.valid = @ \/ d = "llm"]
        /\ Settle(BestBound(freed, d, p, ipopo.valid))
    BY <1>1, <1>2, <1>10, <2>1 DEF ArriveInBest
  <2>3. /\ Shape(freed) /\ freed.lists = loop.lists /\ freed.excluded = None
        /\ freed.remembered = loop.remembered
        /\ d # "llm" => freed.llm = loop.llm
        /\ \A o \in Options \ {d} : freed.options[o] = loop.options[o]
        /\ freed.rejected \subseteq loop.rejected
        /\ \A c, q : c # d /\ <<c, q>> \in loop.rejected => <<c, q>> \in freed.rejected
        /\ freed.graph \in {loop.graph, NoGraph}
    <3>1. CASE old = None
      BY <1>5, <2>1, <3>1
    <3>2. CASE old # None
      <4>1. PICK v : v = ipopo.valid
        OBVIOUS
      <4>2. old \in Providers /\ v \in BOOLEAN
        BY <1>2, <1>5, <3>2, <4>1 DEF IpopoOK, Optional
      <4>3. /\ Shape(freed) /\ freed.lists = loop.lists /\ freed.excluded = loop.excluded
            /\ freed.llm = (IF d = "llm" THEN None ELSE loop.llm)
            /\ freed.options = (IF d = "llm" THEN loop.options ELSE [loop.options EXCEPT ![d] = None])
            /\ freed.rejected = (IF d = "llm" /\ ~v THEN loop.rejected
                                 ELSE loop.rejected \ {<<d, old>>})
            /\ freed.remembered = loop.remembered /\ freed.graph = NoGraph
        <5>1. PICK l : l = loop
          OBVIOUS
        <5>2. PICK q : q = old
          OBVIOUS
        <5>3. Shape(l) /\ q \in Providers /\ v \in BOOLEAN /\ freed = BestUnbound(l, d, q, v)
          BY <1>5, <2>1, <3>2, <4>1, <4>2, <5>1, <5>2
        <5>4. /\ Shape(freed) /\ freed.lists = l.lists /\ freed.excluded = l.excluded
              /\ freed.llm = (IF d = "llm" THEN None ELSE l.llm)
              /\ freed.options = (IF d = "llm" THEN l.options ELSE [l.options EXCEPT ![d] = None])
              /\ freed.rejected = (IF d = "llm" /\ ~v THEN l.rejected ELSE l.rejected \ {<<d, q>>})
              /\ freed.remembered = l.remembered /\ freed.graph = NoGraph
          BY <5>3, BestUnboundEffect, Z3
        <5> QED
          BY <5>1, <5>2, <5>4
      <4> QED
        BY <1>5, <4>3 DEF Shape
    <3> QED
      BY <3>1, <3>2
  <2>4. BestOf(services, d, {q \in Range(services) : d \in Dependencies(q)}, p)
    BY <1>4, <1>8, <1>10
  <2>5. ~ipopo.valid /\ d = "llm" => Installed("llm") = {p}
    <3> SUFFICES ASSUME ~ipopo.valid, d = "llm" PROVE Installed("llm") = {p}
      OBVIOUS
    <3>1. old = None
      BY <1>2 DEF LInv, BestOK
    <3>2. Heard(d) = {}
      <4>1. None \notin Heard(d)
        BY HeardFacts, LoopAssumption
      <4> QED
        BY <1>7, <3>1, <4>1, HeardFacts DEF BestOf
    <3>3. Installed("llm") = Heard(d)'
      BY <1>4, HeardFacts, DependsOn DEF Installed
    <3> QED
      BY <1>4, <3>2, <3>3
  <2> QED
    BY <1>3, <1>4, <2>2, <2>3, <2>4, <2>5, RebindKeeps
<1> QED
  BY <1>9, <1>10

\* The last service of a best field goes: without llm the component is invalid.
LEMMA VacatedKeeps ==
  ASSUME LInv, NEW d \in BestFields, Delivering("leave", d),
         \A q \in Range(services) : d \notin Dependencies(q),
         NEW valid \in BOOLEAN, valid = (ipopo.valid /\ d # "llm"),
         NEW p, NEW freed, Shape(freed), freed.lists = loop.lists,
         freed.llm = (IF d = "llm" THEN None ELSE loop.llm),
         freed.options = (IF d = "llm" THEN loop.options ELSE [loop.options EXCEPT ![d] = None]),
         freed.rejected = (IF d = "llm" /\ ~valid THEN loop.rejected ELSE loop.rejected \ {<<d, p>>}),
         freed.remembered = loop.remembered, freed.graph = NoGraph,
         ipopo' = [ipopo EXCEPT !.best[d] = None, !.valid = valid],
         Settle(Only(freed))
  PROVE  LInv'
<1>1. PICK r : r = Only(freed)
  OBVIOUS
<1>2. /\ d \notin Aggregates /\ d # "scoped" /\ d # "tools" /\ (d # "llm" => d \in Options)
      /\ "llm" \notin Options
  BY DEF BestFields, Options, Aggregates
<1>3. Types /\ IpopoOK /\ Shape(loop) /\ loop.excluded = None /\ tagged \subseteq Providers
  BY DEF LInv, Types
<1>4. r.after = freed /\ r.inputs = NoGraph
  BY <1>1 DEF Only
<1>5. /\ IpopoOK' /\ ipopo'.valid = valid /\ ipopo'.lists = ipopo.lists
      /\ ipopo'.best[d] = None /\ \A f \in BestFields \ {d} : ipopo'.best[f] = ipopo.best[f]
  BY <1>3 DEF IpopoOK, Optional
<1>6. /\ Types' /\ loop'.llm = freed.llm /\ loop'.lists = loop.lists
      /\ loop'.options = freed.options /\ loop'.rejected = freed.rejected
      /\ loop'.remembered = loop.remembered /\ loop'.graph = NoGraph
      /\ build'["event"] = NoGraph /\ build'["request"] = build["request"]
  BY <1>1, <1>4, <1>5, Settled
<1>7. /\ EventOK' /\ UNCHANGED <<services, tagged>> /\ event'.provider = event.provider
      /\ Heard(d)' = {q \in Range(services) : d \in Dependencies(q)}
      /\ \A c : c # d => Heard(c)' = Heard(c)
      /\ \A o, c : Pending(o, c)' <=> Pending(o, c) /\ c # d
  BY Delivered
<1>8. ListsOK' /\ Installed("llm")' = Installed("llm")
  BY <1>2, <1>5, OthersKept
<1>9. BestOK'
  <2>1. ASSUME NEW f \in BestFields
        PROVE  \/ Pending("leave", f)' /\ ipopo'.best[f] = event'.provider
               \/ BestOf(services', f, Heard(f)' \intersect Range(services'), ipopo'.best[f])
    <3>1. CASE f = d
      BY <1>5, <1>7, <3>1 DEF BestOf
    <3>2. CASE f # d
      BY <1>5, <1>7, <3>2 DEF LInv, BestOK
    <3> QED
      BY <3>1, <3>2
  <2>2. ipopo'.valid <=> ipopo'.best["llm"] # None
    <3>1. CASE d = "llm"
      BY <1>5, <3>1
    <3>2. CASE d # "llm"
      BY <1>5, <3>2 DEF LInv, BestOK, BestFields
    <3> QED
      BY <3>1, <3>2
  <2> QED
    BY <2>1, <2>2 DEF BestOK
<1>10. \A c, q : c # d => (<<c, q>> \in loop'.rejected <=> <<c, q>> \in loop.rejected)
  BY <1>6
<1>11. FieldsOK'
  <2>1. ASSUME NEW c \in Aggregates
        PROVE  \/ loop'.lists[c] = ipopo'.lists[c]
               \/ \E q \in Providers : <<c, q>> \in loop'.rejected
                                       /\ loop'.lists[c] = RemoveFirst(ipopo'.lists[c], q)
    <3>1. c # d
      BY <1>2
    <3>2. \A q : <<c, q>> \in loop.rejected => <<c, q>> \in loop'.rejected
      BY <1>10, <3>1
    <3>3. \/ loop.lists[c] = ipopo.lists[c]
          \/ \E q \in Providers : <<c, q>> \in loop.rejected
                                  /\ loop.lists[c] = RemoveFirst(ipopo.lists[c], q)
      BY DEF LInv, FieldsOK
    <3> QED
      BY <1>5, <1>6, <3>2, <3>3
  <2>2. ASSUME NEW o \in Options
        PROVE  \/ loop'.options[o] = ipopo'.best[o]
               \/ loop'.options[o] = None /\ <<o, ipopo'.best[o]>> \in loop'.rejected
    <3>1. CASE o = d
      BY <1>2, <1>3, <1>5, <1>6, <3>1 DEF Shape
    <3>2. CASE o # d
      <4>1. loop'.options[o] = loop.options[o]
        BY <1>3, <1>6, <3>2 DEF Shape
      <4>2. ipopo'.best[o] = ipopo.best[o]
        BY <1>5, <3>2 DEF BestFields
      <4> QED
        BY <1>10, <3>2, <4>1, <4>2 DEF LInv, FieldsOK
    <3> QED
      BY <3>1, <3>2
  <2> QED
    BY <2>1, <2>2 DEF FieldsOK
<1>12. InvalidOK'
  <2> SUFFICES ASSUME ~valid PROVE InvalidOK'
    BY <1>5 DEF InvalidOK
  <2>1. loop'.llm = None
    BY <1>6 DEF LInv, InvalidOK
  <2>2. build'["request"] # NoGraph => request'.overtaken
    BY <1>6, Delivered DEF LInv, Types, RequestOK
  <2> QED
    BY <1>6, <2>1, <2>2 DEF InvalidOK
<1>13. KnownOK'
  <2>1. \A q \in Range(services)' : RankOf[q] # None /\ q \notin tagged' =>
          event' # None /\ event'.op = "arrive" /\ event'.provider = q
    BY OthersKept
  <2>2. \A q \in Known(loop)' : RankOf[q] # None
    BY <1>6, <1>7 DEF LInv, KnownOK, Known
  <2>3. \A q \in Range(loop'.lists["tools"]) : RankOf[q] # None => q \in Known(loop)'
    BY <1>2, <1>6, <1>7, ToolsKnown DEF Known
  <2> QED
    BY <2>1, <2>2, <2>3 DEF KnownOK
<1>14. LlmOK'
  <2> SUFFICES ASSUME LlmsDiffer, valid, Installed("llm") # {}, ~KeptOut("llm")', ~KeptOut("scoped")',
                      ~Pending("arrive", "scoped")', ~Pending("leave", "scoped")'
               PROVE  Nearest(loop'.llm, Installed("llm"))
    BY <1>5, <1>8 DEF LlmOK
  <2>1. loop'.llm = loop.llm /\ ipopo.valid
    BY <1>6
  <2>2. ~KeptOut("llm") /\ ~KeptOut("scoped")
    BY <1>2, <1>10 DEF KeptOut
  <2>3. ~Pending("arrive", "scoped") /\ ~Pending("leave", "scoped")
    BY <1>2, <1>7
  <2> QED
    BY <2>1, <2>2, <2>3 DEF LInv, LlmOK
<1>15. GraphOK'
  BY <1>6, <1>13, SettledGraph
<1>16. RefusalOK' /\ GraphTypes'
  <2>1. LlmKeptOut'
    <3> SUFFICES ASSUME valid, loop'.llm = None
                 PROVE  <<"llm", ipopo'.best["llm"]>> \in loop'.rejected
      BY <1>5 DEF LlmKeptOut
    <3>1. d # "llm" /\ ipopo.valid /\ loop.llm = None /\ ipopo'.best["llm"] = ipopo.best["llm"]
      BY <1>5, <1>6 DEF BestFields
    <3> QED
      BY <1>10, <3>1 DEF LInv, RefusalOK, LlmKeptOut
  <2> QED
    BY <1>6, <1>13, <2>1, SettledRefusal
<1> QED
  BY <1>6, <1>7, <1>8, <1>9, <1>11, <1>12, <1>13, <1>14, <1>15, <1>16 DEF LInv

\* A service goes from a best field.
LEMMA LeaveBestKeeps ==
  ASSUME LInv, NEW d \in BestFields, LeaveBest(d)
  PROVE  LInv'
<1>1. PICK p : p = event.provider
  OBVIOUS
<1>2. PICK next : next = Replacement(d, services)
  OBVIOUS
<1>3. Delivering("leave", d)
  BY DEF LeaveBest
<1>4. /\ p \in Providers /\ p \notin Range(services)
      /\ Heard(d)' = Heard(d) \ {p} /\ Heard(d)' = {q \in Range(services) : d \in Dependencies(q)}
      /\ \A c : c # d => Heard(c)' = Heard(c)
      /\ UNCHANGED services /\ event'.provider = p
      /\ \A o, c : Pending(o, c)' <=> Pending(o, c) /\ c # d
  BY <1>1, <1>3, Delivered
<1>5. Types /\ IpopoOK /\ Shape(loop) /\ loop.excluded = None
      /\ services \in Seq(Providers) /\ Distinct(services)
  BY DEF LInv, Types, EventOK
<1>6. CASE ipopo.best[d] # p
  <2>1. UNCHANGED <<ipopo, loop, build, stale>>
    BY <1>1, <1>6 DEF LeaveBest
  <2>2. BestOK'
    <3>1. ASSUME NEW f \in BestFields
          PROVE  \/ Pending("leave", f)' /\ ipopo'.best[f] = event'.provider
                 \/ BestOf(services', f, Heard(f)' \intersect Range(services'), ipopo'.best[f])
      <4>1. CASE f = d
        <5>1. Heard(d)' \intersect Range(services') = Heard(d) \intersect Range(services)
          BY <1>4
        <5>2. BestOf(services, d, Heard(d) \intersect Range(services), ipopo.best[d])
          BY <1>1, <1>6 DEF LInv, BestOK
        <5> QED
          BY <1>4, <2>1, <4>1, <5>1, <5>2
      <4>2. CASE f # d
        BY <1>1, <1>4, <2>1, <4>2 DEF LInv, BestOK
      <4> QED
        BY <4>1, <4>2
    <3> QED
      BY <2>1, <3>1 DEF LInv, BestOK
  <2> QED
    BY <1>3, <2>1, <2>2, UnmovedKeeps
<1>7. CASE ipopo.best[d] = p
  <2>1. PICK valid : valid = (ipopo.valid /\ (d # "llm" \/ next # None))
    OBVIOUS
  <2>2. PICK freed : freed = BestUnbound(loop, d, p, valid)
    OBVIOUS
  <2>3. /\ ipopo' = [ipopo EXCEPT !.best[d] = next, !.valid = valid]
        /\ Settle(IF next = None THEN Only(freed) ELSE BestBound(freed, d, next, valid))
    BY <1>1, <1>2, <1>7, <2>1, <2>2 DEF LeaveBest
  <2>4. valid \in BOOLEAN /\ ipopo.valid \in BOOLEAN
    BY <1>5, <2>1 DEF IpopoOK
  <2>5. /\ Shape(freed) /\ freed.lists = loop.lists /\ freed.excluded = loop.excluded
        /\ freed.llm = (IF d = "llm" THEN None ELSE loop.llm)
        /\ freed.options = (IF d = "llm" THEN loop.options ELSE [loop.options EXCEPT ![d] = None])
        /\ freed.rejected = (IF d = "llm" /\ ~valid THEN loop.rejected
                             ELSE loop.rejected \ {<<d, p>>})
        /\ freed.remembered = loop.remembered /\ freed.graph = NoGraph
    <3>1. PICK l : l = loop
      OBVIOUS
    <3>2. PICK q : q = p
      OBVIOUS
    <3>3. Shape(l) /\ q \in Providers /\ freed = BestUnbound(l, d, q, valid)
      BY <1>4, <1>5, <2>2, <3>1, <3>2
    <3>4. /\ Shape(freed) /\ freed.lists = l.lists /\ freed.excluded = l.excluded
          /\ freed.llm = (IF d = "llm" THEN None ELSE l.llm)
          /\ freed.options = (IF d = "llm" THEN l.options ELSE [l.options EXCEPT ![d] = None])
          /\ freed.rejected = (IF d = "llm" /\ ~valid THEN l.rejected
                               ELSE l.rejected \ {<<d, q>>})
          /\ freed.remembered = l.remembered /\ freed.graph = NoGraph
      BY <2>4, <3>3, BestUnboundEffect
    <3> QED
      BY <3>1, <3>2, <3>4
  <2>6. BestOf(services, d, Range(services), next)
    BY <1>2, <1>5, ReplacementIsBest
  <2>7. CASE next = None
    <3>1. \A q \in Range(services) : d \notin Dependencies(q)
      BY <2>6, <2>7, HeardFacts, LoopAssumption DEF BestOf
    <3>2. valid = (ipopo.valid /\ d # "llm")
      BY <2>1, <2>7
    <3> QED
      BY <1>3, <2>3, <2>4, <2>5, <2>7, <3>1, <3>2, VacatedKeeps
  <2>8. CASE next # None
    <3>1. next \in Providers
      BY <2>6, <2>8, HeardFacts DEF BestOf
    <3>2. valid = ipopo.valid /\ (d = "llm" => valid)
      <4>1. d = "llm" => ipopo.valid
        BY <1>4, <1>7, LoopAssumption DEF LInv, BestOK
      <4> QED
        BY <2>1, <2>4, <2>8, <4>1
    <3>3. BestOf(services, d, {q \in Range(services) : d \in Dependencies(q)}, next)
      BY <2>6 DEF BestOf
    <3>4. /\ \A o \in Options \ {d} : freed.options[o] = loop.options[o]
          /\ freed.rejected \subseteq loop.rejected
          /\ \A c, q : c # d /\ <<c, q>> \in loop.rejected => <<c, q>> \in freed.rejected
          /\ d # "llm" => freed.llm = loop.llm
      BY <1>5, <2>5 DEF Shape
    <3>5. ipopo' = [ipopo EXCEPT !.best[d] = next, !.valid = @ \/ d = "llm"]
      <4>1. valid = (ipopo.valid \/ d = "llm")
        BY <2>4, <3>2
      <4> QED
        BY <2>3, <4>1
    <3>6. Settle(BestBound(freed, d, next, ipopo.valid))
      BY <2>3, <2>8, <3>2
    <3> QED
      BY <1>3, <1>5, <2>5, <3>1, <3>2, <3>3, <3>4, <3>5, <3>6, RebindKeeps
  <2> QED
    BY <2>7, <2>8
<1> QED
  BY <1>6, <1>7

(***************************************************************************)
(* The invariant holds.                                                    *)
(***************************************************************************)

\* At first nothing is registered, and the component is invalid.
LEMMA InitHolds == Init => LInv
<1> SUFFICES ASSUME Init PROVE LInv
  OBVIOUS
<1>1. /\ services = <<>> /\ tagged = {} /\ event = None /\ stale = FALSE
      /\ ipopo = [valid |-> FALSE, best |-> [f \in {"llm"} \union Options |-> None],
                  lists |-> [f \in Aggregates |-> <<>>]]
      /\ loop = [llm |-> None, lists |-> [f \in Aggregates |-> <<>>], options |-> NoOption,
                 excluded |-> None, rejected |-> {}, remembered |-> {}, graph |-> NoGraph]
      /\ build = [t \in Threads |-> NoGraph]
      /\ request = Idle
  BY DEF Init
<1>2. /\ services \in Seq(Providers) /\ Distinct(services) /\ Range(services) = {}
      /\ \A d \in Aggregates : loop.lists[d] = <<>> /\ ipopo.lists[d] = <<>>
      /\ \A f \in BestFields : ipopo.best[f] = None
      /\ \A o \in Options : loop.options[o] = None
  BY <1>1 DEF Distinct, Range, NoOption, BestFields
<1>3. \A d : Heard(d) = {} /\ ~Pending("leave", d)
  BY <1>1, <1>2 DEF Heard, Pending
<1>4. Types
  BY <1>1, <1>2 DEF Types, IpopoOK, Shape, RequestOK, NoOption, Optional, Idle, Threads, BestFields
<1>5. EventOK
  BY <1>1, <1>2 DEF EventOK, Threads
<1>6. ListsOK
  BY <1>2, <1>3 DEF ListsOK, ListOf, Distinct, Range
<1>7. BestOK
  BY <1>1, <1>2, <1>3 DEF BestOK, BestOf, BestFields
<1>8. FieldsOK
  BY <1>2 DEF FieldsOK, BestFields
<1>9. InvalidOK
  BY <1>1 DEF InvalidOK, Threads
<1>10. KnownOK
  BY <1>1, <1>2 DEF KnownOK, Known
<1>11. LlmOK
  BY <1>1 DEF LlmOK
<1>12. GraphOK
  BY <1>1 DEF GraphOK, Threads
<1>13. RefusalOK /\ GraphTypes
  BY <1>1 DEF RefusalOK, LlmKeptOut, PartsOK, CauseOK, Idle, Threads, GraphTypes
<1> QED
  BY <1>4, <1>5, <1>6, <1>7, <1>8, <1>9, <1>10, <1>11, <1>12, <1>13 DEF LInv

\* Every step keeps it.
LEMMA NextKeeps ==
  ASSUME LInv, [Next]_vars
  PROVE  LInv'
<1>1. ASSUME NEW p \in Providers, Register(p) \/ Unregister(p)
      PROVE  LInv'
  BY <1>1, RegisterKeeps, UnregisterKeeps
<1>2. ASSUME NEW d \in Aggregates, ArriveInList(d) \/ LeaveList(d)
      PROVE  LInv'
  BY <1>2, ArriveInListKeeps, LeaveListKeeps
<1>3. ASSUME NEW d \in BestFields, ArriveInBest(d) \/ LeaveBest(d)
      PROVE  LInv'
  BY <1>3, ArriveInBestKeeps, LeaveBestKeeps
<1>4. CASE EventStores \/ EndEvent
  BY <1>4, EventStoresKeeps, EndEventKeeps
<1>5. CASE RequestBuilds \/ RequestStores
  BY <1>5, RequestBuildsKeeps, RequestStoresKeeps
<1>6. CASE Ask \/ Refuse \/ Proceed \/ Use
  BY <1>6, RequestKeeps
<1>7. CASE UNCHANGED vars
  <2>1. UNCHANGED <<services, tagged, ipopo, loop, event, build, request, stale>>
    BY <1>7 DEF vars
  <2>2. RefusalOK'
    BY <2>1 DEF LInv, RefusalOK, LlmKeptOut, PartsOK, CauseOK
  <2> QED
    BY <2>1, <2>2, RequestMoves DEF LInv, Types, RequestOK
<1> QED
  BY <1>1, <1>2, <1>3, <1>4, <1>5, <1>6, <1>7 DEF Next, EventStep, RequestStep, Aggregates, BestFields

\* Everything the invariant says holds in every state: iPOPO's fields, the
\* loop's, and the graphs compiled from them.
THEOREM Invariance == Spec => []LInv
<1>1. LInv /\ [Next]_vars => LInv'
  BY NextKeeps
<1> QED
  BY InitHolds, <1>1, PTL DEF Spec

\* Every variable has its type; a graph has an llm, and tools and options that
\* are services.
THEOREM TypeCorrect == Spec => []TypeOK
<1>1. LInv => TypeOK
  <2> SUFFICES ASSUME LInv PROVE TypeOK
    OBVIOUS
  <2>1. build \in [Threads -> Graphs \union {NoGraph}]
    <3>1. build = [t \in Threads |-> build[t]]
      BY DEF LInv, Types
    <3> QED
      BY <3>1 DEF LInv, GraphTypes
  <2>2. event = None \/ (event \in Events /\ event.todo \subseteq Dependencies(event.provider))
    BY DEF LInv, EventOK
  <2>3. loop.graph \in Graphs \union {NoGraph}
    BY DEF LInv, GraphTypes
  <2>4. services \in Seq(Providers) /\ tagged \subseteq Providers /\ stale \in BOOLEAN
    BY DEF LInv, Types
  <2>5. /\ ipopo.valid \in BOOLEAN
        /\ ipopo.best \in [{"llm"} \union Options -> Providers \union {None}]
        /\ ipopo.lists \in [Aggregates -> Seq(Providers)]
    BY DEF LInv, Types, IpopoOK, Optional, BestFields
  <2>6. /\ loop.llm \in Providers \union {None} /\ loop.lists \in [Aggregates -> Seq(Providers)]
        /\ loop.options \in [Options -> Providers \union {None}]
        /\ loop.remembered \subseteq Providers /\ loop.excluded = None
    BY DEF LInv, Types, Shape, Optional
  <2>7. loop.rejected \subseteq ({"llm"} \union Aggregates \union Options) \X Providers
    BY DEF LInv, Types, Shape, Fields, BestFields
  <2>8. request.pc \in {"idle", "build", "built", "use"} /\ request.overtaken \in BOOLEAN
    BY DEF LInv, Types, RequestOK
  <2> QED
    BY <2>1, <2>2, <2>3, <2>4, <2>5, <2>6, <2>7, <2>8 DEF TypeOK
<1> QED
  BY Invariance, <1>1, PTL

\* At rest, no guard keeping a service out, iPOPO's list of tools is the
\* registry's, and the loop's fields are iPOPO's.
LEMMA FieldsAtRest ==
  ASSUME LInv, AtRest
  PROVE  /\ \A d : ~Pending("arrive", d) /\ ~Pending("leave", d)
         /\ \A d : ~KeptOut(d)
         /\ InOrder(loop.lists["tools"], "tools")
         /\ \A o \in Options : loop.options[o] = Replacement(o, services)
         /\ ipopo.valid => Installed("llm") # {}
<1>1. \A d : /\ ~Pending("arrive", d) /\ ~Pending("leave", d)
             /\ Heard(d) = {p \in Range(services) : d \in Dependencies(p)}
  BY HeardFacts DEF AtRest, Pending
<1>2. \A d : ~KeptOut(d)
  BY DEF AtRest, KeptOut
<1>3. services \in Seq(Providers) /\ Distinct(services) /\ Range(services) \subseteq Providers
  BY HeardFacts DEF LInv, Types, EventOK
<1>4. InOrder(loop.lists["tools"], "tools")
  <2>1. ListOf(ipopo.lists["tools"], Heard("tools"), services)
    BY DEF LInv, ListsOK, Aggregates
  <2>2. loop.lists["tools"] = ipopo.lists["tools"]
    BY <1>2, ListFacts DEF Aggregates
  <2>3. Heard("tools") = Installed("tools") /\ Heard("tools") \subseteq Range(services)
    BY <1>1, <1>3, DependsOn DEF Installed
  <2>4. \A i \in DOMAIN ipopo.lists["tools"] : ipopo.lists["tools"][i] \in Range(services)
    BY <2>1, <2>3 DEF ListOf, Range
  <2> QED
    BY <2>1, <2>2, <2>3, <2>4 DEF ListOf, InOrder
<1>5. \A f \in BestFields : BestOf(services, f, Range(services), ipopo.best[f])
  <2> TAKE f \in BestFields
  <2>1. BestOf(services, f, Heard(f) \intersect Range(services), ipopo.best[f])
    BY <1>1 DEF LInv, BestOK
  <2> QED
    BY <1>1, <2>1, BestAmong
<1>6. \A f \in BestFields : ipopo.best[f] = Replacement(f, services)
  BY <1>3, <1>5, ReplacementIsBest, BestUnique
<1>7. \A o \in Options : loop.options[o] = Replacement(o, services)
  BY <1>6 DEF LInv, FieldsOK, AtRest, BestFields
<1>8. ipopo.valid => Installed("llm") # {}
  <2> SUFFICES ASSUME ipopo.valid PROVE Installed("llm") # {}
    OBVIOUS
  <2>1. ipopo.best["llm"] # None
    BY DEF LInv, BestOK
  <2>2. ipopo.best["llm"] \in Range(services) /\ "llm" \in Dependencies(ipopo.best["llm"])
    BY <1>5, <2>1 DEF BestOf, BestFields
  <2> QED
    BY <1>3, <2>2, DependsOn DEF Installed
<1> QED
  BY <1>1, <1>2, <1>4, <1>7, <1>8

\* The llm at rest is the nearest.
LEMMA NearestAtRest ==
  ASSUME LlmsDiffer, LInv, AtRest, ipopo.valid
  PROVE  loop.llm = NearestLlm
<1>1. Nearest(loop.llm, Installed("llm"))
  BY FieldsAtRest DEF LInv, LlmOK
<1>2. Installed("llm") \subseteq Providers
  BY HeardFacts DEF Installed
<1> QED
  BY <1>1, <1>2, NearestIsNearestLlm

\* At rest the loop has the llm of the nearest scope: whatever the order in
\* which llms came and went and iPOPO delivered each event to the two fields,
\* the loop's own choice and iPOPO's agree in the end
\* (agent_loop.py:291-298, 309-337).
THEOREM AlwaysTheNearestLlm ==
  ASSUME LlmsDiffer
  PROVE  Spec => []LlmIsNearest
<1>1. LInv => LlmIsNearest
  BY NearestAtRest DEF LlmIsNearest
<1> QED
  BY Invariance, <1>1, PTL

\* A graph that can be used is that of the plugins installed now, unless a
\* request stored it that an event had overtaken: the event thread and the
\* requests leave no other stale graph behind (agent_loop.py:568-577).
THEOREM GraphIsCurrent ==
  ASSUME LlmsDiffer
  PROVE  Spec => []GraphServesWhatIsInstalled
<1>1. ASSUME LInv, AtRest, ~stale, loop.graph # NoGraph
      PROVE  /\ InOrder(loop.lists["tools"], "tools")
             /\ loop.graph =
                  [model |-> NearestLlm,
                   tools |-> ResolveInjected(Chain, loop.lists["tools"],
                                             [p \in {q \in Providers : RankOf[q] # None} |-> RankOf[p]]),
                   options |-> [o \in Options |-> Replacement(o, services)]]
  <2>1. ipopo.valid
    BY <1>1 DEF LInv, InvalidOK
  <2>2. loop.llm = NearestLlm
    BY <1>1, <2>1, NearestAtRest
  <2>3. build["event"] = NoGraph
    BY <1>1 DEF LInv, EventOK, AtRest
  <2>4. loop.graph = Current(loop)
    BY <1>1, <2>3 DEF LInv, GraphOK, AtRest
  <2>5. loop.options = [o \in Options |-> loop.options[o]]
    BY <1>1 DEF LInv, Types, Shape
  <2>6. loop.options = [o \in Options |-> Replacement(o, services)]
    BY <1>1, <2>5, FieldsAtRest
  <2> QED
    BY <1>1, <2>2, <2>4, <2>6, FieldsAtRest DEF Current, Ranks
<1>2. LInv => GraphServesWhatIsInstalled
  BY <1>1 DEF GraphServesWhatIsInstalled
<1> QED
  BY Invariance, <1>2, PTL

\* No request is refused, or left without a graph, but for a cause: an event
\* overtook it, there is no llm because none is installed or a guard keeps it
\* out, or a plugin the loop is bound to raises. What an unbind, a failure or the
\* missing asyncio loop of the event thread drops, the next request builds
\* (agent_loop.py:568-577, 628-631).
THEOREM RefusedForCauseOnly == Spec => RefusedOnlyForCause
<1> DEFINE Cause ==
             \/ request.overtaken
             \/ loop.llm = None /\ (~ipopo.valid \/ <<"llm", ipopo.best["llm"]>> \in loop.rejected)
             \/ Broken \intersect Bound(loop) # {}
           Ends == request.pc # "idle" /\ request'.pc = "idle"
<1>1. ASSUME LInv, Ends, loop.graph = NoGraph, Refuse \/ Use
      PROVE  Cause
  <2>1. request.pc = "use" \/ (request.pc = "built" /\ build["request"] = NoGraph)
    BY <1>1 DEF Refuse, Use
  <2>2. request.overtaken \/ loop.llm = None \/ Broken \intersect Bound(loop) # {}
    BY <1>1, <2>1 DEF LInv, RefusalOK, CauseOK
  <2> QED
    BY <1>1, <2>2 DEF LInv, RefusalOK, LlmKeptOut
<1>2. ASSUME LInv, NEW op \in {"arrive", "leave"}, NEW d, Delivering(op, d)
      PROVE  ~Ends
  BY <1>2, Delivered
<1>3. ASSUME LInv, RequestBuilds \/ Ask \/ Proceed
      PROVE  ~Ends
  BY <1>3 DEF RequestBuilds, Ask, Proceed, LInv, Types, RequestOK
<1>4. ASSUME \/ \E p \in Providers : Register(p) \/ Unregister(p)
             \/ EventStores \/ EndEvent \/ RequestStores \/ UNCHANGED vars
      PROVE  ~Ends
  BY <1>4 DEF Register, Unregister, EventStores, EndEvent, RequestStores, vars
<1>5. ASSUME LInv, [Next]_vars
      PROVE  [(Ends /\ loop.graph = NoGraph) => Cause]_vars
  <2> HIDE DEF Cause, Ends
  <2>1. ASSUME NEW d, ArriveInList(d) \/ ArriveInBest(d)
        PROVE  ~Ends
    BY <1>2, <1>5, <2>1 DEF ArriveInList, ArriveInBest
  <2>2. ASSUME NEW d, LeaveList(d) \/ LeaveBest(d)
        PROVE  ~Ends
    BY <1>2, <1>5, <2>2 DEF LeaveList, LeaveBest
  <2> QED
    BY <1>1, <1>3, <1>4, <1>5, <2>1, <2>2 DEF Next, EventStep, RequestStep
<1> QED
  BY Invariance, <1>5, PTL DEF Spec, RefusedOnlyForCause
==============================================================================
