-------------------------- MODULE ConversationProofs --------------------------
(***************************************************************************)
(* The screen keeps the promise of Transcript, outputs stand under their   *)
(* calls and all the model's text arrives, for any words, any number of    *)
(* calls and a frame of any height.                                        *)
(*                                                                         *)
(* First facts about sequences, by induction over their length; then the   *)
(* renderer, which moves lines from the frame to the screen and loses none *)
(* of them; then what may stand on the wire; then the steps.               *)
(***************************************************************************)
EXTENDS Conversation, FiniteSetTheorems, WellFoundedInduction, TLAPS

-----------------------------------------------------------------------------
(* The invariant *)

Open == cli \in {"outer", "inner", "asking"}
Ended == <<Event("usage", None), Event("end", None)>>

Pieces == {Word(w) : w \in Words} \union {Call(c) : c \in Calls} \union {Output(c) : c \in Calls}
Deltas == UNION {[1 .. n -> Words] : n \in 1 .. 2}
Events == {Event("assistant", d) : d \in Deltas}
          \union {Event(type, c) : type \in {"tool_call", "tool_output", "approval_required"}, c \in Calls}
          \union {Event(type, None) : type \in {"usage", "end", "error", "broken"}}

Segments == [call : Calls \union {None}, words : Seq(Words)]
Screens == [segments : Seq(Segments), runs : [Calls -> {None, "running", "done"}],
            live : BOOLEAN, drawn : BOOLEAN, frame : Seq(Pieces), scrolled : Seq(Pieces)]

Types ==
  /\ mode \in {"cumulative", "delta"} /\ terminal \in BOOLEAN
  /\ graph \in [pc : {"idle", "model", "tool", "interrupted", "decided"}, text : Seq(Words), call : Nat]
  /\ previous \in Seq(Words)
  /\ wire \in [{"outer", "inner"} -> Seq(Events)]
  /\ cli \in {"prompt", "outer", "inner", "asking", "gone"}
  /\ screen \in Screens
  /\ received \in Seq(Pieces) /\ spoken \in Seq(Words) /\ ambiguous \in BOOLEAN
  /\ late \subseteq Calls

\* Nothing follows an end; nothing but the end follows an error, and nothing but
\* the usage and the end an approval. The connection nobody reads has said all.
WireOK ==
  /\ \A k \in {"outer", "inner"} : \A i \in 1 .. Len(wire[k]) :
       wire[k][i].type \in {"end", "broken"} =>
         i = Len(wire[k]) /\ (k = Connection => graph.pc \in {"idle", "interrupted"})
  /\ \A i \in 1 .. Len(wire["outer"]) :
       /\ wire["outer"][i].type = "error" =>
            i + 1 = Len(wire["outer"]) /\ wire["outer"][i + 1] = Event("end", None)
       /\ wire["outer"][i].type = "approval_required" =>
            /\ i + 2 = Len(wire["outer"]) /\ graph.pc = "interrupted"
            /\ wire["outer"][i + 1] = Ended[1] /\ wire["outer"][i + 2] = Ended[2]
       /\ wire["outer"][i].type # "broken"
  /\ \A i \in 1 .. Len(wire["inner"]) : wire["inner"][i].type # "error"
  /\ cli \in {"asking", "inner"} => wire["outer"] = Ended
  /\ cli # "inner" => wire["inner"] = <<>>
  /\ cli \in {"prompt", "gone"} => wire["outer"] = <<>>
  /\ cli = "asking" => graph.pc = "interrupted"

\* All the renderer has: what has scrolled, and its segments as they look
Whole(s) == s.scrolled \o Frame(s, s.segments)
Holds(s, c) == \E i \in 1 .. Len(s.segments) : s.segments[i].call = c

\* An error has come: only the end is still to be read.
Over == cli = "outer" /\ wire["outer"] = <<Event("end", None)>>

ScreenOK ==
  /\ ~terminal => ~screen.live
  /\ ~Open => ~screen.live
  /\ ~screen.live => screen.frame = <<>> /\ Plain(screen.scrolled) = received
  /\ screen.live => Plain(Whole(screen)) = received
  /\ terminal /\ Open /\ ~screen.live => screen = Blank \/ Over

\* A run is in the frame once, and its output only there as long as it is.
Tidy(s) ==
  /\ \A i \in 1 .. Len(s.segments) : s.segments[i].call # None => s.segments[i].words = <<>>
  /\ \A i, j \in 1 .. Len(s.segments) :
       s.segments[i].call = s.segments[j].call /\ s.segments[i].call # None => i = j
  /\ \A c \in Calls :
       /\ s.runs[c] = None => ~Holds(s, c)
       /\ s.runs[c] # "done" \/ Holds(s, c) =>
            \A i \in 1 .. Len(s.scrolled) : s.scrolled[i] # Output(c)

\* An output is there: it is in the frame, or it has scrolled with its call.
Kept(s, c) == s.runs[c] = "done" => Holds(s, c) \/ UnderItsCall(s.scrolled, c)

OutputsOK ==
  /\ terminal /\ (screen.live \/ screen = Blank) =>
       Tidy(screen) /\ \A c \in Calls \ late : Kept(screen, c)
  /\ ~screen.live =>
       \A c \in Calls \ late : screen.runs[c] = "done" => UnderItsCall(screen.scrolled, c)
  /\ ~terminal => \A c \in Calls :
       /\ screen.runs[c] # None => screen.scrolled # <<>>
       /\ screen.runs[c] # "done" =>
            \A i \in 1 .. Len(screen.scrolled) : screen.scrolled[i] # Output(c)

\* Each call comes once, and so does its output, after it.
Says(i, type, c) == wire[Connection][i] = Event(type, c)
CallsOK ==
  /\ \A c \in Calls : screen.runs[c] # None => c <= graph.call
  /\ \A c \in Calls, i \in 1 .. Len(wire[Connection]) :
       /\ Says(i, "tool_call", c) =>
            /\ screen.runs[c] = None /\ c <= graph.call
            /\ \A j \in 1 .. Len(wire[Connection]) : Says(j, "tool_call", c) => j = i
       /\ Says(i, "tool_output", c) =>
            /\ screen.runs[c] = "running" \/ \E j \in 1 .. i - 1 : Says(j, "tool_call", c)
            /\ c <= graph.call /\ (graph.pc \in {"tool", "interrupted", "decided"} => c # graph.call)
            /\ \A j \in 1 .. Len(wire[Connection]) : Says(j, "tool_output", c) => j = i
  /\ Open /\ graph.pc \in {"tool", "interrupted", "decided"} =>
       /\ graph.call \in Calls
       /\ \/ screen.runs[graph.call] = "running"
          \/ \E j \in 1 .. Len(wire[Connection]) : Says(j, "tool_call", graph.call)

TextOK ==
  /\ mode = "cumulative" => previous = graph.text
  /\ TextArrives

CInv == Types /\ WireOK /\ ScreenOK /\ OutputsOK /\ CallsOK /\ TextOK

-----------------------------------------------------------------------------
(* Induction over the natural numbers, without a predicate as a parameter *)

\* Sets of natural numbers have a minimum.
LEMMA Least ==
  ASSUME NEW Sizes \in SUBSET Nat, Sizes # {}
  PROVE  \E m \in Sizes : \A k \in Sizes : m <= k
<1> DEFINE Below == {0 .. m - 1 : m \in Sizes}
<1>1. IsWellFoundedOn(StrictSubsetOrdering(Nat), FiniteSubsetsOf(Nat))
  BY FS_StrictSubsetOrderingWellFounded
<1>2. \A m \in Nat : 0 .. m - 1 \in FiniteSubsetsOf(Nat)
  BY FS_Interval DEF FiniteSubsetsOf
<1>3. Below \subseteq FiniteSubsetsOf(Nat) /\ Below # {}
  BY <1>2
<1> HIDE DEF Below
<1>4. \E x \in Below : \A y \in Below : <<y, x>> \notin StrictSubsetOrdering(Nat)
  BY <1>1, <1>3, WFMin
<1> USE DEF Below
<1>5. PICK m \in Sizes : \A k \in Sizes : <<0 .. k - 1, 0 .. m - 1>> \notin StrictSubsetOrdering(Nat)
  BY <1>4
<1>6. ASSUME NEW k \in Sizes, k < m
      PROVE  FALSE
  <2>1. 0 .. k - 1 \subseteq 0 .. m - 1 /\ 0 .. k - 1 # 0 .. m - 1
    BY <1>6
  <2>2. <<0 .. k - 1, 0 .. m - 1>> \in StrictSubsetOrdering(Nat)
    BY <2>1 DEF StrictSubsetOrdering
  <2> QED
    BY <1>5, <2>2
<1> QED
  BY <1>6

\* A set with zero that is closed under successor is Nat.
LEMMA Induction ==
  ASSUME NEW Sizes \in SUBSET Nat, 0 \in Sizes, \A n \in Sizes : n + 1 \in Sizes
  PROVE  Sizes = Nat
<1> SUFFICES ASSUME Nat \ Sizes # {}
             PROVE  FALSE
  OBVIOUS
<1>1. PICK m \in Nat \ Sizes : \A k \in Nat \ Sizes : m <= k
  BY Least
<1>2. m - 1 \in Sizes
  BY <1>1
<1> QED
  BY <1>1, <1>2

-----------------------------------------------------------------------------
(* Flattening *)

\* The recursive function in FlattenSeq exists.
LEMMA FlattenExists ==
  ASSUME NEW seqs, NEW n \in Nat
  PROVE  \E g : g = [i \in 1 .. n |-> IF i = 1 THEN seqs[i] ELSE g[i - 1] \o seqs[i]]
<1> DEFINE Add(i, before) == IF i = 1 THEN seqs[i] ELSE before \o seqs[i]
           Sizes == {k \in Nat : \E g : g = [i \in 1 .. k |-> Add(i, g[i - 1])]}
<1> HIDE DEF Add
<1>1. 0 \in Sizes
  <2>1. [i \in 1 .. 0 |-> 0] = [i \in 1 .. 0 |-> Add(i, [j \in 1 .. 0 |-> 0][i - 1])]
    OBVIOUS
  <2> QED
    BY <2>1
<1>2. ASSUME NEW k \in Sizes
      PROVE  k + 1 \in Sizes
  <2>1. k \in Nat
    OBVIOUS
  <2>2. PICK g : g = [i \in 1 .. k |-> Add(i, g[i - 1])]
    OBVIOUS
  <2> DEFINE h == [i \in 1 .. k + 1 |-> Add(i, g[i - 1])]
  <2>3. \A i \in 1 .. k : h[i] = g[i]
    BY <2>1, <2>2
  <2>4. \A i \in 1 .. k + 1 : Add(i, h[i - 1]) = Add(i, g[i - 1])
    <3>1. TAKE i \in 1 .. k + 1
    <3>2. CASE i = 1
      BY <3>2 DEF Add
    <3>3. CASE i # 1
      <4>1. i - 1 \in 1 .. k
        BY <2>1, <3>3
      <4> QED
        BY <2>3, <4>1
    <3> QED
      BY <3>2, <3>3
  <2>5. h = [i \in 1 .. k + 1 |-> Add(i, h[i - 1])]
    BY <2>4
  <2> HIDE DEF h
  <2>6. \E f : f = [i \in 1 .. k + 1 |-> Add(i, f[i - 1])]
    BY <2>5
  <2> QED
    BY <2>1, <2>6
<1> HIDE DEF Sizes
<1>3. Sizes = Nat
  <2>1. Sizes \in SUBSET Nat
    BY DEF Sizes
  <2> QED
    BY <1>1, <1>2, <2>1, Induction
<1> QED
  BY <1>3 DEF Sizes, Add

\* ... so that FlattenSeq is its last value.
LEMMA FlattenUnfolds ==
  ASSUME NEW seqs, Len(seqs) \in Nat \ {0}
  PROVE  \E g : /\ FlattenSeq(seqs) = g[Len(seqs)]
                /\ g = [i \in 1 .. Len(seqs) |-> IF i = 1 THEN seqs[i] ELSE g[i - 1] \o seqs[i]]
<1> DEFINE g == CHOOSE flatten :
                  flatten = [i \in 1 .. Len(seqs) |->
                               IF i = 1 THEN seqs[i] ELSE flatten[i - 1] \o seqs[i]]
<1>1. g = [i \in 1 .. Len(seqs) |-> IF i = 1 THEN seqs[i] ELSE g[i - 1] \o seqs[i]]
  BY FlattenExists
<1>2. FlattenSeq(seqs) = g[Len(seqs)]
  BY DEF FlattenSeq
<1> HIDE DEF g
<1> QED
  BY <1>1, <1>2

LEMMA FlattenEmpty == FlattenSeq(<<>>) = <<>>
BY DEF FlattenSeq

\* One sequence more goes to the end.
LEMMA FlattenAppend ==
  ASSUME NEW S, NEW seqs \in Seq(Seq(S)), NEW s \in Seq(S)
  PROVE  /\ FlattenSeq(seqs) \in Seq(S)
         /\ FlattenSeq(Append(seqs, s)) = FlattenSeq(seqs) \o s
<1> DEFINE longer == Append(seqs, s)
           n == Len(seqs)
<1>1. /\ n \in Nat /\ Len(longer) = n + 1 /\ longer[n + 1] = s
      /\ \A i \in 1 .. n : longer[i] = seqs[i] /\ seqs[i] \in Seq(S)
  OBVIOUS
<1> HIDE DEF longer, n
<1>2. PICK h : /\ FlattenSeq(longer) = h[Len(longer)]
               /\ h = [i \in 1 .. Len(longer) |->
                         IF i = 1 THEN longer[i] ELSE h[i - 1] \o longer[i]]
  <2>1. Len(longer) \in Nat \ {0}
    BY <1>1
  <2> QED
    BY <2>1, FlattenUnfolds
<1>3. /\ FlattenSeq(longer) = h[n + 1]
      /\ \A i \in 1 .. n + 1 : h[i] = IF i = 1 THEN longer[i] ELSE h[i - 1] \o longer[i]
  <2>1. \A i \in 1 .. Len(longer) : h[i] = IF i = 1 THEN longer[i] ELSE h[i - 1] \o longer[i]
    BY <1>2
  <2> QED
    BY <1>1, <1>2, <2>1
<1>4. CASE n = 0
  <2>1. seqs = <<>> /\ FlattenSeq(seqs) = <<>>
    BY <1>1, <1>4, FlattenEmpty DEF n
  <2>2. FlattenSeq(longer) = s
    BY <1>1, <1>3, <1>4
  <2>3. <<>> \in Seq(S) /\ <<>> \o s = s
    OBVIOUS
  <2> QED
    BY <2>1, <2>2, <2>3 DEF longer
<1>5. CASE n # 0
  <2>1. PICK g : /\ FlattenSeq(seqs) = g[n]
                 /\ g = [i \in 1 .. n |-> IF i = 1 THEN seqs[i] ELSE g[i - 1] \o seqs[i]]
    BY <1>1, <1>5, FlattenUnfolds DEF n
  <2>2. \A i \in 1 .. n : g[i] = IF i = 1 THEN seqs[i] ELSE g[i - 1] \o seqs[i]
    BY <2>1
  <2> DEFINE Sizes == {i \in Nat : i \in 1 .. n => h[i] = g[i] /\ g[i] \in Seq(S)}
  <2>3. 0 \in Sizes
    OBVIOUS
  <2>4. ASSUME NEW i \in Sizes
        PROVE  i + 1 \in Sizes
    <3> SUFFICES ASSUME i + 1 \in 1 .. n
                 PROVE  h[i + 1] = g[i + 1] /\ g[i + 1] \in Seq(S)
      OBVIOUS
    <3>1. CASE i = 0
      BY <1>1, <1>3, <2>2, <3>1
    <3>2. CASE i # 0
      <4>1. /\ i \in 1 .. n /\ i + 1 \in 1 .. n + 1 /\ i + 1 # 1 /\ (i + 1) - 1 = i
        BY <1>1, <3>2
      <4>2. h[i + 1] = h[i] \o longer[i + 1] /\ g[i + 1] = g[i] \o seqs[i + 1]
        BY <1>3, <2>2, <4>1
      <4>3. h[i] = g[i] /\ g[i] \in Seq(S)
        BY <4>1
      <4>4. longer[i + 1] = seqs[i + 1] /\ seqs[i + 1] \in Seq(S)
        BY <1>1
      <4> HIDE DEF Sizes
      <4> QED
        BY <4>2, <4>3, <4>4
    <3> QED
      BY <3>1, <3>2
  <2>5. Sizes = Nat
    <3>1. Sizes \in SUBSET Nat
      OBVIOUS
    <3> HIDE DEF Sizes
    <3> QED
      BY <2>3, <2>4, <3>1, Induction
  <2>6. h[n] = g[n] /\ g[n] \in Seq(S)
    <3>1. n \in Sizes /\ n \in 1 .. n
      BY <1>1, <1>5, <2>5
    <3> QED
      BY <3>1
  <2>7. h[n + 1] = h[n] \o s
    <3>1. n + 1 \in 1 .. n + 1 /\ n + 1 # 1 /\ (n + 1) - 1 = n
      BY <1>1, <1>5
    <3> QED
      BY <1>1, <1>3, <3>1
  <2> QED
    BY <1>3, <2>1, <2>6, <2>7 DEF longer
<1> QED
  BY <1>4, <1>5

LEMMA FlattenType ==
  ASSUME NEW S, NEW seqs \in Seq(Seq(S))
  PROVE  FlattenSeq(seqs) \in Seq(S)
BY FlattenAppend, <<>> \in Seq(S)

LEMMA FlattenOne ==
  ASSUME NEW S, NEW s \in Seq(S)
  PROVE  FlattenSeq(<<s>>) = s
<1>1. <<>> \in Seq(Seq(S)) /\ <<s>> = Append(<<>>, s)
  OBVIOUS
<1>2. FlattenSeq(<<s>>) = <<>> \o s
  BY <1>1, FlattenAppend, FlattenEmpty
<1> QED
  BY <1>2

\* A sequence that is not empty has a last element.
LEMMA Ends ==
  ASSUME NEW S, NEW n \in Nat, NEW s \in Seq(S), Len(s) = n + 1
  PROVE  /\ SubSeq(s, 1, n) \in Seq(S) /\ Len(SubSeq(s, 1, n)) = n /\ s[n + 1] \in S
         /\ s = Append(SubSeq(s, 1, n), s[n + 1])
OBVIOUS

LEMMA Concat ==
  ASSUME NEW S, NEW a \in Seq(S), NEW b \in Seq(S)
  PROVE  /\ a \o b \in Seq(S) /\ Len(a \o b) = Len(a) + Len(b)
         /\ \A i \in 1 .. Len(a) + Len(b) : (a \o b)[i] = IF i <= Len(a) THEN a[i] ELSE b[i - Len(a)]
         /\ a \o <<>> = a /\ <<>> \o a = a
OBVIOUS

LEMMA Associative ==
  ASSUME NEW S, NEW a \in Seq(S), NEW b \in Seq(S), NEW c \in Seq(S)
  PROVE  (a \o b) \o c = a \o (b \o c)
OBVIOUS

LEMMA Regroup ==
  ASSUME NEW S
  PROVE  \A a, b, c \in Seq(S) : (a \o b) \o c = a \o (b \o c)
BY Associative

LEMMA FlattenConcat ==
  ASSUME NEW S, NEW a \in Seq(Seq(S)), NEW b \in Seq(Seq(S))
  PROVE  FlattenSeq(a \o b) = FlattenSeq(a) \o FlattenSeq(b)
<1> DEFINE Sizes == {n \in Nat : \A t \in Seq(Seq(S)) :
                   Len(t) = n => FlattenSeq(a \o t) = FlattenSeq(a) \o FlattenSeq(t)}
<1>1. 0 \in Sizes
  <2>1. ASSUME NEW t \in Seq(Seq(S)), Len(t) = 0
        PROVE  FlattenSeq(a \o t) = FlattenSeq(a) \o FlattenSeq(t)
    <3>1. t = <<>> /\ a \o t = a
      BY <2>1
    <3>2. FlattenSeq(a) \in Seq(S)
      BY FlattenType
    <3> QED
      BY <3>1, <3>2, FlattenEmpty
  <2> QED
    BY <2>1
<1>2. ASSUME NEW n \in Sizes
      PROVE  n + 1 \in Sizes
  <2>1. ASSUME NEW t \in Seq(Seq(S)), Len(t) = n + 1
        PROVE  FlattenSeq(a \o t) = FlattenSeq(a) \o FlattenSeq(t)
    <3>1. PICK u \in Seq(Seq(S)), e \in Seq(S) : Len(u) = n /\ t = Append(u, e)
      <4> HIDE DEF Sizes
      <4>1. n \in Nat
        BY DEF Sizes
      <4>2. /\ SubSeq(t, 1, n) \in Seq(Seq(S)) /\ Len(SubSeq(t, 1, n)) = n
            /\ t[n + 1] \in Seq(S) /\ t = Append(SubSeq(t, 1, n), t[n + 1])
        BY <2>1, <4>1, Ends
      <4> QED
        BY <4>2
    <3>2. /\ a \o u \in Seq(Seq(S)) /\ a \o t = Append(a \o u, e)
      BY <3>1
    <3>3. FlattenSeq(a \o u) = FlattenSeq(a) \o FlattenSeq(u)
      BY <3>1
    <3> HIDE DEF Sizes
    <3>4. FlattenSeq(a) \in Seq(S)
      BY FlattenType
    <3>5. FlattenSeq(t) = FlattenSeq(u) \o e /\ FlattenSeq(u) \in Seq(S)
      BY <3>1, FlattenAppend
    <3>6. FlattenSeq(a \o t) = FlattenSeq(a \o u) \o e
      BY <3>2, FlattenAppend
    <3>7. (FlattenSeq(a) \o FlattenSeq(u)) \o e = FlattenSeq(a) \o (FlattenSeq(u) \o e)
      <4>1. FlattenSeq(a) \in Seq(S) /\ FlattenSeq(u) \in Seq(S) /\ e \in Seq(S)
        BY <3>1, <3>4, <3>5
      <4>2. \A p, q, r \in Seq(S) : (p \o q) \o r = p \o (q \o r)
        BY SMTT(30)
      <4> QED
        BY <4>1, <4>2, Zenon
    <3> QED
      BY <3>3, <3>5, <3>6, <3>7, Zenon
  <2> QED
    BY <2>1
<1>3. Sizes = Nat
  <2>1. Sizes \in SUBSET Nat
    OBVIOUS
  <2> HIDE DEF Sizes
  <2> QED
    BY <1>1, <1>2, <2>1, Induction
<1> QED
  <2>1. Len(b) \in Sizes
    BY <1>3
  <2> QED
    BY <2>1

\* What is in a flattened sequence is in one of its parts.
LEMMA FlattenMembers ==
  ASSUME NEW S, NEW seqs \in Seq(Seq(S)), NEW e,
         \A i \in 1 .. Len(seqs) : \A j \in 1 .. Len(seqs[i]) : seqs[i][j] # e
  PROVE  \A j \in 1 .. Len(FlattenSeq(seqs)) : FlattenSeq(seqs)[j] # e
<1> DEFINE Lacks(t) == \A j \in 1 .. Len(t) : t[j] # e
           Sizes == {n \in Nat : \A t \in Seq(Seq(S)) :
                   Len(t) = n /\ (\A i \in 1 .. n : Lacks(t[i])) => Lacks(FlattenSeq(t))}
<1>1. 0 \in Sizes
  <2>1. \A t \in Seq(Seq(S)) : Len(t) = 0 => t = <<>>
    OBVIOUS
  <2> QED
    BY <2>1, FlattenEmpty
<1>2. ASSUME NEW n \in Sizes
      PROVE  n + 1 \in Sizes
  <2>1. ASSUME NEW t \in Seq(Seq(S)), Len(t) = n + 1, \A i \in 1 .. n + 1 : Lacks(t[i])
        PROVE  Lacks(FlattenSeq(t))
    <3>1. PICK u \in Seq(Seq(S)), x \in Seq(S) : Len(u) = n /\ t = Append(u, x)
      <4> HIDE DEF Sizes
      <4>1. n \in Nat
        BY DEF Sizes
      <4>2. /\ SubSeq(t, 1, n) \in Seq(Seq(S)) /\ Len(SubSeq(t, 1, n)) = n
            /\ t[n + 1] \in Seq(S) /\ t = Append(SubSeq(t, 1, n), t[n + 1])
        BY <2>1, <4>1, Ends
      <4> QED
        BY <4>2
    <3>2. FlattenSeq(t) = FlattenSeq(u) \o x /\ FlattenSeq(u) \in Seq(S)
      BY <3>1, FlattenAppend
    <3>3. Lacks(x)
      <4>1. n + 1 \in 1 .. n + 1 /\ t[n + 1] = x
        BY <3>1
      <4> QED
        BY <2>1, <4>1
    <3>4. \A i \in 1 .. n : Lacks(u[i])
      <4>1. \A i \in 1 .. n : i \in 1 .. n + 1 /\ t[i] = u[i]
        BY <3>1
      <4> QED
        BY <2>1, <4>1
    <3>5. Lacks(FlattenSeq(u))
      BY <3>1, <3>4
    <3> QED
      BY <3>2, <3>3, <3>5
  <2> HIDE DEF Lacks
  <2> QED
    BY <2>1
<1>3. Sizes = Nat
  <2>1. Sizes \in SUBSET Nat
    OBVIOUS
  <2> HIDE DEF Sizes
  <2> QED
    BY <1>1, <1>2, <2>1, Induction
<1> QED
  <2>1. Len(seqs) \in Sizes
    <3> HIDE DEF Sizes
    <3> QED
      BY <1>3
  <2> QED
    BY <2>1

-----------------------------------------------------------------------------
(* What is shown but outputs; the words of pieces; the text of events *)

LEMMA Concatenated ==
  ASSUME NEW S, NEW s \in Seq(S), NEW t \in Seq(S), NEW u \in Seq(S), Len(u) = Len(s) + Len(t),
         \A i \in 1 .. Len(s) + Len(t) : u[i] = IF i <= Len(s) THEN s[i] ELSE t[i - Len(s)]
  PROVE  u = s \o t
<1>1. /\ s \o t \in Seq(S) /\ Len(s \o t) = Len(s) + Len(t)
      /\ \A i \in 1 .. Len(s) + Len(t) :
           (s \o t)[i] = IF i <= Len(s) THEN s[i] ELSE t[i - Len(s)]
  OBVIOUS
<1>2. \A i \in 1 .. Len(u) : u[i] = (s \o t)[i]
  BY <1>1
<1> QED
  BY <1>1, <1>2

LEMMA DeltaLength ==
  ASSUME NEW d \in Deltas
  PROVE  /\ d \in Seq(Words) /\ Len(d) \in 1 .. 2 /\ DOMAIN d = 1 .. Len(d)
         /\ d[1] \in Words /\ (Len(d) = 2 => d[2] \in Words)
<1>1. PICK n \in 1 .. 2 : d \in [1 .. n -> Words]
  BY DEF Deltas
<1>2. d \in Seq(Words) /\ Len(d) = n
  BY <1>1
<1> QED
  BY <1>1, <1>2

LEMMA PlainConcat ==
  ASSUME NEW a \in Seq(Pieces), NEW b \in Seq(Pieces)
  PROVE  Plain(a \o b) = Plain(a) \o Plain(b) /\ Plain(a) \in Seq(Pieces)
<1> DEFINE Part(p) == IF p.kind = "output" THEN <<>> ELSE <<p>>
           Parts(q) == [i \in DOMAIN q |-> Part(q[i])]
<1>1. \A q \in Seq(Pieces) : Parts(q) \in Seq(Seq(Pieces))
  <2>1. \A p \in Pieces : Part(p) \in Seq(Pieces)
    OBVIOUS
  <2> HIDE DEF Part
  <2> TAKE q \in Seq(Pieces)
  <2>2. Parts(q) = [i \in 1 .. Len(q) |-> Part(q[i])]
    OBVIOUS
  <2>3. \A i \in 1 .. Len(q) : Part(q[i]) \in Seq(Pieces)
    BY <2>1
  <2> QED
    BY <2>2, <2>3
<1>2. Parts(a \o b) = Parts(a) \o Parts(b)
  <2> HIDE DEF Part
  <2>1. /\ DOMAIN Parts(a \o b) = 1 .. Len(a) + Len(b)
        /\ \A i \in 1 .. Len(a) + Len(b) :
             Parts(a \o b)[i] = IF i <= Len(a) THEN Parts(a)[i] ELSE Parts(b)[i - Len(a)]
    OBVIOUS
  <2>2. Parts(a \o b) \in Seq(Seq(Pieces)) /\ Parts(a) \in Seq(Seq(Pieces)) /\ Parts(b) \in Seq(Seq(Pieces))
    BY <1>1, a \o b \in Seq(Pieces)
  <2>3. Len(Parts(a)) = Len(a) /\ Len(Parts(b)) = Len(b)
    BY <2>2
  <2> HIDE DEF Parts
  <2>4. Len(Parts(a \o b)) = Len(a) + Len(b)
    BY <2>1, <2>2
  <2>5. /\ Len(Parts(a \o b)) = Len(Parts(a)) + Len(Parts(b))
        /\ \A i \in 1 .. Len(Parts(a)) + Len(Parts(b)) :
             Parts(a \o b)[i] = IF i <= Len(Parts(a)) THEN Parts(a)[i]
                                ELSE Parts(b)[i - Len(Parts(a))]
    BY <2>1, <2>3, <2>4
  <2> QED
    BY <2>2, <2>5, Concatenated
<1>3. \A q : Plain(q) = FlattenSeq(Parts(q))
  BY DEF Plain
<1> HIDE DEF Parts
<1>4. FlattenSeq(Parts(a) \o Parts(b)) = FlattenSeq(Parts(a)) \o FlattenSeq(Parts(b))
  BY <1>1, FlattenConcat
<1> QED
  BY <1>1, <1>2, <1>3, <1>4, FlattenType

LEMMA PlainOne ==
  ASSUME NEW p \in Pieces
  PROVE  /\ Plain(<<>>) = <<>>
         /\ Plain(<<p>>) = IF p.kind = "output" THEN <<>> ELSE <<p>>
<1> DEFINE part == IF p.kind = "output" THEN <<>> ELSE <<p>>
<1>1. Plain(<<>>) = <<>>
  <2>1. [i \in DOMAIN <<>> |-> IF <<>>[i].kind = "output" THEN <<>> ELSE <<<<>>[i]>>] = <<>>
    OBVIOUS
  <2> QED
    BY <2>1, FlattenEmpty DEF Plain
<1>2. part \in Seq(Pieces)
  OBVIOUS
<1>3. Plain(<<p>>) = FlattenSeq(<<part>>)
  BY DEF Plain
<1> QED
  BY <1>1, <1>2, <1>3, FlattenOne

LEMMA WordsConcat ==
  ASSUME NEW a \in Seq(Pieces), NEW b \in Seq(Pieces)
  PROVE  WordsOf(a \o b) = WordsOf(a) \o WordsOf(b) /\ WordsOf(a) \in Seq(Words)
<1> DEFINE Part(p) == IF p.kind = "word" THEN <<p.of>> ELSE <<>>
           Parts(q) == [i \in DOMAIN q |-> Part(q[i])]
<1>1. \A q \in Seq(Pieces) : Parts(q) \in Seq(Seq(Words))
  <2>1. \A p \in Pieces : Part(p) \in Seq(Words)
    BY DEF Pieces, Word, Call, Output
  <2> HIDE DEF Part
  <2> TAKE q \in Seq(Pieces)
  <2>2. Parts(q) = [i \in 1 .. Len(q) |-> Part(q[i])]
    OBVIOUS
  <2>3. \A i \in 1 .. Len(q) : Part(q[i]) \in Seq(Words)
    BY <2>1
  <2> QED
    BY <2>2, <2>3
<1>2. Parts(a \o b) = Parts(a) \o Parts(b)
  <2> HIDE DEF Part
  <2>1. /\ DOMAIN Parts(a \o b) = 1 .. Len(a) + Len(b)
        /\ \A i \in 1 .. Len(a) + Len(b) :
             Parts(a \o b)[i] = IF i <= Len(a) THEN Parts(a)[i] ELSE Parts(b)[i - Len(a)]
    OBVIOUS
  <2>2. Parts(a \o b) \in Seq(Seq(Words)) /\ Parts(a) \in Seq(Seq(Words)) /\ Parts(b) \in Seq(Seq(Words))
    BY <1>1, a \o b \in Seq(Pieces)
  <2>3. Len(Parts(a)) = Len(a) /\ Len(Parts(b)) = Len(b)
    BY <2>2
  <2> HIDE DEF Parts
  <2>4. Len(Parts(a \o b)) = Len(a) + Len(b)
    BY <2>1, <2>2
  <2>5. /\ Len(Parts(a \o b)) = Len(Parts(a)) + Len(Parts(b))
        /\ \A i \in 1 .. Len(Parts(a)) + Len(Parts(b)) :
             Parts(a \o b)[i] = IF i <= Len(Parts(a)) THEN Parts(a)[i]
                                ELSE Parts(b)[i - Len(Parts(a))]
    BY <2>1, <2>3, <2>4
  <2> QED
    BY <2>2, <2>5, Concatenated
<1>3. \A q : WordsOf(q) = FlattenSeq(Parts(q))
  BY DEF WordsOf
<1> HIDE DEF Parts
<1>4. FlattenSeq(Parts(a) \o Parts(b)) = FlattenSeq(Parts(a)) \o FlattenSeq(Parts(b))
  BY <1>1, FlattenConcat
<1> QED
  BY <1>1, <1>2, <1>3, <1>4, FlattenType

LEMMA WordsOne ==
  ASSUME NEW p \in Pieces
  PROVE  /\ WordsOf(<<>>) = <<>>
         /\ WordsOf(<<p>>) = IF p.kind = "word" THEN <<p.of>> ELSE <<>>
<1> DEFINE part == IF p.kind = "word" THEN <<p.of>> ELSE <<>>
<1>1. WordsOf(<<>>) = <<>>
  <2>1. [i \in DOMAIN <<>> |-> IF <<>>[i].kind = "word" THEN <<<<>>[i].of>> ELSE <<>>] = <<>>
    OBVIOUS
  <2> QED
    BY <2>1, FlattenEmpty DEF WordsOf
<1>2. part \in Seq(Words)
  BY DEF Pieces, Word, Call, Output
<1>3. WordsOf(<<p>>) = FlattenSeq(<<part>>)
  BY DEF WordsOf
<1> HIDE DEF part
<1>4. WordsOf(<<p>>) = part
  BY <1>2, <1>3, FlattenOne
<1> QED
  BY <1>1, <1>4 DEF part

LEMMA EventText ==
  ASSUME NEW e \in Events
  PROVE  (IF e.type = "assistant" THEN e.of ELSE <<>>) \in Seq(Words)
<1>1. \A d \in Deltas : d \in Seq(Words)
  BY DeltaLength
<1>2. e.type = "assistant" => e.of \in Deltas
  BY DEF Events, Event
<1> QED
  BY <1>1, <1>2

LEMMA TextConcat ==
  ASSUME NEW a \in Seq(Events), NEW b \in Seq(Events)
  PROVE  TextOf(a \o b) = TextOf(a) \o TextOf(b) /\ TextOf(a) \in Seq(Words)
<1> DEFINE Part(e) == IF e.type = "assistant" THEN e.of ELSE <<>>
           Parts(q) == [i \in DOMAIN q |-> Part(q[i])]
<1>1. \A q \in Seq(Events) : Parts(q) \in Seq(Seq(Words))
  <2>1. \A e \in Events : Part(e) \in Seq(Words)
    BY EventText
  <2> HIDE DEF Part
  <2> TAKE q \in Seq(Events)
  <2>2. Parts(q) = [i \in 1 .. Len(q) |-> Part(q[i])]
    OBVIOUS
  <2>3. \A i \in 1 .. Len(q) : Part(q[i]) \in Seq(Words)
    BY <2>1
  <2> QED
    BY <2>2, <2>3
<1>2. Parts(a \o b) = Parts(a) \o Parts(b)
  <2> HIDE DEF Part
  <2>1. /\ DOMAIN Parts(a \o b) = 1 .. Len(a) + Len(b)
        /\ \A i \in 1 .. Len(a) + Len(b) :
             Parts(a \o b)[i] = IF i <= Len(a) THEN Parts(a)[i] ELSE Parts(b)[i - Len(a)]
    OBVIOUS
  <2>2. Parts(a \o b) \in Seq(Seq(Words)) /\ Parts(a) \in Seq(Seq(Words)) /\ Parts(b) \in Seq(Seq(Words))
    BY <1>1, a \o b \in Seq(Events)
  <2>3. Len(Parts(a)) = Len(a) /\ Len(Parts(b)) = Len(b)
    BY <2>2
  <2> HIDE DEF Parts
  <2>4. Len(Parts(a \o b)) = Len(a) + Len(b)
    BY <2>1, <2>2
  <2>5. /\ Len(Parts(a \o b)) = Len(Parts(a)) + Len(Parts(b))
        /\ \A i \in 1 .. Len(Parts(a)) + Len(Parts(b)) :
             Parts(a \o b)[i] = IF i <= Len(Parts(a)) THEN Parts(a)[i]
                                ELSE Parts(b)[i - Len(Parts(a))]
    BY <2>1, <2>3, <2>4
  <2> QED
    BY <2>2, <2>5, Concatenated
<1>3. \A q : TextOf(q) = FlattenSeq(Parts(q))
  BY DEF TextOf
<1> HIDE DEF Parts
<1>4. FlattenSeq(Parts(a) \o Parts(b)) = FlattenSeq(Parts(a)) \o FlattenSeq(Parts(b))
  BY <1>1, FlattenConcat
<1> QED
  BY <1>1, <1>2, <1>3, <1>4, FlattenType

LEMMA TextOne ==
  ASSUME NEW e \in Events
  PROVE  /\ TextOf(<<>>) = <<>>
         /\ TextOf(<<e>>) = IF e.type = "assistant" THEN e.of ELSE <<>>
<1> DEFINE part == IF e.type = "assistant" THEN e.of ELSE <<>>
<1>1. TextOf(<<>>) = <<>>
  <2>1. [i \in DOMAIN <<>> |-> IF <<>>[i].type = "assistant" THEN <<>>[i].of ELSE <<>>] = <<>>
    OBVIOUS
  <2> QED
    BY <2>1, FlattenEmpty DEF TextOf
<1>2. part \in Seq(Words)
  BY EventText
<1>3. TextOf(<<e>>) = FlattenSeq(<<part>>)
  BY DEF TextOf
<1> HIDE DEF part
<1>4. TextOf(<<e>>) = part
  BY <1>2, <1>3, FlattenOne
<1> QED
  BY <1>1, <1>4 DEF part

-----------------------------------------------------------------------------
(* The lines of segments *)

LEMMA PieceTypes ==
  /\ \A w \in Words : Word(w) \in Pieces /\ Word(w).kind = "word" /\ Word(w).of = w
  /\ \A c \in Calls : /\ Call(c) \in Pieces /\ Call(c).kind = "call" /\ Call(c).of = c
                      /\ Output(c) \in Pieces /\ Output(c).kind = "output" /\ Output(c).of = c
BY DEF Pieces, Word, Call, Output

LEMMA Pairs ==
  ASSUME NEW p, NEW q
  PROVE  <<p>> \o <<q>> = <<p, q>>
<1>1. <<p>> \in Seq({p, q}) /\ <<q>> \in Seq({p, q}) /\ <<p, q>> \in Seq({p, q})
  OBVIOUS
<1>2. /\ Len(<<p, q>>) = Len(<<p>>) + Len(<<q>>)
      /\ \A i \in 1 .. Len(<<p>>) + Len(<<q>>) :
           <<p, q>>[i] = IF i <= Len(<<p>>) THEN <<p>>[i] ELSE <<q>>[i - Len(<<p>>)]
  OBVIOUS
<1> QED
  BY <1>1, <1>2, Concatenated

LEMMA LinesOfText ==
  ASSUME NEW s, NEW words \in Seq(Words)
  PROVE  /\ Lines(s, Text(words)) \in Seq(Pieces)
         /\ Lines(s, Text(words)) = [i \in 1 .. Len(words) |-> Word(words[i])]
         /\ Len(Lines(s, Text(words))) = Len(words)
<1>1. Lines(s, Text(words)) = [i \in 1 .. Len(words) |-> Word(words[i])]
  BY DEF Lines, Text, IsText
<1>2. \A i \in 1 .. Len(words) : Word(words[i]) \in Pieces
  BY PieceTypes
<1> QED
  BY <1>1, <1>2

LEMMA LinesOfRun ==
  ASSUME NEW s \in Screens, NEW x \in Segments, x.call # None
  PROVE  /\ x.call \in Calls /\ Lines(s, x) \in Seq(Pieces)
         /\ Lines(s, x) = IF s.runs[x.call] = "running" THEN <<Call(x.call)>>
                          ELSE <<Call(x.call), Output(x.call)>>
<1>1. x.call \in Calls
  BY DEF Segments
<1>2. Lines(s, x) = <<Call(x.call)>> \o (IF s.runs[x.call] = "running" THEN <<>> ELSE <<Output(x.call)>>)
  BY DEF Lines, IsText
<1>3. Call(x.call) \in Pieces /\ Output(x.call) \in Pieces
  BY <1>1, PieceTypes
<1> HIDE DEF Pieces
<1>4. \A p, q \in Pieces : <<p>> \o <<>> = <<p>> /\ <<p>> \in Seq(Pieces)
  OBVIOUS
<1>5. \A p, q \in Pieces : <<p, q>> \in Seq(Pieces)
  OBVIOUS
<1>6. <<Call(x.call)>> \o <<Output(x.call)>> = <<Call(x.call), Output(x.call)>>
  BY Pairs
<1> QED
  BY <1>1, <1>2, <1>3, <1>4, <1>5, <1>6

LEMMA SegmentIsText ==
  ASSUME NEW x \in Segments, x.call = None
  PROVE  x = Text(x.words) /\ x.words \in Seq(Words)
BY DEF Segments, Text

LEMMA LinesType ==
  ASSUME NEW s \in Screens, NEW x \in Segments
  PROVE  Lines(s, x) \in Seq(Pieces)
<1>1. CASE x.call = None
  BY <1>1, SegmentIsText, LinesOfText
<1>2. CASE x.call # None
  BY <1>2, LinesOfRun
<1> QED
  BY <1>1, <1>2

\* An output is in the lines of its run only, once it is there.
LEMMA LinesWithoutOutput ==
  ASSUME NEW s \in Screens, NEW x \in Segments, NEW c \in Calls,
         x.call # c \/ s.runs[c] = "running"
  PROVE  \A j \in 1 .. Len(Lines(s, x)) : Lines(s, x)[j] # Output(c)
<1>0. ConversationAssumption
  BY ConversationAssumption
<1>1. CASE x.call = None
  <2>1. x = Text(x.words) /\ x.words \in Seq(Words)
    BY <1>1, SegmentIsText
  <2>2. /\ Lines(s, x) = [i \in 1 .. Len(x.words) |-> Word(x.words[i])]
        /\ Len(Lines(s, x)) = Len(x.words)
    BY <2>1, LinesOfText
  <2> QED
    BY <2>1, <2>2, PieceTypes
<1>2. CASE x.call # None /\ s.runs[x.call] = "running"
  BY <1>2, LinesOfRun, PieceTypes
<1>3. CASE x.call # None /\ s.runs[x.call] # "running"
  <2>1. x.call # c /\ x.call \in Calls
    BY <1>3, LinesOfRun
  <2>2. Lines(s, x) = <<Call(x.call), Output(x.call)>>
    BY <1>3, LinesOfRun
  <2>3. Call(x.call) # Output(c) /\ Output(x.call) # Output(c)
    BY <2>1, PieceTypes
  <2> QED
    BY <2>2, <2>3
<1> QED
  BY <1>1, <1>2, <1>3

\* The lines of a list of segments
LEMMA FrameParts ==
  ASSUME NEW s \in Screens, NEW segments \in Seq(Segments)
  PROVE  /\ [i \in DOMAIN segments |-> Lines(s, segments[i])] \in Seq(Seq(Pieces))
         /\ Len([i \in DOMAIN segments |-> Lines(s, segments[i])]) = Len(segments)
         /\ Frame(s, segments) \in Seq(Pieces)
<1>1. \A i \in 1 .. Len(segments) : Lines(s, segments[i]) \in Seq(Pieces)
  BY LinesType
<1>2. DOMAIN segments = 1 .. Len(segments) /\ Len(segments) \in Nat
  OBVIOUS
<1>3. /\ [i \in DOMAIN segments |-> Lines(s, segments[i])] \in Seq(Seq(Pieces))
      /\ Len([i \in DOMAIN segments |-> Lines(s, segments[i])]) = Len(segments)
  BY <1>1, <1>2
<1> QED
  BY <1>3, FlattenType DEF Frame

LEMMA FrameConcat ==
  ASSUME NEW s \in Screens, NEW a \in Seq(Segments), NEW b \in Seq(Segments)
  PROVE  Frame(s, a \o b) = Frame(s, a) \o Frame(s, b)
<1> DEFINE Parts(q) == [i \in DOMAIN q |-> Lines(s, q[i])]
<1>1. a \o b \in Seq(Segments)
  OBVIOUS
<1>2. /\ Parts(a) \in Seq(Seq(Pieces)) /\ Len(Parts(a)) = Len(a)
      /\ Parts(b) \in Seq(Seq(Pieces)) /\ Len(Parts(b)) = Len(b)
      /\ Parts(a \o b) \in Seq(Seq(Pieces)) /\ Len(Parts(a \o b)) = Len(a \o b)
  BY <1>1, FrameParts
<1>3. /\ Len(a \o b) = Len(a) + Len(b)
      /\ \A i \in 1 .. Len(a) + Len(b) :
           Parts(a \o b)[i] = IF i <= Len(a) THEN Parts(a)[i] ELSE Parts(b)[i - Len(a)]
  OBVIOUS
<1>4. /\ Frame(s, a) = FlattenSeq(Parts(a)) /\ Frame(s, b) = FlattenSeq(Parts(b))
      /\ Frame(s, a \o b) = FlattenSeq(Parts(a \o b))
  BY DEF Frame
<1> HIDE DEF Parts
<1>5. /\ Len(Parts(a \o b)) = Len(Parts(a)) + Len(Parts(b))
      /\ \A i \in 1 .. Len(Parts(a)) + Len(Parts(b)) :
           Parts(a \o b)[i] = IF i <= Len(Parts(a)) THEN Parts(a)[i]
                              ELSE Parts(b)[i - Len(Parts(a))]
  BY <1>2, <1>3
<1>6. Parts(a \o b) = Parts(a) \o Parts(b)
  BY <1>2, <1>5, Concatenated
<1>7. FlattenSeq(Parts(a) \o Parts(b)) = FlattenSeq(Parts(a)) \o FlattenSeq(Parts(b))
  BY <1>2, FlattenConcat
<1> QED
  BY <1>4, <1>6, <1>7

LEMMA FrameOne ==
  ASSUME NEW s \in Screens, NEW x \in Segments
  PROVE  Frame(s, <<x>>) = Lines(s, x) /\ Frame(s, <<>>) = <<>>
<1>1. [i \in DOMAIN <<>> |-> Lines(s, <<>>[i])] = <<>>
  OBVIOUS
<1>2. [i \in DOMAIN <<x>> |-> Lines(s, <<x>>[i])] = <<Lines(s, x)>>
  OBVIOUS
<1>3. Lines(s, x) \in Seq(Pieces)
  BY LinesType
<1> QED
  BY <1>1, <1>2, <1>3, FlattenEmpty, FlattenOne DEF Frame

\* Lines depend on the state of the runs only.
LEMMA SameFrame ==
  ASSUME NEW s, NEW t, s.runs = t.runs, NEW segments
  PROVE  Frame(s, segments) = Frame(t, segments)
         /\ \A x : Lines(s, x) = Lines(t, x)
BY DEF Frame, Lines

LEMMA FrameWithoutOutput ==
  ASSUME NEW s \in Screens, NEW segments \in Seq(Segments), NEW c \in Calls,
         \A i \in 1 .. Len(segments) : segments[i].call # c \/ s.runs[c] = "running"
  PROVE  \A j \in 1 .. Len(Frame(s, segments)) : Frame(s, segments)[j] # Output(c)
<1> DEFINE parts == [i \in DOMAIN segments |-> Lines(s, segments[i])]
<1>1. parts \in Seq(Seq(Pieces)) /\ Len(parts) = Len(segments)
  BY FrameParts
<1>2. \A i \in 1 .. Len(segments) : parts[i] = Lines(s, segments[i]) /\ segments[i] \in Segments
  OBVIOUS
<1> HIDE DEF parts
<1>3. \A i \in 1 .. Len(parts) : \A j \in 1 .. Len(parts[i]) : parts[i][j] # Output(c)
  BY <1>1, <1>2, LinesWithoutOutput
<1> QED
  BY <1>1, <1>3, FlattenMembers DEF Frame, parts

\* Without the outputs, the state of the runs does not show.
LEMMA PlainLines ==
  ASSUME NEW s \in Screens, NEW t \in Screens, NEW x \in Segments
  PROVE  Plain(Lines(s, x)) = Plain(Lines(t, x))
<1>1. CASE x.call = None
  BY <1>1, SegmentIsText, LinesOfText
<1>2. CASE x.call # None
  <2>1. /\ x.call \in Calls
        /\ Lines(s, x) \in {<<Call(x.call)>>, <<Call(x.call), Output(x.call)>>}
        /\ Lines(t, x) \in {<<Call(x.call)>>, <<Call(x.call), Output(x.call)>>}
    BY <1>2, LinesOfRun
  <2>2. /\ Call(x.call) \in Pieces /\ Output(x.call) \in Pieces
        /\ Call(x.call).kind = "call" /\ Output(x.call).kind = "output"
    BY <2>1, PieceTypes
  <2>3. Plain(<<Call(x.call)>>) = <<Call(x.call)>> /\ Plain(<<Output(x.call)>>) = <<>>
    BY <2>2, PlainOne
  <2>4. <<Call(x.call), Output(x.call)>> = <<Call(x.call)>> \o <<Output(x.call)>>
    BY Pairs
  <2>5. <<Call(x.call)>> \in Seq(Pieces) /\ <<Output(x.call)>> \in Seq(Pieces)
    BY <2>2
  <2>6. Plain(<<Call(x.call), Output(x.call)>>) = <<Call(x.call)>> \o <<>>
    BY <2>3, <2>4, <2>5, PlainConcat
  <2> QED
    BY <2>1, <2>3, <2>5, <2>6
<1> QED
  BY <1>1, <1>2

LEMMA PlainFrame ==
  ASSUME NEW s \in Screens, NEW t \in Screens, NEW segments \in Seq(Segments)
  PROVE  Plain(Frame(s, segments)) = Plain(Frame(t, segments))
<1> DEFINE Sizes == {n \in Nat : \A q \in Seq(Segments) :
                   Len(q) = n => Plain(Frame(s, q)) = Plain(Frame(t, q))}
<1>1. 0 \in Sizes
  <2>1. \A q \in Seq(Segments) : Len(q) = 0 => q = <<>>
    OBVIOUS
  <2>2. Frame(s, <<>>) = <<>> /\ Frame(t, <<>>) = <<>>
    BY FrameParts, FlattenEmpty DEF Frame
  <2> QED
    BY <2>1, <2>2
<1>2. ASSUME NEW n \in Sizes
      PROVE  n + 1 \in Sizes
  <2>1. ASSUME NEW q \in Seq(Segments), Len(q) = n + 1
        PROVE  Plain(Frame(s, q)) = Plain(Frame(t, q))
    <3> DEFINE u == SubSeq(q, 1, n)
               x == q[n + 1]
    <3>0. n \in Nat
      OBVIOUS
    <3>1. u \in Seq(Segments) /\ Len(u) = n /\ x \in Segments /\ q = Append(u, x)
      <4> HIDE DEF Sizes
      <4> QED
        BY <2>1, <3>0, Ends
    <3>2. Plain(Frame(s, u)) = Plain(Frame(t, u))
      BY <3>1
    <3> HIDE DEF Sizes, u, x
    <3>3. q = u \o <<x>> /\ <<x>> \in Seq(Segments)
      BY <3>1
    <3>4. /\ Frame(s, q) = Frame(s, u) \o Lines(s, x) /\ Frame(t, q) = Frame(t, u) \o Lines(t, x)
          /\ Frame(s, u) \in Seq(Pieces) /\ Frame(t, u) \in Seq(Pieces)
          /\ Lines(s, x) \in Seq(Pieces) /\ Lines(t, x) \in Seq(Pieces)
      <4>1. u \in Seq(Segments) /\ x \in Segments /\ <<x>> \in Seq(Segments)
        BY <3>1, <3>3
      <4>2. Frame(s, u \o <<x>>) = Frame(s, u) \o Frame(s, <<x>>) /\ Frame(t, u \o <<x>>) = Frame(t, u) \o Frame(t, <<x>>)
        BY <4>1, FrameConcat
      <4>3. Frame(s, <<x>>) = Lines(s, x) /\ Frame(t, <<x>>) = Lines(t, x)
        BY <4>1, FrameOne
      <4>4. Frame(s, u) \in Seq(Pieces) /\ Frame(t, u) \in Seq(Pieces)
        BY <4>1, FrameParts
      <4>5. Lines(s, x) \in Seq(Pieces) /\ Lines(t, x) \in Seq(Pieces)
        BY <4>1, LinesType
      <4> QED
        BY <3>3, <4>2, <4>3, <4>4, <4>5, Zenon
    <3>5. Plain(Lines(s, x)) = Plain(Lines(t, x))
      BY <3>1, PlainLines
    <3>6. /\ Plain(Frame(s, q)) = Plain(Frame(s, u)) \o Plain(Lines(s, x))
          /\ Plain(Frame(t, q)) = Plain(Frame(t, u)) \o Plain(Lines(t, x))
      <4>1. \A a, b \in Seq(Pieces) : Plain(a \o b) = Plain(a) \o Plain(b)
        BY PlainConcat
      <4> QED
        BY <3>4, <4>1, Zenon
    <3> QED
      BY <3>2, <3>5, <3>6, Zenon
  <2> QED
    BY <2>1
<1>3. Sizes = Nat
  <2>1. Sizes \in SUBSET Nat
    OBVIOUS
  <2> HIDE DEF Sizes
  <2> QED
    BY <1>1, <1>2, <2>1, Induction
<1> QED
  <2>1. Len(segments) \in Sizes
    BY <1>3
  <2> QED
    BY <2>1

-----------------------------------------------------------------------------
(* The renderer moves lines from the frame to the screen *)

LEMMA UnderAppend ==
  ASSUME NEW q \in Seq(Pieces), NEW r \in Seq(Pieces), NEW c \in Calls, UnderItsCall(q, c),
         \A j \in 1 .. Len(r) : r[j] # Output(c)
  PROVE  UnderItsCall(q \o r, c)
<1>1. PICK i \in 2 .. Len(q) : /\ \A j \in 1 .. Len(q) : q[j] = Output(c) <=> j = i
                               /\ terminal => q[i - 1] = Call(c)
  BY DEF UnderItsCall
<1>2. /\ Len(q \o r) = Len(q) + Len(r)
      /\ \A j \in 1 .. Len(q) + Len(r) : (q \o r)[j] = IF j <= Len(q) THEN q[j] ELSE r[j - Len(q)]
  OBVIOUS
<1>3. i \in 2 .. Len(q \o r) /\ (q \o r)[i - 1] = q[i - 1]
  BY <1>2
<1>4. \A j \in 1 .. Len(q \o r) : (q \o r)[j] = Output(c) <=> j = i
  BY <1>1, <1>2
<1> QED
  BY <1>1, <1>3, <1>4 DEF UnderItsCall

LEMMA UnderNew ==
  ASSUME NEW q \in Seq(Pieces), NEW c \in Calls, \A j \in 1 .. Len(q) : q[j] # Output(c)
  PROVE  UnderItsCall(q \o <<Call(c), Output(c)>>, c)
<1> DEFINE both == <<Call(c), Output(c)>>
<1>1. Call(c) # Output(c) /\ both \in Seq(Pieces) /\ Len(both) = 2
  BY PieceTypes
<1>2. both[1] = Call(c) /\ both[2] = Output(c)
  OBVIOUS
<1> HIDE DEF both
<1>3. /\ Len(q \o both) = Len(q) + 2
      /\ \A j \in 1 .. Len(q) + 2 : (q \o both)[j] = IF j <= Len(q) THEN q[j] ELSE both[j - Len(q)]
  <2>1. /\ Len(q \o both) = Len(q) + Len(both)
        /\ \A j \in 1 .. Len(q) + Len(both) :
             (q \o both)[j] = IF j <= Len(q) THEN q[j] ELSE both[j - Len(q)]
    BY <1>1, Concat
  <2> QED
    BY <1>1, <2>1
<1> DEFINE i == Len(q) + 2
<1>4. i \in 2 .. Len(q \o both) /\ (q \o both)[i] = Output(c) /\ (q \o both)[i - 1] = Call(c)
  BY <1>2, <1>3
<1>5. \A j \in 1 .. Len(q \o both) : (q \o both)[j] = Output(c) => j = i
  BY <1>1, <1>2, <1>3
<1> QED
  BY <1>4, <1>5 DEF UnderItsCall, both

\* The first segment, or a part of it, has moved.
Moved(s, t) ==
  /\ t \in Screens /\ t.runs = s.runs /\ t.live = s.live /\ t.drawn = s.drawn /\ t.frame = s.frame
  /\ Whole(t) = Whole(s)
  /\ Tidy(s) => Tidy(t) /\ \A c \in Calls : Kept(s, c) => Kept(t, c)

LEMMA ShiftedIsTidy ==
  ASSUME NEW s \in Screens, NEW t \in Screens, NEW out \in Seq(Pieces), NEW d \in {0, 1},
         Tidy(s), s.segments # <<>>,
         t.runs = s.runs, t.scrolled = s.scrolled \o out,
         Len(t.segments) + d = Len(s.segments),
         \A i \in 1 .. Len(t.segments) :
           /\ t.segments[i].call = s.segments[i + d].call
           /\ t.segments[i].call # None => t.segments[i].words = s.segments[i + d].words,
         \/ s.segments[1].call # None /\ d = 1 /\ out = Lines(s, s.segments[1])
         \/ s.segments[1].call = None /\ \A c \in Calls : \A j \in 1 .. Len(out) : out[j] # Output(c)
  PROVE  Tidy(t) /\ \A c \in Calls : Kept(s, c) => Kept(t, c)
<1> DEFINE head == s.segments[1]
<1>1. /\ s.segments \in Seq(Segments) /\ t.segments \in Seq(Segments)
      /\ s.scrolled \in Seq(Pieces) /\ head \in Segments /\ Len(s.segments) \in Nat \ {0}
      /\ Len(t.segments) \in Nat /\ s.runs \in [Calls -> {None, "running", "done"}]
  BY DEF Screens
<1>2. /\ \A i \in 1 .. Len(t.segments) : t.segments[i].call # None => t.segments[i].words = <<>>
      /\ \A i, j \in 1 .. Len(t.segments) :
           t.segments[i].call = t.segments[j].call /\ t.segments[i].call # None => i = j
  <2>1. \A i \in 1 .. Len(t.segments) : i + d \in 1 .. Len(s.segments)
    BY <1>1
  <2>2. \A i \in 1 .. Len(t.segments) : t.segments[i].call # None => t.segments[i].words = <<>>
    BY <2>1 DEF Tidy
  <2>3. ASSUME NEW i \in 1 .. Len(t.segments), NEW j \in 1 .. Len(t.segments),
               t.segments[i].call = t.segments[j].call, t.segments[i].call # None
        PROVE  i = j
    <3>1. i + d = j + d
      BY <2>1, <2>3 DEF Tidy
    <3> QED
      BY <3>1
  <2> QED
    BY <2>2, <2>3
<1>3. ASSUME NEW c \in Calls, Holds(t, c)
      PROVE  Holds(s, c) /\ (head.call # None => c # head.call)
  <2>1. PICK i \in 1 .. Len(t.segments) : t.segments[i].call = c
    BY <1>3 DEF Holds
  <2>2. i + d \in 1 .. Len(s.segments) /\ s.segments[i + d].call = c
    <3>1. t.segments[i].call = s.segments[i + d].call
      OBVIOUS
    <3>2. i \in Nat /\ i >= 1 /\ i <= Len(t.segments)
      BY <1>1
    <3>3. i + d \in 1 .. Len(s.segments)
      BY <1>1, <3>2
    <3> QED
      BY <2>1, <3>1, <3>3
  <2>3. c # None
    BY ConversationAssumption
  <2>4. ASSUME head.call # None, c = head.call
        PROVE  FALSE
    <3>1. d = 1 /\ 1 \in 1 .. Len(s.segments)
      BY <1>1, <2>4
    <3>2. i + d = 1
      BY <2>2, <2>3, <2>4, <3>1 DEF Tidy
    <3> QED
      BY <3>1, <3>2
  <2> QED
    BY <2>2, <2>4 DEF Holds
<1>4. ASSUME NEW c \in Calls, Holds(s, c), head.call # c
      PROVE  Holds(t, c)
  <2>1. PICK i \in 1 .. Len(s.segments) : s.segments[i].call = c
    BY <1>4 DEF Holds
  <2>2. i # 1
    BY <1>4, <2>1
  <2>3. i - d \in 1 .. Len(t.segments) /\ (i - d) + d = i
    BY <1>1, <2>2
  <2> QED
    BY <2>1, <2>3 DEF Holds
<1>5. ASSUME NEW c \in Calls, head.call # c \/ s.runs[c] = "running"
      PROVE  \A j \in 1 .. Len(out) : out[j] # Output(c)
  BY <1>1, <1>5, LinesWithoutOutput
<1>6. \A c \in Calls : head.call = c => Holds(s, c)
  BY <1>1 DEF Holds
<1>7. ASSUME NEW c \in Calls, s.runs[c] # "done" \/ Holds(t, c)
      PROVE  \A i \in 1 .. Len(t.scrolled) : t.scrolled[i] # Output(c)
  <2>1. \A i \in 1 .. Len(s.scrolled) : s.scrolled[i] # Output(c)
    BY <1>3, <1>7 DEF Tidy
  <2>2. head.call # c \/ s.runs[c] = "running"
    <3> SUFFICES ASSUME head.call = c PROVE s.runs[c] = "running"
      OBVIOUS
    <3>1. c # None
      BY ConversationAssumption
    <3>2. ~Holds(t, c) /\ Holds(s, c)
      BY <1>3, <1>6, <3>1
    <3>3. s.runs[c] # None /\ s.runs[c] # "done"
      BY <1>7, <3>2 DEF Tidy
    <3> QED
      BY <1>1, <3>3
  <2>3. \A j \in 1 .. Len(out) : out[j] # Output(c)
    BY <1>5, <2>2
  <2> QED
    BY <1>1, <2>1, <2>3
<1>8. Tidy(t)
  <2>1. \A c \in Calls : s.runs[c] = None => ~Holds(t, c)
    BY <1>3 DEF Tidy
  <2> QED
    BY <1>2, <1>7, <2>1 DEF Tidy
<1>9. ASSUME NEW c \in Calls, Kept(s, c), t.runs[c] = "done"
      PROVE  Holds(t, c) \/ UnderItsCall(t.scrolled, c)
  <2>1. CASE Holds(s, c) /\ head.call # c
    BY <1>4, <2>1
  <2>2. CASE Holds(s, c) /\ head.call = c
    <3>1. c # None
      BY ConversationAssumption
    <3>2. out = <<Call(c), Output(c)>>
      BY <1>1, <1>9, <2>2, <3>1, LinesOfRun
    <3>3. \A j \in 1 .. Len(s.scrolled) : s.scrolled[j] # Output(c)
      BY <2>2 DEF Tidy
    <3> QED
      BY <1>1, <3>2, <3>3, UnderNew
  <2>3. CASE ~Holds(s, c) /\ UnderItsCall(s.scrolled, c)
    <3>1. \A j \in 1 .. Len(out) : out[j] # Output(c)
      BY <1>5, <1>6, <2>3
    <3> QED
      BY <1>1, <2>3, <3>1, UnderAppend
  <2> QED
    BY <1>9, <2>1, <2>2, <2>3 DEF Kept
<1> QED
  BY <1>8, <1>9 DEF Kept

LEMMA CommitHeadMoves ==
  ASSUME NEW s \in Screens, NEW t \in CommitHead(s)
  PROVE  Moved(s, t)
<1>1. CASE Excess(s) <= 0 \/ s.segments = <<>>
  <2>1. t = s
    BY <1>1 DEF CommitHead
  <2> QED
    BY <2>1 DEF Moved
<1>2. CASE ~(Excess(s) <= 0 \/ s.segments = <<>>)
  <2> DEFINE head == Head(s.segments)
             rest == Tail(s.segments)
             n == Len(head.words)
  <2>1. /\ s.segments \in Seq(Segments) /\ s.segments # <<>>
        /\ s.scrolled \in Seq(Pieces) /\ DOMAIN s = {"segments", "runs", "live", "drawn", "frame", "scrolled"}
    BY <1>2 DEF Screens
  <2>2. /\ head \in Segments /\ rest \in Seq(Segments) /\ head = s.segments[1]
        /\ Len(rest) + 1 = Len(s.segments) /\ \A i \in 1 .. Len(rest) : rest[i] = s.segments[i + 1]
        /\ s.segments = <<head>> \o rest
    BY <2>1
  <2>3. Frame(s, s.segments) = Lines(s, head) \o Frame(s, rest)
    <3>1. <<head>> \in Seq(Segments)
      BY <2>2
    <3> QED
      BY <2>2, <3>1, FrameConcat, FrameOne
  <2>4. CASE head.call # None
    <3>1. t = [s EXCEPT !.scrolled = @ \o Lines(s, head), !.segments = rest]
      BY <1>2, <2>4 DEF CommitHead, IsText
    <3>2. Lines(s, head) \in Seq(Pieces) /\ Frame(s, rest) \in Seq(Pieces)
      BY <2>2, LinesType, FrameParts
    <3>3. /\ t \in Screens /\ t.runs = s.runs /\ t.live = s.live /\ t.drawn = s.drawn
          /\ t.frame = s.frame /\ t.segments = rest /\ t.scrolled = s.scrolled \o Lines(s, head)
      <4>1. s.scrolled \o Lines(s, head) \in Seq(Pieces)
        BY <2>1, <3>2
      <4> QED
        BY <2>2, <3>1, <4>1 DEF Screens
    <3>4. Whole(t) = Whole(s)
      <4>1. Frame(t, rest) = Frame(s, rest)
        BY <3>3, SameFrame
      <4> QED
        BY <2>1, <2>3, <3>2, <3>3, <4>1 DEF Whole
    <3>5. Tidy(s) => Tidy(t) /\ \A c \in Calls : Kept(s, c) => Kept(t, c)
      BY <2>1, <2>2, <2>4, <3>2, <3>3, ShiftedIsTidy
    <3> QED
      BY <3>3, <3>4, <3>5 DEF Moved
  <2>5. CASE head.call = None
    <3>1. PICK cut \in 1 .. IF n = 1 THEN 1 ELSE n - 1 :
            t = [s EXCEPT !.scrolled = @ \o Lines(s, Text(SubSeq(head.words, 1, cut))),
                          !.segments = IF cut = n THEN rest
                                       ELSE <<Text(SubSeq(head.words, cut + 1, n))>> \o rest]
      BY <1>2, <2>5 DEF CommitHead, IsText
    <3> DEFINE first == SubSeq(head.words, 1, cut)
               last == SubSeq(head.words, cut + 1, n)
               out == Lines(s, Text(first))
               segments == IF cut = n THEN rest ELSE <<Text(last)>> \o rest
    <3>2. head = Text(head.words) /\ head.words \in Seq(Words) /\ n \in Nat /\ cut \in 1 .. n
      <4>1. head = Text(head.words) /\ head.words \in Seq(Words)
        BY <2>2, <2>5, SegmentIsText
      <4>2. n \in Nat
        BY <4>1
      <4> HIDE DEF n
      <4> QED
        BY <3>1, <4>1, <4>2
    <3>3. /\ first \in Seq(Words) /\ last \in Seq(Words) /\ Len(first) = cut /\ Len(last) = n - cut
          /\ \A i \in 1 .. cut : first[i] = head.words[i]
          /\ \A i \in 1 .. n - cut : last[i] = head.words[cut + i]
      BY <3>2
    <3>4. Text(last) \in Segments /\ Text(last).call = None
      BY <3>3 DEF Text, Segments
    <3>5. /\ out \in Seq(Pieces) /\ Len(out) = cut /\ out = [i \in 1 .. cut |-> Word(first[i])]
          /\ Lines(s, Text(last)) \in Seq(Pieces) /\ Len(Lines(s, Text(last))) = n - cut
          /\ Lines(s, Text(last)) = [i \in 1 .. n - cut |-> Word(last[i])]
          /\ Lines(s, head) \in Seq(Pieces) /\ Len(Lines(s, head)) = n
          /\ Lines(s, head) = [i \in 1 .. n |-> Word(head.words[i])]
      <4> HIDE DEF head, n, first, last
      <4>1. /\ out \in Seq(Pieces) /\ Len(out) = cut /\ out = [i \in 1 .. cut |-> Word(first[i])]
        BY <3>3, LinesOfText
      <4>2. /\ Lines(s, Text(last)) \in Seq(Pieces) /\ Len(Lines(s, Text(last))) = n - cut
            /\ Lines(s, Text(last)) = [i \in 1 .. n - cut |-> Word(last[i])]
        BY <3>3, LinesOfText
      <4>3. /\ Lines(s, head) \in Seq(Pieces) /\ Len(Lines(s, head)) = n
            /\ Lines(s, head) = [i \in 1 .. n |-> Word(head.words[i])]
        BY <3>2, LinesOfText DEF n
      <4> QED
        BY <4>1, <4>2, <4>3
    <3> HIDE DEF first, last, out
    <3>6. Lines(s, head) = out \o Lines(s, Text(last))
      <4> HIDE DEF head, n
      <4>1. /\ Len(Lines(s, head)) = Len(out) + Len(Lines(s, Text(last)))
            /\ \A i \in 1 .. Len(out) + Len(Lines(s, Text(last))) :
                 Lines(s, head)[i] = IF i <= Len(out) THEN out[i]
                                     ELSE Lines(s, Text(last))[i - Len(out)]
        <5>1. n = cut + (n - cut) /\ Len(out) = cut /\ Len(Lines(s, Text(last))) = n - cut
          BY <3>2, <3>5
        <5>2. \A i \in 1 .. cut : i \in 1 .. n /\ Lines(s, head)[i] = out[i]
          BY <3>2, <3>3, <3>5
        <5>3. ASSUME NEW i \in cut + 1 .. n
              PROVE  Lines(s, head)[i] = Lines(s, Text(last))[i - cut]
          <6>1. i - cut \in 1 .. n - cut /\ i \in 1 .. n /\ cut + (i - cut) = i
            BY <3>2
          <6>2. last[i - cut] = head.words[i]
            BY <3>3, <6>1
          <6> QED
            BY <3>5, <6>1, <6>2
        <5>4. Len(Lines(s, head)) = n /\ n \in Nat /\ cut \in 1 .. n
          BY <3>2, <3>5
        <5>5. ASSUME NEW i \in 1 .. Len(out) + Len(Lines(s, Text(last)))
              PROVE  Lines(s, head)[i] = IF i <= Len(out) THEN out[i]
                                         ELSE Lines(s, Text(last))[i - Len(out)]
          <6>1. CASE i <= cut
            BY <5>1, <5>2, <5>4, <6>1
          <6>2. CASE ~(i <= cut)
            <7>1. i \in cut + 1 .. n
              BY <5>1, <5>4, <6>2
            <7> QED
              BY <5>1, <5>3, <6>2, <7>1
          <6> QED
            BY <6>1, <6>2
        <5> QED
          BY <5>1, <5>4, <5>5
      <4> QED
        BY <3>5, <4>1, Concatenated
    <3>7. segments \in Seq(Segments) /\ Frame(s, segments) \in Seq(Pieces)
          /\ Lines(s, head) \o Frame(s, rest) = out \o Frame(s, segments)
      <4>1. Frame(s, rest) \in Seq(Pieces)
        BY <2>2, FrameParts
      <4>2. CASE cut = n
        <5>1. Lines(s, Text(last)) = <<>>
          BY <3>2, <3>5, <4>2
        <5>2. Lines(s, head) = out
          <6> HIDE DEF head
          <6> QED
            BY <3>5, <3>6, <5>1, Concat
        <5> QED
          BY <2>2, <4>1, <4>2, <5>2
      <4>3. CASE cut # n
        <5>1. <<Text(last)>> \in Seq(Segments)
          BY <3>4
        <5>2. /\ segments = <<Text(last)>> \o rest /\ segments \in Seq(Segments)
              /\ Frame(s, segments) = Lines(s, Text(last)) \o Frame(s, rest)
          <6>1. segments = <<Text(last)>> \o rest
            BY <4>3
          <6> HIDE DEF segments, rest
          <6>2. segments \in Seq(Segments)
            BY <2>2, <5>1, <6>1
          <6>3. Frame(s, segments) = Frame(s, <<Text(last)>>) \o Frame(s, rest)
            BY <2>2, <5>1, <6>1, FrameConcat
          <6>4. Frame(s, <<Text(last)>>) = Lines(s, Text(last))
            BY <3>4, FrameOne
          <6> QED
            BY <6>1, <6>2, <6>3, <6>4
        <5> HIDE DEF segments, rest, head
        <5>3. (out \o Lines(s, Text(last))) \o Frame(s, rest)
                = out \o (Lines(s, Text(last)) \o Frame(s, rest))
          <6>1. out \in Seq(Pieces) /\ Lines(s, Text(last)) \in Seq(Pieces)
            BY <3>5
          <6> QED
            BY <4>1, <6>1, Associative
        <5>4. Frame(s, segments) \in Seq(Pieces)
          BY <5>2, FrameParts
        <5> QED
          BY <3>6, <5>2, <5>3, <5>4
      <4> QED
        BY <4>2, <4>3
    <3>8. /\ t \in Screens /\ t.runs = s.runs /\ t.live = s.live /\ t.drawn = s.drawn
          /\ t.frame = s.frame /\ t.segments = segments /\ t.scrolled = s.scrolled \o out
      <4>1. s.scrolled \o out \in Seq(Pieces)
        BY <2>1, <3>5
      <4>2. t = [s EXCEPT !.scrolled = @ \o out, !.segments = segments]
        BY <3>1 DEF out, first, last
      <4> HIDE DEF segments
      <4> QED
        BY <3>7, <4>1, <4>2 DEF Screens
    <3>9. Whole(t) = Whole(s)
      <4>1. Frame(t, segments) = Frame(s, segments)
        BY <3>8, SameFrame
      <4> HIDE DEF segments, head, rest
      <4>2. Whole(t) = (s.scrolled \o out) \o Frame(s, segments)
        BY <3>8, <4>1 DEF Whole
      <4>3. Whole(s) = s.scrolled \o (out \o Frame(s, segments))
        BY <2>3, <3>7 DEF Whole
      <4>4. (s.scrolled \o out) \o Frame(s, segments) = s.scrolled \o (out \o Frame(s, segments))
        <5>1. out \in Seq(Pieces) /\ Frame(s, segments) \in Seq(Pieces) /\ s.scrolled \in Seq(Pieces)
          BY <2>1, <3>5, <3>7
        <5>2. \A a, b, c \in Seq(Pieces) : (a \o b) \o c = a \o (b \o c)
          BY Associative
        <5> QED
          BY <5>1, <5>2, Zenon
      <4> QED
        BY <4>2, <4>3, <4>4
    <3>10. ASSUME Tidy(s)
           PROVE  Tidy(t) /\ \A c \in Calls : Kept(s, c) => Kept(t, c)
      <4>1. \A c \in Calls : \A j \in 1 .. Len(out) : out[j] # Output(c)
        BY <3>3, <3>5, PieceTypes
      <4>2. PICK d \in {0, 1} :
              /\ Len(t.segments) + d = Len(s.segments)
              /\ \A i \in 1 .. Len(t.segments) :
                   /\ t.segments[i].call = s.segments[i + d].call
                   /\ t.segments[i].call # None => t.segments[i].words = s.segments[i + d].words
        <5>1. CASE cut = n
          BY <2>2, <3>8, <5>1
        <5>2. CASE cut # n
          <6>1. /\ t.segments = <<Text(last)>> \o rest
                /\ Len(t.segments) = Len(s.segments) /\ t.segments[1] = Text(last)
                /\ \A i \in 2 .. Len(t.segments) : t.segments[i] = s.segments[i]
            BY <2>2, <3>4, <3>8, <5>2
          <6>2. \A i \in 1 .. Len(t.segments) : i = 1 \/ i \in 2 .. Len(t.segments)
            OBVIOUS
          <6> QED
            BY <2>2, <2>5, <3>4, <6>1, <6>2
        <5> QED
          BY <5>1, <5>2
      <4>3. s.segments[1].call = None /\ s.segments # <<>> /\ out \in Seq(Pieces)
        BY <2>1, <2>2, <2>5, <3>5
      <4>4. t \in Screens /\ t.runs = s.runs /\ t.scrolled = s.scrolled \o out
        BY <3>8
      <4> HIDE DEF head, rest, segments, n
      <4> QED
        BY <3>10, <4>1, <4>2, <4>3, <4>4, ShiftedIsTidy
    <3> QED
      BY <3>8, <3>9, <3>10 DEF Moved
  <2> QED
    BY <2>4, <2>5
<1> QED
  BY <1>1, <1>2

LEMMA MovedTwice ==
  ASSUME NEW s \in Screens, NEW t, NEW u, Moved(s, t), Moved(t, u)
  PROVE  Moved(s, u)
BY DEF Moved

\* A turn of CommitOverflow; the recursive function in it exists.
Turn(s, k, before) == IF k = 0 THEN {s} ELSE UNION {CommitHead(t) : t \in before}

LEMMA TurnsExist ==
  ASSUME NEW s, NEW n \in Nat
  PROVE  \E f : f = [k \in 0 .. n |-> Turn(s, k, f[k - 1])]
<1> DEFINE Sizes == {m \in Nat : \E f : f = [k \in 0 .. m |-> Turn(s, k, f[k - 1])]}
<1>1. 0 \in Sizes
  <2> DEFINE f == [k \in 0 .. 0 |-> {s}]
  <2>1. \A k \in 0 .. 0 : Turn(s, k, f[k - 1]) = {s}
    BY DEF Turn
  <2>2. f = [k \in 0 .. 0 |-> Turn(s, k, f[k - 1])]
    BY <2>1
  <2> HIDE DEF f
  <2> QED
    BY <2>2
<1>2. ASSUME NEW m \in Sizes
      PROVE  m + 1 \in Sizes
  <2>1. m \in Nat
    OBVIOUS
  <2>2. PICK f : f = [k \in 0 .. m |-> Turn(s, k, f[k - 1])]
    OBVIOUS
  <2> DEFINE h == [k \in 0 .. m + 1 |-> Turn(s, k, f[k - 1])]
  <2>3. \A k \in 0 .. m : h[k] = f[k]
    BY <2>1, <2>2
  <2>4. \A k \in 0 .. m + 1 : Turn(s, k, h[k - 1]) = Turn(s, k, f[k - 1])
    <3>1. TAKE k \in 0 .. m + 1
    <3>2. CASE k = 0
      BY <3>2 DEF Turn
    <3>3. CASE k # 0
      <4>1. k - 1 \in 0 .. m
        BY <2>1, <3>3
      <4> QED
        BY <2>3, <4>1
    <3> QED
      BY <3>2, <3>3
  <2>5. h = [k \in 0 .. m + 1 |-> Turn(s, k, h[k - 1])]
    BY <2>4
  <2> HIDE DEF h
  <2> QED
    BY <2>1, <2>5
<1> HIDE DEF Sizes
<1>3. Sizes = Nat
  <2>1. Sizes \in SUBSET Nat
    BY DEF Sizes
  <2> QED
    BY <1>1, <1>2, <2>1, Induction
<1> QED
  BY <1>3 DEF Sizes

LEMMA OverflowMoves ==
  ASSUME NEW s \in Screens, NEW t \in CommitOverflow(s)
  PROVE  Moved(s, t)
<1> DEFINE n == MaxWords + Cardinality(Calls)
           after == CHOOSE f : f = [k \in 0 .. n |-> Turn(s, k, f[k - 1])]
<1>1. n \in Nat
  BY ConversationAssumption, FS_CardinalityType
<1>2. CommitOverflow(s) = after[n]
  BY DEF CommitOverflow, Turn
<1> HIDE DEF n
<1>3. after = [k \in 0 .. n |-> Turn(s, k, after[k - 1])]
  BY <1>1, TurnsExist
<1> HIDE DEF after
<1>4. \A turns \in 0 .. n :
        after[turns] = IF turns = 0 THEN {s} ELSE UNION {CommitHead(u) : u \in after[turns - 1]}
  BY <1>3 DEF Turn
<1> DEFINE Sizes == {k \in Nat : k \in 0 .. n => \A u \in after[k] : Moved(s, u)}
<1>5. 0 \in Sizes
  <2>1. Moved(s, s)
    BY DEF Moved
  <2> QED
    BY <1>1, <1>4, <2>1
<1>6. ASSUME NEW k \in Sizes
      PROVE  k + 1 \in Sizes
  <2>1. ASSUME k + 1 \in 0 .. n, NEW u \in after[k + 1]
        PROVE  Moved(s, u)
    <3>1. k \in Nat /\ k \in 0 .. n /\ (k + 1) - 1 = k /\ k + 1 # 0
      BY <1>1, <2>1
    <3>2. \A v \in after[k] : Moved(s, v)
      BY <3>1
    <3> HIDE DEF Sizes
    <3>3. after[k + 1] = UNION {CommitHead(v) : v \in after[k]}
      BY <1>4, <2>1, <3>1
    <3>4. PICK v \in after[k] : u \in CommitHead(v)
      BY <2>1, <3>3
    <3>5. Moved(s, v) /\ v \in Screens
      BY <3>2 DEF Moved
    <3>6. Moved(v, u)
      BY <3>4, <3>5, CommitHeadMoves
    <3> QED
      BY <3>5, <3>6, MovedTwice
  <2> QED
    BY <2>1
<1>7. Sizes = Nat
  <2>1. Sizes \in SUBSET Nat
    OBVIOUS
  <2> HIDE DEF Sizes
  <2> QED
    BY <1>5, <1>6, <2>1, Induction
<1> QED
  <2>1. n \in Sizes /\ n \in 0 .. n
    BY <1>1, <1>7
  <2>2. \A u \in after[n] : Moved(s, u)
    BY <2>1
  <2> QED
    BY <1>2, <2>2

\* A screen that is drawn shows all the renderer has.
Drawn(s, t) ==
  /\ t \in Screens /\ t.runs = s.runs /\ t.live /\ t.scrolled \o t.frame = Whole(s)
  /\ t.frame = Frame(t, t.segments) /\ Whole(t) = Whole(s)
  /\ Tidy(s) => Tidy(t) /\ \A c \in Calls : Kept(s, c) => Kept(t, c)

LEMMA DrawDraws ==
  ASSUME NEW s \in Screens, NEW t \in Draw(s)
  PROVE  Drawn(s, t)
<1>1. PICK u \in CommitOverflow(s) :
        t = [u EXCEPT !.live = TRUE, !.drawn = TRUE, !.frame = Frame(u, u.segments)]
  BY DEF Draw
<1>2. Moved(s, u)
  BY OverflowMoves
<1>3. u \in Screens /\ u.segments \in Seq(Segments)
  BY <1>2 DEF Moved, Screens
<1>4. Frame(u, u.segments) \in Seq(Pieces)
  BY <1>3, FrameParts
<1>5. /\ t \in Screens /\ t.segments = u.segments /\ t.runs = u.runs /\ t.scrolled = u.scrolled
      /\ t.live /\ t.frame = Frame(u, u.segments)
  BY <1>1, <1>3, <1>4 DEF Screens
<1>6. Frame(t, t.segments) = Frame(u, u.segments)
  BY <1>5, SameFrame
<1>7. Whole(t) = Whole(u)
  BY <1>5, <1>6 DEF Whole
<1>8. \A c \in Calls : Holds(t, c) <=> Holds(u, c)
  BY <1>5 DEF Holds
<1>9. Tidy(u) => Tidy(t)
  BY <1>5, <1>8 DEF Tidy
<1>10. \A c \in Calls : Kept(u, c) => Kept(t, c)
  BY <1>5, <1>8 DEF Kept
<1> QED
  BY <1>2, <1>5, <1>6, <1>7, <1>9, <1>10 DEF Drawn, Moved, Whole

\* What the renderer has shows every output that is there under its call.
LEMMA WholeShowsOutputs ==
  ASSUME NEW s \in Screens, NEW c \in Calls, Tidy(s), Kept(s, c), s.runs[c] = "done"
  PROVE  UnderItsCall(Whole(s), c)
<1>0. c # None
  BY ConversationAssumption
<1>1. /\ s.segments \in Seq(Segments) /\ s.scrolled \in Seq(Pieces)
      /\ Frame(s, s.segments) \in Seq(Pieces) /\ Len(s.segments) \in Nat
  <2>1. s.segments \in Seq(Segments) /\ s.scrolled \in Seq(Pieces)
    BY DEF Screens
  <2>2. Frame(s, s.segments) \in Seq(Pieces)
    BY <2>1, FrameParts
  <2>3. Len(s.segments) \in Nat
    BY <2>1
  <2> QED
    BY <2>1, <2>2, <2>3
<1>2. CASE ~Holds(s, c)
  <2>1. UnderItsCall(s.scrolled, c)
    BY <1>2 DEF Kept
  <2>2. \A j \in 1 .. Len(Frame(s, s.segments)) : Frame(s, s.segments)[j] # Output(c)
    BY <1>1, <1>2, FrameWithoutOutput DEF Holds
  <2> QED
    BY <1>1, <2>1, <2>2, UnderAppend DEF Whole
<1>3. CASE Holds(s, c)
  <2>1. PICK i \in 1 .. Len(s.segments) : s.segments[i].call = c
    BY <1>3 DEF Holds
  <2> DEFINE segments == s.segments
             n == Len(segments)
             a == SubSeq(segments, 1, i - 1)
             x == segments[i]
             b == SubSeq(segments, i + 1, n)
  <2>2. /\ a \in Seq(Segments) /\ Len(a) = i - 1 /\ \A j \in 1 .. i - 1 : a[j] = segments[j]
        /\ b \in Seq(Segments) /\ Len(b) = n - i /\ \A j \in 1 .. n - i : b[j] = segments[i + j]
        /\ x \in Segments /\ <<x>> \in Seq(Segments) /\ Len(<<x>>) = 1 /\ <<x>>[1] = x
    BY <1>1
  <2>3. /\ \A j \in 1 .. Len(a) : a[j].call # c
        /\ \A j \in 1 .. Len(b) : b[j].call # c
    <3>1. \A j \in 1 .. n : j # i => segments[j].call # c
      BY <1>0, <2>1 DEF Tidy
    <3> QED
      BY <1>1, <2>2, <3>1
  <2>4. segments = (a \o <<x>>) \o b
    <3> HIDE DEF a, b, x
    <3>1. /\ a \o <<x>> \in Seq(Segments) /\ Len(a \o <<x>>) = i
          /\ \A j \in 1 .. i : (a \o <<x>>)[j] = IF j <= i - 1 THEN a[j] ELSE x
      BY <2>2
    <3>2. /\ Len(segments) = Len(a \o <<x>>) + Len(b)
          /\ \A j \in 1 .. Len(a \o <<x>>) + Len(b) :
               segments[j] = IF j <= Len(a \o <<x>>) THEN (a \o <<x>>)[j]
                             ELSE b[j - Len(a \o <<x>>)]
      <4>1. n \in Nat /\ i \in 1 .. n /\ Len(a \o <<x>>) = i /\ Len(b) = n - i
        BY <1>1, <2>1, <2>2, <3>1
      <4>2. ASSUME NEW j \in 1 .. i + (n - i)
            PROVE  segments[j] = IF j <= i THEN (a \o <<x>>)[j] ELSE b[j - i]
        <5>1. CASE j < i
          <6>1. j \in 1 .. i - 1 /\ j \in 1 .. i
            BY <4>1, <5>1
          <6> QED
            BY <2>2, <3>1, <6>1
        <5>2. CASE j = i
          <6>1. j \in 1 .. i /\ ~(j <= i - 1) /\ j <= i
            BY <4>1, <5>2
          <6>2. (a \o <<x>>)[j] = x
            BY <3>1, <6>1
          <6>3. segments[j] = x
            BY <5>2 DEF x
          <6> QED
            BY <6>1, <6>2, <6>3
        <5>3. CASE j > i
          <6>1. j - i \in 1 .. n - i /\ i + (j - i) = j /\ ~(j <= i)
            BY <4>1, <5>3
          <6> QED
            BY <2>2, <6>1
        <5> QED
          BY <4>1, <5>1, <5>2, <5>3
      <4>3. n = i + (n - i) /\ n = Len(segments)
        BY <4>1
      <4> HIDE DEF segments, n
      <4> QED
        BY <4>1, <4>2, <4>3
    <3> QED
      BY <1>1, <2>2, <3>1, <3>2, Concatenated
  <2>5. Lines(s, x) = <<Call(c), Output(c)>>
    BY <1>0, <2>1, <2>2, LinesOfRun
  <2> HIDE DEF a, b, x
  <2>6. Frame(s, segments) = (Frame(s, a) \o <<Call(c), Output(c)>>) \o Frame(s, b)
    <3>1. a \o <<x>> \in Seq(Segments)
      BY <2>2
    <3>2. Frame(s, (a \o <<x>>) \o b) = Frame(s, a \o <<x>>) \o Frame(s, b)
      BY <2>2, <3>1, FrameConcat
    <3>3. Frame(s, a \o <<x>>) = Frame(s, a) \o Frame(s, <<x>>)
      BY <2>2, FrameConcat
    <3>4. Frame(s, <<x>>) = Lines(s, x)
      BY <2>2, FrameOne
    <3> QED
      BY <2>4, <2>5, <3>2, <3>3, <3>4
  <2>7. /\ \A j \in 1 .. Len(Frame(s, a)) : Frame(s, a)[j] # Output(c)
        /\ \A j \in 1 .. Len(Frame(s, b)) : Frame(s, b)[j] # Output(c)
        /\ \A j \in 1 .. Len(s.scrolled) : s.scrolled[j] # Output(c)
    BY <1>3, <2>2, <2>3, FrameWithoutOutput DEF Tidy
  <2>8. /\ Frame(s, a) \in Seq(Pieces) /\ Frame(s, b) \in Seq(Pieces)
        /\ <<Call(c), Output(c)>> \in Seq(Pieces)
    <3>1. Frame(s, a) \in Seq(Pieces) /\ Frame(s, b) \in Seq(Pieces)
      BY <2>2, FrameParts
    <3>2. Call(c) \in Pieces /\ Output(c) \in Pieces
      BY PieceTypes
    <3> QED
      BY <3>1, <3>2
  <2> DEFINE before == s.scrolled \o Frame(s, a)
             both == <<Call(c), Output(c)>>
  <2>9. before \in Seq(Pieces) /\ \A j \in 1 .. Len(before) : before[j] # Output(c)
    <3> HIDE DEF before
    <3>1. s.scrolled \in Seq(Pieces) /\ Frame(s, a) \in Seq(Pieces)
      BY <1>1, <2>8
    <3>2. /\ before \in Seq(Pieces) /\ Len(before) = Len(s.scrolled) + Len(Frame(s, a))
          /\ \A j \in 1 .. Len(s.scrolled) : before[j] = s.scrolled[j]
          /\ \A j \in 1 .. Len(Frame(s, a)) : before[Len(s.scrolled) + j] = Frame(s, a)[j]
      BY <3>1, Concat DEF before
    <3>3. ASSUME NEW j \in 1 .. Len(before)
          PROVE  before[j] # Output(c)
      <4>1. /\ Len(s.scrolled) \in Nat /\ Len(Frame(s, a)) \in Nat /\ j \in Nat
            /\ j <= Len(s.scrolled) + Len(Frame(s, a)) /\ j >= 1
        BY <3>1, <3>2
      <4>2. CASE j <= Len(s.scrolled)
        <5>1. j \in 1 .. Len(s.scrolled)
          BY <4>1, <4>2
        <5> QED
          BY <2>7, <3>2, <5>1
      <4>3. CASE ~(j <= Len(s.scrolled))
        <5>1. /\ j - Len(s.scrolled) \in 1 .. Len(Frame(s, a))
              /\ Len(s.scrolled) + (j - Len(s.scrolled)) = j
          BY <4>1, <4>3
        <5>2. before[j] = Frame(s, a)[j - Len(s.scrolled)]
          BY <3>2, <5>1
        <5> QED
          BY <2>7, <5>1, <5>2
      <4> QED
        BY <4>2, <4>3
    <3> QED
      BY <3>2, <3>3
  <2>10. UnderItsCall(before \o both, c) /\ before \o both \in Seq(Pieces)
    <3> HIDE DEF before
    <3>1. UnderItsCall(before \o both, c)
      BY <2>9, UnderNew
    <3>2. before \o both \in Seq(Pieces)
      BY <2>8, <2>9
    <3> QED
      BY <3>1, <3>2
  <2>11. UnderItsCall((before \o both) \o Frame(s, b), c)
    <3> HIDE DEF before, both
    <3> QED
      BY <2>7, <2>8, <2>10, UnderAppend
  <2>12. (before \o both) \o Frame(s, b) = Whole(s)
    <3>1. \A p, q, r \in Seq(Pieces) : (p \o q) \o r = p \o (q \o r)
      BY Associative
    <3>2. before \o both = s.scrolled \o (Frame(s, a) \o both)
      BY <1>1, <2>8, <3>1, Zenon
    <3>3. Frame(s, a) \o both \in Seq(Pieces)
      <4> HIDE DEF both
      <4> QED
        BY <2>8 DEF both
    <3>4. (s.scrolled \o (Frame(s, a) \o both)) \o Frame(s, b)
            = s.scrolled \o ((Frame(s, a) \o both) \o Frame(s, b))
      <4>1. s.scrolled \in Seq(Pieces) /\ Frame(s, b) \in Seq(Pieces)
        BY <1>1, <2>8
      <4> DEFINE m == Frame(s, a) \o both
      <4>2. m \in Seq(Pieces)
        BY <3>3
      <4> HIDE DEF m
      <4>3. (s.scrolled \o m) \o Frame(s, b) = s.scrolled \o (m \o Frame(s, b))
        BY <3>1, <4>1, <4>2, Zenon
      <4> QED
        BY <4>3 DEF m
    <3> QED
      BY <2>6, <3>2, <3>4 DEF Whole
  <2> QED
    BY <2>11, <2>12
<1> QED
  BY <1>2, <1>3

\* A live frame that is flushed stays on the screen, with all the renderer has.
LEMMA FlushShowsAll ==
  ASSUME NEW s \in Screens, NEW t \in FlushLive(s)
  PROVE  /\ t \in Screens /\ t.runs = s.runs /\ ~t.live
         /\ ~s.live => t = s
         /\ s.live => t.scrolled = Whole(s) /\ t.frame = <<>>
         /\ s.live /\ Tidy(s) => \A c \in Calls :
              Kept(s, c) /\ s.runs[c] = "done" => UnderItsCall(t.scrolled, c)
<1>1. CASE ~s.live
  BY <1>1 DEF FlushLive, Screens
<1>2. CASE s.live
  <2>1. PICK u \in Draw(s) : t = [u EXCEPT !.live = FALSE, !.frame = <<>>, !.scrolled = @ \o u.frame]
    BY <1>2 DEF FlushLive
  <2>2. Drawn(s, u)
    BY DrawDraws
  <2>3. u \in Screens /\ u.scrolled \o u.frame = Whole(s) /\ u.runs = s.runs
    BY <2>2 DEF Drawn
  <2>4. Whole(s) \in Seq(Pieces) /\ <<>> \in Seq(Pieces)
    <3>1. s.scrolled \in Seq(Pieces) /\ Frame(s, s.segments) \in Seq(Pieces)
      BY FrameParts DEF Screens
    <3> QED
      BY <3>1 DEF Whole
  <2>5. /\ t \in Screens /\ t.runs = s.runs /\ t.live = FALSE
        /\ t.scrolled = Whole(s) /\ t.frame = <<>>
    BY <2>1, <2>3, <2>4 DEF Screens
  <2> QED
    BY <1>2, <2>5, WholeShowsOutputs
<1>3. s.live \in BOOLEAN
  BY DEF Screens
<1> QED
  BY <1>1, <1>2, <1>3

LEMMA GiveUpFlushes ==
  ASSUME NEW s \in Screens, NEW t \in GiveUp(s)
  PROVE  t \in FlushLive(s)
<1>1. PICK u \in FlushLive(s) : t \in FlushLive(u)
  BY DEF GiveUp, ShowError, FinishResponse
<1>2. u \in Screens /\ ~u.live
  BY <1>1, FlushShowsAll
<1> QED
  BY <1>1, <1>2, FlushShowsAll

-----------------------------------------------------------------------------
(* The renderer's operations *)

\* The lines of a delta
LEMMA DeltaShown ==
  ASSUME NEW d \in Deltas, NEW shown, shown = [i \in DOMAIN d |-> Word(d[i])]
  PROVE  /\ shown \in Seq(Pieces) /\ Plain(shown) = shown /\ WordsOf(shown) = d
         /\ \A s : Lines(s, Text(d)) = shown
         /\ \A c \in Calls : \A j \in 1 .. Len(shown) : shown[j] # Output(c)
         /\ shown \in UNION {[1 .. n -> {Word(w) : w \in Words} \union {Call(c) : c \in Calls}] : n \in 1 .. 2}
<1>1. /\ d \in Seq(Words) /\ Len(d) \in 1 .. 2 /\ DOMAIN d = 1 .. Len(d)
      /\ d[1] \in Words /\ (Len(d) = 2 => d[2] \in Words)
  BY DeltaLength
<1>2. \A i \in 1 .. Len(d) : d[i] \in Words
  BY <1>1
<1>3. /\ shown = [i \in 1 .. Len(d) |-> Word(d[i])] /\ shown \in Seq(Pieces) /\ Len(shown) = Len(d)
  <2>1. shown = [i \in 1 .. Len(d) |-> Word(d[i])]
    BY <1>1
  <2>2. \A i \in 1 .. Len(d) : Word(d[i]) \in Pieces
    BY <1>2, PieceTypes
  <2> QED
    BY <1>1, <2>1, <2>2
<1>4. \A s : Lines(s, Text(d)) = shown
  BY <1>1, <1>3, LinesOfText
<1>5. \A c \in Calls : \A j \in 1 .. Len(shown) : shown[j] # Output(c)
  BY <1>2, <1>3, PieceTypes
<1>6. shown \in UNION {[1 .. n -> {Word(w) : w \in Words} \union {Call(c) : c \in Calls}] : n \in 1 .. 2}
  <2>1. \A i \in 1 .. Len(d) : Word(d[i]) \in {Word(w) : w \in Words} \union {Call(c) : c \in Calls}
    BY <1>2
  <2>2. shown \in [1 .. Len(d) -> {Word(w) : w \in Words} \union {Call(c) : c \in Calls}]
    BY <1>3, <2>1
  <2> QED
    BY <1>1, <2>2
<1> DEFINE p == Word(d[1])
           q == Word(d[2])
<1>7. /\ p \in Pieces /\ p.kind = "word" /\ p.of = d[1]
      /\ <<p>> \in Seq(Pieces) /\ Plain(<<p>>) = <<p>> /\ WordsOf(<<p>>) = <<d[1]>>
  <2>1. p \in Pieces /\ p.kind = "word" /\ p.of = d[1]
    BY <1>1, PieceTypes
  <2> HIDE DEF p
  <2>2. Plain(<<p>>) = <<p>> /\ WordsOf(<<p>>) = <<d[1]>>
    BY <2>1, PlainOne, WordsOne
  <2> QED
    BY <2>1, <2>2
<1>8. CASE Len(d) = 1
  <2>1. shown = <<p>> /\ d = <<d[1]>>
    BY <1>1, <1>3, <1>8
  <2> HIDE DEF p
  <2> QED
    BY <1>3, <1>4, <1>5, <1>6, <1>7, <2>1
<1>9. CASE Len(d) = 2
  <2>1. shown = <<p, q>> /\ d = <<d[1], d[2]>>
    BY <1>1, <1>3, <1>9
  <2>2. /\ q \in Pieces /\ q.kind = "word" /\ q.of = d[2]
    BY <1>1, <1>9, PieceTypes
  <2> HIDE DEF p, q
  <2>3. /\ <<q>> \in Seq(Pieces) /\ Plain(<<q>>) = <<q>> /\ WordsOf(<<q>>) = <<d[2]>>
    <3>1. Plain(<<q>>) = <<q>> /\ WordsOf(<<q>>) = <<d[2]>>
      BY <2>2, PlainOne, WordsOne
    <3> QED
      BY <2>2, <3>1
  <2>4. <<p, q>> = <<p>> \o <<q>> /\ <<d[1], d[2]>> = <<d[1]>> \o <<d[2]>>
    BY Pairs
  <2>5. Plain(<<p>> \o <<q>>) = <<p>> \o <<q>>
    BY <1>7, <2>3, PlainConcat
  <2>6. WordsOf(<<p>> \o <<q>>) = <<d[1]>> \o <<d[2]>>
    BY <1>7, <2>3, WordsConcat
  <2>7. Plain(shown) = shown /\ WordsOf(shown) = d
    BY <2>1, <2>4, <2>5, <2>6
  <2> QED
    BY <1>3, <1>4, <1>5, <1>6, <2>7
<1>10. Len(d) = 1 \/ Len(d) = 2
  BY <1>1
<1> QED
  BY <1>8, <1>9, <1>10

\* A screen that is drawn, or not if the last frame is not old: it has all that
\* it had, and shows all or what it showed before.
Refreshed(s, t) ==
  /\ t \in Screens /\ t.runs = s.runs /\ t.live /\ Whole(t) = Whole(s)
  /\ t.scrolled \o t.frame \in {s.scrolled \o s.frame, Whole(s)}
  /\ Tidy(s) => Tidy(t) /\ \A c \in Calls : Kept(s, c) => Kept(t, c)

LEMMA RefreshRefreshes ==
  ASSUME NEW s \in Screens, s.live \/ ~s.drawn
  PROVE  /\ \A t \in Refresh(s) : Refreshed(s, t)
         /\ \A t \in Draw(s) : Refreshed(s, t)
<1>1. \A t \in Draw(s) : Refreshed(s, t)
  BY DrawDraws DEF Drawn, Refreshed
<1>2. s.drawn => Refreshed(s, s)
  BY DEF Refreshed
<1> QED
  BY <1>1, <1>2 DEF Refresh

\* What an operation does to a screen that is drawn: more is there
Grows(s, t, more) ==
  /\ t \in Screens /\ t.live /\ Tidy(t)
  /\ Plain(Whole(t)) = Plain(Whole(s)) \o more
  /\ Plain(t.scrolled \o t.frame) \in {Plain(s.scrolled \o s.frame), Plain(Whole(t))}

LEMMA RefreshGrows ==
  ASSUME NEW s \in Screens, NEW u \in Screens, NEW t, NEW new \in Seq(Pieces),
         Refreshed(u, t), Tidy(u), u.scrolled = s.scrolled, u.frame = s.frame,
         Plain(Frame(u, u.segments)) = Plain(Frame(s, s.segments)) \o new
  PROVE  /\ Grows(s, t, new) /\ t.runs = u.runs
         /\ \A c \in Calls : Kept(u, c) => Kept(t, c)
<1>1. /\ s.scrolled \in Seq(Pieces) /\ s.segments \in Seq(Segments) /\ u.segments \in Seq(Segments)
  BY DEF Screens
<1>2. Frame(s, s.segments) \in Seq(Pieces) /\ Frame(u, u.segments) \in Seq(Pieces)
  BY <1>1, FrameParts
<1>3. Plain(Whole(s)) = Plain(s.scrolled) \o Plain(Frame(s, s.segments))
  BY <1>1, <1>2, PlainConcat DEF Whole
<1>4. Plain(Whole(u)) = Plain(s.scrolled) \o Plain(Frame(u, u.segments))
  BY <1>1, <1>2, PlainConcat DEF Whole
<1>5. Plain(s.scrolled) \in Seq(Pieces) /\ Plain(Frame(s, s.segments)) \in Seq(Pieces)
  BY <1>1, <1>2, PlainConcat
<1>6. Plain(s.scrolled) \o (Plain(Frame(s, s.segments)) \o new) = Plain(Whole(s)) \o new
  BY <1>3, <1>5, Associative
<1>7. Plain(Whole(u)) = Plain(Whole(s)) \o new
  BY <1>4, <1>6
<1> QED
  BY <1>7 DEF Refreshed, Grows

\* More text in the frame leaves the runs where they are.
LEMMA TextKeepsRuns ==
  ASSUME NEW s \in Screens, NEW u \in Screens, Tidy(s), u.runs = s.runs, u.scrolled = s.scrolled,
         Len(u.segments) >= Len(s.segments),
         \A i \in 1 .. Len(u.segments) :
           IF i <= Len(s.segments)
             THEN /\ u.segments[i].call = s.segments[i].call
                  /\ u.segments[i].call # None => u.segments[i].words = s.segments[i].words
             ELSE u.segments[i].call = None
  PROVE  Tidy(u) /\ \A c \in Calls : Kept(s, c) => Kept(u, c)
<1>1. Len(s.segments) \in Nat /\ Len(u.segments) \in Nat
  BY DEF Screens
<1>2. \A c \in Calls : c # None
  BY ConversationAssumption
<1>3. \A i \in 1 .. Len(u.segments) : u.segments[i].call # None => i \in 1 .. Len(s.segments)
  BY <1>1
<1>4. \A c \in Calls : Holds(s, c) <=> Holds(u, c)
  <2>1. ASSUME NEW c \in Calls, Holds(s, c)
        PROVE  Holds(u, c)
    <3>1. PICK i \in 1 .. Len(s.segments) : s.segments[i].call = c
      BY <2>1 DEF Holds
    <3>2. i \in 1 .. Len(u.segments) /\ i <= Len(s.segments)
      BY <1>1
    <3> QED
      BY <3>1, <3>2 DEF Holds
  <2>2. ASSUME NEW c \in Calls, Holds(u, c)
        PROVE  Holds(s, c)
    <3>1. PICK i \in 1 .. Len(u.segments) : u.segments[i].call = c
      BY <2>2 DEF Holds
    <3>2. i \in 1 .. Len(s.segments) /\ i <= Len(s.segments)
      BY <1>1, <1>2, <1>3, <3>1
    <3> QED
      BY <3>1, <3>2 DEF Holds
  <2> QED
    BY <2>1, <2>2
<1>5. \A i \in 1 .. Len(u.segments) : u.segments[i].call # None => u.segments[i].words = <<>>
  <2> TAKE i \in 1 .. Len(u.segments)
  <2> HAVE u.segments[i].call # None
  <2>1. i \in 1 .. Len(s.segments) /\ i <= Len(s.segments)
    BY <1>1, <1>3
  <2> QED
    BY <2>1 DEF Tidy
<1>6. \A i, j \in 1 .. Len(u.segments) :
        u.segments[i].call = u.segments[j].call /\ u.segments[i].call # None => i = j
  <2> TAKE i, j \in 1 .. Len(u.segments)
  <2> HAVE u.segments[i].call = u.segments[j].call /\ u.segments[i].call # None
  <2>1. i \in 1 .. Len(s.segments) /\ i <= Len(s.segments) /\ j \in 1 .. Len(s.segments) /\ j <= Len(s.segments)
    BY <1>1, <1>3
  <2>2. s.segments[i].call = s.segments[j].call /\ s.segments[i].call # None
    BY <2>1
  <2> QED
    BY <2>1, <2>2 DEF Tidy
<1>7. Tidy(u)
  BY <1>4, <1>5, <1>6 DEF Tidy
<1> QED
  BY <1>4, <1>7 DEF Kept

\* OnAssistant in a terminal: the text is in the frame, joined to the text before.
LEMMA TerminalText ==
  ASSUME NEW s \in Screens, terminal, s.live \/ ~s.drawn, Tidy(s),
         NEW d \in Deltas, NEW t \in OnAssistant(s, d),
         NEW shown, shown = [i \in DOMAIN d |-> Word(d[i])]
  PROVE  Grows(s, t, shown) /\ t.runs = s.runs /\ \A c \in Calls : Kept(s, c) => Kept(t, c)
<1> DEFINE n == Len(s.segments)
           x == s.segments[n]
<1>1. /\ d \in Seq(Words) /\ shown \in Seq(Pieces) /\ Plain(shown) = shown
      /\ \A v : Lines(v, Text(d)) = shown
  BY DeltaLength, DeltaShown
<1>2. /\ s.segments \in Seq(Segments) /\ s.scrolled \in Seq(Pieces) /\ n \in Nat
      /\ Frame(s, s.segments) \in Seq(Pieces)
  <2>1. s.segments \in Seq(Segments) /\ s.scrolled \in Seq(Pieces) /\ n \in Nat
    BY DEF Screens
  <2> QED
    BY <2>1, FrameParts
<1>3. SUFFICES \E u \in Screens :
        /\ t \in Refresh(u) /\ u.live = s.live /\ u.drawn = s.drawn /\ u.runs = s.runs
        /\ u.scrolled = s.scrolled /\ u.frame = s.frame /\ Tidy(u)
        /\ Frame(u, u.segments) = Frame(s, s.segments) \o shown
        /\ \A c \in Calls : Kept(s, c) => Kept(u, c)
  <2>1. PICK u \in Screens :
          /\ t \in Refresh(u) /\ u.live = s.live /\ u.drawn = s.drawn /\ u.runs = s.runs
          /\ u.scrolled = s.scrolled /\ u.frame = s.frame /\ Tidy(u)
          /\ Frame(u, u.segments) = Frame(s, s.segments) \o shown
          /\ \A c \in Calls : Kept(s, c) => Kept(u, c)
    BY <1>3
  <2>2. Refreshed(u, t)
    <3>1. u.live \/ ~u.drawn
      BY <2>1
    <3> QED
      BY <2>1, <3>1, RefreshRefreshes
  <2>3. Plain(Frame(u, u.segments)) = Plain(Frame(s, s.segments)) \o shown
    BY <1>1, <1>2, <2>1, PlainConcat
  <2>4. Grows(s, t, shown) /\ t.runs = u.runs /\ \A c \in Calls : Kept(u, c) => Kept(t, c)
    BY <1>1, <2>1, <2>2, <2>3, RefreshGrows
  <2> QED
    BY <2>1, <2>4
<1>4. CASE s.segments # <<>> /\ x.call = None
  <2> DEFINE words == x.words \o d
             front == SubSeq(s.segments, 1, n - 1)
             u == [s EXCEPT !.segments[n].words = @ \o d]
  <2>1. n \in 1 .. n /\ x \in Segments
    BY <1>2, <1>4
  <2>2. x = Text(x.words) /\ x.words \in Seq(Words) /\ words \in Seq(Words) /\ Text(words) \in Segments
    <3>1. x = Text(x.words) /\ x.words \in Seq(Words)
      BY <1>4, <2>1, SegmentIsText
    <3>2. words \in Seq(Words)
      BY <1>1, <3>1
    <3> QED
      BY <3>1, <3>2 DEF Text, Segments
  <2>3. /\ front \in Seq(Segments) /\ Len(front) = n - 1
        /\ \A i \in 1 .. n - 1 : front[i] = s.segments[i]
    BY <1>2, <2>1
  <2>4. t \in Refresh(u)
    <3>1. s.segments # <<>> /\ IsText(Last(s.segments))
      BY <1>4 DEF Last, IsText
    <3> QED
      BY <3>1 DEF OnAssistant
  <2>5. u = [s EXCEPT !.segments = [s.segments EXCEPT ![n] = Text(words)]]
    <3>1. \A y \in Segments : \A w : y.call = None => [y EXCEPT !.words = w] = Text(w)
      BY DEF Segments, Text
    <3>2. [x EXCEPT !.words = @ \o d] = Text(words)
      BY <1>4, <2>1, <3>1
    <3> QED
      BY <3>2 DEF Screens
  <2>6. [s.segments EXCEPT ![n] = Text(words)] \in Seq(Segments)
    <3> HIDE DEF words
    <3> QED
      BY <1>2, <2>1, <2>2
  <2>7. /\ u \in Screens /\ u.live = s.live /\ u.drawn = s.drawn /\ u.runs = s.runs
        /\ u.scrolled = s.scrolled /\ u.frame = s.frame
        /\ u.segments = [s.segments EXCEPT ![n] = Text(words)]
    <3> HIDE DEF u, words
    <3> QED
      BY <2>5, <2>6 DEF Screens
  <2> HIDE DEF u, words, front
  <2>8. /\ s.segments = front \o <<x>> /\ u.segments = front \o <<Text(words)>>
        /\ <<x>> \in Seq(Segments) /\ <<Text(words)>> \in Seq(Segments)
    <3>1. /\ <<x>> \in Seq(Segments) /\ Len(<<x>>) = 1 /\ <<x>>[1] = x
          /\ <<Text(words)>> \in Seq(Segments) /\ Len(<<Text(words)>>) = 1
          /\ <<Text(words)>>[1] = Text(words)
      BY <2>1, <2>2
    <3>2. n - 1 \in Nat /\ n = (n - 1) + 1
      BY <1>2, <2>1
    <3>3. s.segments = Append(front, x)
      BY <1>2, <3>2, Ends DEF front
    <3>4. /\ u.segments \in Seq(Segments) /\ Len(u.segments) = n /\ u.segments[n] = Text(words)
          /\ \A i \in 1 .. n - 1 : u.segments[i] = s.segments[i]
      BY <1>2, <2>1, <2>6, <2>7
    <3>5. u.segments = Append(SubSeq(u.segments, 1, n - 1), Text(words))
      <4> HIDE DEF n
      <4> QED
        BY <3>2, <3>4, Ends
    <3>6. /\ SubSeq(u.segments, 1, n - 1) \in Seq(Segments) /\ Len(SubSeq(u.segments, 1, n - 1)) = n - 1
          /\ \A i \in 1 .. n - 1 : SubSeq(u.segments, 1, n - 1)[i] = u.segments[i]
      <4> HIDE DEF n
      <4> QED
        BY <3>2, <3>4
    <3>7. SubSeq(u.segments, 1, n - 1) = front
      <4> DEFINE first == SubSeq(u.segments, 1, n - 1)
      <4>1. first \in Seq(Segments) /\ Len(first) = Len(front)
        BY <2>3, <3>6
      <4>2. \A i \in 1 .. Len(first) : first[i] = front[i]
        BY <2>3, <3>4, <3>6
      <4> HIDE DEF first
      <4>3. first = front
        BY <2>3, <4>1, <4>2
      <4> QED
        BY <4>3 DEF first
    <3>8. \A e \in Segments : Append(front, e) = front \o <<e>>
      BY <2>3
    <3> QED
      BY <2>1, <2>2, <3>1, <3>3, <3>5, <3>7, <3>8
  <2>9. Lines(s, Text(words)) = Lines(s, x) \o shown
    <3>1. /\ Lines(s, x) \in Seq(Pieces) /\ Len(Lines(s, x)) = Len(x.words)
          /\ Lines(s, x) = [i \in 1 .. Len(x.words) |-> Word(x.words[i])]
      BY <2>2, LinesOfText
    <3>2. /\ Lines(s, Text(words)) \in Seq(Pieces) /\ Len(Lines(s, Text(words))) = Len(words)
          /\ Lines(s, Text(words)) = [i \in 1 .. Len(words) |-> Word(words[i])]
      BY <2>2, LinesOfText
    <3>3. /\ Len(words) = Len(x.words) + Len(d)
          /\ \A i \in 1 .. Len(x.words) + Len(d) :
               words[i] = IF i <= Len(x.words) THEN x.words[i] ELSE d[i - Len(x.words)]
      BY <1>1, <2>2, Concat DEF words
    <3>4. Len(shown) = Len(d) /\ Len(d) \in Nat /\ \A i \in 1 .. Len(d) : shown[i] = Word(d[i])
      BY <1>1
    <3>5. Len(x.words) \in Nat
      BY <2>2
    <3> DEFINE m == Len(x.words)
    <3> HIDE DEF m, x
    <3>6. ASSUME NEW i \in 1 .. m + Len(d)
          PROVE  Lines(s, Text(words))[i] = IF i <= m THEN Lines(s, x)[i] ELSE shown[i - m]
      <4>1. Lines(s, Text(words))[i] = Word(words[i])
        BY <3>2, <3>3 DEF m
      <4>2. CASE i <= m
        <5>1. i \in 1 .. m
          BY <3>4, <3>5, <4>2 DEF m
        <5> QED
          BY <3>1, <3>3, <4>1, <4>2, <5>1 DEF m
      <4>3. CASE ~(i <= m)
        <5>1. i - m \in 1 .. Len(d)
          BY <3>4, <3>5, <4>3 DEF m
        <5> QED
          BY <3>3, <3>4, <4>1, <4>3, <5>1 DEF m
      <4> QED
        BY <4>2, <4>3
    <3>7. /\ Len(Lines(s, Text(words))) = Len(Lines(s, x)) + Len(shown)
          /\ \A i \in 1 .. Len(Lines(s, x)) + Len(shown) :
               Lines(s, Text(words))[i] = IF i <= Len(Lines(s, x)) THEN Lines(s, x)[i]
                                          ELSE shown[i - Len(Lines(s, x))]
      BY <3>1, <3>2, <3>3, <3>4, <3>6 DEF m
    <3> QED
      BY <1>1, <3>1, <3>2, <3>7, Concatenated
  <2>10. Frame(u, u.segments) = Frame(s, s.segments) \o shown
    <3>1. Frame(u, u.segments) = Frame(s, u.segments)
      BY <2>7, SameFrame
    <3>2. Frame(s, u.segments) = Frame(s, front) \o Lines(s, Text(words))
      <4>1. Frame(s, front \o <<Text(words)>>) = Frame(s, front) \o Frame(s, <<Text(words)>>)
        BY <2>3, <2>8, FrameConcat
      <4>2. Frame(s, <<Text(words)>>) = Lines(s, Text(words))
        BY <2>2, FrameOne
      <4> QED
        BY <2>8, <4>1, <4>2
    <3>3. Frame(s, s.segments) = Frame(s, front) \o Lines(s, x)
      <4>1. Frame(s, front \o <<x>>) = Frame(s, front) \o Frame(s, <<x>>)
        BY <2>3, <2>8, FrameConcat
      <4>2. Frame(s, <<x>>) = Lines(s, x)
        BY <2>1, FrameOne
      <4> QED
        BY <2>8, <4>1, <4>2
    <3>4. Frame(s, front) \in Seq(Pieces) /\ Lines(s, x) \in Seq(Pieces)
      BY <2>1, <2>3, FrameParts, LinesType
    <3>5. (Frame(s, front) \o Lines(s, x)) \o shown = Frame(s, front) \o (Lines(s, x) \o shown)
      <4>1. Frame(s, front) \in Seq(Pieces) /\ Lines(s, x) \in Seq(Pieces) /\ shown \in Seq(Pieces)
        BY <1>1, <3>4
      <4>2. \A p, q, r \in Seq(Pieces) : (p \o q) \o r = p \o (q \o r)
        BY Regroup
      <4> HIDE DEF x, front
      <4> QED
        BY <4>1, <4>2, Zenon
    <3> QED
      BY <2>9, <3>1, <3>2, <3>3, <3>5
  <2>11. Tidy(u) /\ \A c \in Calls : Kept(s, c) => Kept(u, c)
    <3>1. /\ Len(u.segments) = n /\ u.segments[n].call = x.call /\ x.call = None
          /\ \A i \in 1 .. n : i # n => u.segments[i] = s.segments[i]
      BY <1>2, <1>4, <2>1, <2>7 DEF Text
    <3>2. \A i \in 1 .. Len(u.segments) :
            IF i <= Len(s.segments)
              THEN /\ u.segments[i].call = s.segments[i].call
                   /\ u.segments[i].call # None => u.segments[i].words = s.segments[i].words
              ELSE u.segments[i].call = None
      BY <1>2, <3>1
    <3>3. Len(u.segments) >= Len(s.segments)
      BY <1>2, <3>1
    <3> QED
      BY <2>7, <3>2, <3>3, TextKeepsRuns
  <2> QED
    BY <2>4, <2>7, <2>10, <2>11
<1>5. CASE ~(s.segments # <<>> /\ x.call = None)
  <2> DEFINE u == [s EXCEPT !.segments = Append(@, Text(d))]
  <2>1. t \in Refresh(u)
    <3>1. ~(s.segments # <<>> /\ IsText(Last(s.segments)))
      BY <1>5 DEF Last, IsText
    <3> QED
      BY <3>1 DEF OnAssistant
  <2>2. Text(d) \in Segments /\ Text(d).call = None /\ <<Text(d)>> \in Seq(Segments)
    BY <1>1 DEF Text, Segments
  <2>3. /\ Append(s.segments, Text(d)) \in Seq(Segments)
        /\ Append(s.segments, Text(d)) = s.segments \o <<Text(d)>>
        /\ Len(Append(s.segments, Text(d))) = n + 1 /\ Append(s.segments, Text(d))[n + 1] = Text(d)
        /\ \A i \in 1 .. n : Append(s.segments, Text(d))[i] = s.segments[i]
    BY <1>2, <2>2
  <2>4. /\ u \in Screens /\ u.live = s.live /\ u.drawn = s.drawn /\ u.runs = s.runs
        /\ u.scrolled = s.scrolled /\ u.frame = s.frame
        /\ u.segments = Append(s.segments, Text(d))
    BY <2>3 DEF Screens
  <2> HIDE DEF u
  <2>5. Frame(u, u.segments) = Frame(s, s.segments) \o shown
    <3>1. Frame(u, u.segments) = Frame(s, u.segments)
      BY <2>4, SameFrame
    <3>2. Frame(s, s.segments \o <<Text(d)>>) = Frame(s, s.segments) \o Frame(s, <<Text(d)>>)
      BY <1>2, <2>2, FrameConcat
    <3>3. Frame(s, <<Text(d)>>) = shown
      BY <1>1, <2>2, FrameOne
    <3> QED
      BY <2>3, <2>4, <3>1, <3>2, <3>3
  <2>6. Tidy(u) /\ \A c \in Calls : Kept(s, c) => Kept(u, c)
    <3>1. \A i \in 1 .. Len(u.segments) :
            IF i <= Len(s.segments)
              THEN /\ u.segments[i].call = s.segments[i].call
                   /\ u.segments[i].call # None => u.segments[i].words = s.segments[i].words
              ELSE u.segments[i].call = None
      <4>1. ASSUME NEW i \in 1 .. Len(u.segments)
            PROVE  i \in 1 .. n \/ (i = n + 1 /\ ~(i <= n))
        BY <1>2, <2>3, <2>4
      <4> QED
        BY <1>2, <2>2, <2>3, <2>4, <4>1
    <3>2. Len(u.segments) >= Len(s.segments)
      BY <1>2, <2>3, <2>4
    <3> QED
      BY <2>4, <3>1, <3>2, TextKeepsRuns
  <2> QED
    BY <2>1, <2>4, <2>5, <2>6
<1> QED
  BY <1>4, <1>5

LEMMA Appended ==
  ASSUME NEW S, NEW q \in Seq(S), NEW e \in S
  PROVE  /\ Append(q, e) \in Seq(S) /\ Append(q, e) = q \o <<e>>
         /\ Len(Append(q, e)) = Len(q) + 1 /\ Append(q, e)[Len(q) + 1] = e
         /\ \A i \in 1 .. Len(q) : Append(q, e)[i] = q[i]
OBVIOUS

\* OnToolCall in a terminal
LEMMA TerminalCall ==
  ASSUME NEW s \in Screens, terminal, s.live \/ ~s.drawn, Tidy(s),
         NEW c \in Calls, s.runs[c] = None, NEW t \in OnToolCall(s, c)
  PROVE  /\ Grows(s, t, <<Call(c)>>) /\ t.runs = [s.runs EXCEPT ![c] = "running"]
         /\ \A d \in Calls : Kept(s, d) => Kept(t, d)
<1> DEFINE u == [s EXCEPT !.runs[c] = "running", !.segments = Append(@, Run(c))]
           n == Len(s.segments)
<1>1. t \in Draw(u)
  BY DEF OnToolCall
<1>2. /\ s.segments \in Seq(Segments) /\ s.scrolled \in Seq(Pieces) /\ n \in Nat
      /\ s.runs \in [Calls -> {None, "running", "done"}] /\ c # None
  BY ConversationAssumption DEF Screens
<1>3. Run(c) \in Segments /\ Run(c).call = c /\ Run(c).words = <<>> /\ <<Run(c)>> \in Seq(Segments)
  BY DEF Run, Segments
<1>4. /\ Append(s.segments, Run(c)) \in Seq(Segments)
      /\ Append(s.segments, Run(c)) = s.segments \o <<Run(c)>>
      /\ Len(Append(s.segments, Run(c))) = n + 1 /\ Append(s.segments, Run(c))[n + 1] = Run(c)
      /\ \A i \in 1 .. n : Append(s.segments, Run(c))[i] = s.segments[i]
  <2>1. s.segments \in Seq(Segments) /\ Run(c) \in Segments
    BY <1>2, <1>3
  <2> QED
    BY <2>1, Appended
<1>5. /\ u \in Screens /\ u.live = s.live /\ u.drawn = s.drawn
      /\ u.runs = [s.runs EXCEPT ![c] = "running"]
      /\ u.scrolled = s.scrolled /\ u.frame = s.frame
      /\ u.segments = Append(s.segments, Run(c))
  <2>1. [s.runs EXCEPT ![c] = "running"] \in [Calls -> {None, "running", "done"}]
    BY <1>2
  <2> QED
    BY <1>4, <2>1 DEF Screens
<1> HIDE DEF u
<1>6. /\ u.runs[c] = "running" /\ \A d \in Calls \ {c} : u.runs[d] = s.runs[d]
  BY <1>2, <1>5
<1>7. \A i \in 1 .. Len(u.segments) :
        (i \in 1 .. n /\ u.segments[i] = s.segments[i]) \/ (i = n + 1 /\ u.segments[i] = Run(c))
  <2>1. Len(u.segments) = n + 1 /\ \A i \in 1 .. n + 1 : i \in 1 .. n \/ i = n + 1
    BY <1>2, <1>4, <1>5
  <2> QED
    BY <1>4, <1>5, <2>1
<1>8. ~Holds(s, c)
  BY DEF Tidy
<1>9. Holds(u, c) /\ \A d \in Calls \ {c} : Holds(s, d) <=> Holds(u, d)
  <2>1. n + 1 \in 1 .. Len(u.segments) /\ u.segments[n + 1].call = c
    BY <1>2, <1>3, <1>4, <1>5
  <2>2. ASSUME NEW d \in Calls \ {c}, Holds(s, d)
        PROVE  Holds(u, d)
    <3>1. PICK i \in 1 .. Len(s.segments) : s.segments[i].call = d
      BY <2>2 DEF Holds
    <3>2. i \in 1 .. Len(u.segments) /\ u.segments[i] = s.segments[i]
      BY <1>2, <1>4, <1>5
    <3> QED
      BY <3>1, <3>2 DEF Holds
  <2>3. ASSUME NEW d \in Calls \ {c}, Holds(u, d)
        PROVE  Holds(s, d)
    <3>1. PICK i \in 1 .. Len(u.segments) : u.segments[i].call = d
      BY <2>3 DEF Holds
    <3>2. i \in 1 .. n /\ u.segments[i] = s.segments[i]
      BY <1>3, <1>7, <2>3, <3>1
    <3> QED
      BY <3>1, <3>2 DEF Holds
  <2> QED
    BY <2>1, <2>2, <2>3 DEF Holds
<1>10. Tidy(u)
  <2>1. \A i \in 1 .. Len(u.segments) : u.segments[i].call # None => u.segments[i].words = <<>>
    BY <1>3, <1>7 DEF Tidy
  <2>2. \A i \in 1 .. n : s.segments[i].call # c
    BY <1>8 DEF Holds
  <2>3. ASSUME NEW i \in 1 .. Len(u.segments), NEW j \in 1 .. Len(u.segments),
               u.segments[i].call = u.segments[j].call, u.segments[i].call # None
        PROVE  i = j
    <3>1. CASE i = n + 1 \/ j = n + 1
      <4>1. (i = n + 1 <=> u.segments[i].call = c) /\ (j = n + 1 <=> u.segments[j].call = c)
        <5>1. ~(n + 1 \in 1 .. n)
          BY <1>2
        <5> QED
          BY <1>3, <1>7, <2>2, <5>1
      <4> QED
        BY <2>3, <3>1, <4>1
    <3>2. CASE i # n + 1 /\ j # n + 1
      BY <1>7, <2>3, <3>2 DEF Tidy
    <3> QED
      BY <3>1, <3>2
  <2>4. ASSUME NEW d \in Calls
        PROVE  /\ u.runs[d] = None => ~Holds(u, d)
               /\ u.runs[d] # "done" \/ Holds(u, d) =>
                    \A i \in 1 .. Len(u.scrolled) : u.scrolled[i] # Output(d)
    <3>1. CASE d = c
      <4>1. s.runs[c] # "done" /\ u.runs[c] # None
        BY <1>6, ConversationAssumption
      <4> QED
        BY <1>5, <3>1, <4>1 DEF Tidy
    <3>2. CASE d # c
      BY <1>5, <1>6, <1>9, <3>2 DEF Tidy
    <3> QED
      BY <3>1, <3>2
  <2> QED
    BY <2>1, <2>3, <2>4 DEF Tidy
<1>11. \A d \in Calls : Kept(s, d) => Kept(u, d)
  <2>1. Kept(u, c)
    BY <1>6 DEF Kept
  <2>2. \A d \in Calls \ {c} : Kept(s, d) => Kept(u, d)
    BY <1>5, <1>6, <1>9 DEF Kept
  <2> QED
    BY <2>1, <2>2
<1>12. Plain(Frame(u, u.segments)) = Plain(Frame(s, s.segments)) \o <<Call(c)>> /\ <<Call(c)>> \in Seq(Pieces)
  <2>1. Frame(u, u.segments) = Frame(u, s.segments) \o Frame(u, <<Run(c)>>)
    <3>1. Frame(u, s.segments \o <<Run(c)>>) = Frame(u, s.segments) \o Frame(u, <<Run(c)>>)
      BY <1>2, <1>3, <1>5, FrameConcat
    <3> QED
      BY <1>4, <1>5, <3>1
  <2>2. Frame(u, <<Run(c)>>) = <<Call(c)>>
    <3>1. Frame(u, <<Run(c)>>) = Lines(u, Run(c))
      BY <1>3, <1>5, FrameOne
    <3> QED
      BY <1>2, <1>3, <1>5, <1>6, <3>1, LinesOfRun
  <2>3. Call(c) \in Pieces /\ Call(c).kind = "call"
    BY PieceTypes
  <2>4. <<Call(c)>> \in Seq(Pieces) /\ Plain(<<Call(c)>>) = <<Call(c)>>
    <3>1. Plain(<<Call(c)>>) = <<Call(c)>>
      BY <2>3, PlainOne
    <3> QED
      BY <2>3, <3>1
  <2>5. Frame(u, s.segments) \in Seq(Pieces)
    BY <1>2, <1>5, FrameParts
  <2>6. Plain(Frame(u, s.segments) \o <<Call(c)>>) = Plain(Frame(u, s.segments)) \o <<Call(c)>>
    BY <2>4, <2>5, PlainConcat
  <2>7. Plain(Frame(u, s.segments)) = Plain(Frame(s, s.segments))
    BY <1>2, <1>5, PlainFrame
  <2> QED
    BY <2>1, <2>2, <2>4, <2>6, <2>7
<1>13. Refreshed(u, t)
  <2>1. u.live \/ ~u.drawn
    BY <1>5
  <2> QED
    BY <1>1, <1>5, <2>1, RefreshRefreshes
<1>14. Grows(s, t, <<Call(c)>>) /\ t.runs = u.runs /\ \A d \in Calls : Kept(u, d) => Kept(t, d)
  BY <1>5, <1>10, <1>12, <1>13, RefreshGrows
<1> QED
  BY <1>5, <1>11, <1>14

\* OnToolOutput in a terminal: the output is under its call, if that is in the
\* frame.
LEMMA TerminalOutput ==
  ASSUME NEW s \in Screens, terminal, s.live \/ ~s.drawn, Tidy(s),
         NEW c \in Calls, s.runs[c] = "running", NEW t \in OnToolOutput(s, c)
  PROVE  /\ Grows(s, t, <<>>) /\ t.runs = [s.runs EXCEPT ![c] = "done"]
         /\ \A d \in Calls : Kept(s, d) /\ (d = c => Holds(s, c)) => Kept(t, d)
<1> DEFINE u == [s EXCEPT !.runs[c] = "done"]
<1>1. t \in Draw(u)
  BY DEF OnToolOutput
<1>2. /\ s.segments \in Seq(Segments) /\ s.scrolled \in Seq(Pieces)
      /\ s.runs \in [Calls -> {None, "running", "done"}]
  BY DEF Screens
<1>3. /\ u \in Screens /\ u.live = s.live /\ u.drawn = s.drawn
      /\ u.runs = [s.runs EXCEPT ![c] = "done"]
      /\ u.scrolled = s.scrolled /\ u.frame = s.frame /\ u.segments = s.segments
  <2>1. [s.runs EXCEPT ![c] = "done"] \in [Calls -> {None, "running", "done"}]
    BY <1>2
  <2> QED
    BY <2>1 DEF Screens
<1> HIDE DEF u
<1>4. /\ u.runs[c] = "done" /\ \A d \in Calls \ {c} : u.runs[d] = s.runs[d]
  BY <1>2, <1>3
<1>5. \A d \in Calls : Holds(s, d) <=> Holds(u, d)
  BY <1>3 DEF Holds
<1>6. Tidy(u)
  <2>1. /\ \A i \in 1 .. Len(u.segments) : u.segments[i].call # None => u.segments[i].words = <<>>
        /\ \A i, j \in 1 .. Len(u.segments) :
             u.segments[i].call = u.segments[j].call /\ u.segments[i].call # None => i = j
    BY <1>3 DEF Tidy
  <2>2. ASSUME NEW d \in Calls
        PROVE  /\ u.runs[d] = None => ~Holds(u, d)
               /\ u.runs[d] # "done" \/ Holds(u, d) =>
                    \A i \in 1 .. Len(u.scrolled) : u.scrolled[i] # Output(d)
    <3>1. CASE d = c
      <4>1. u.runs[c] # None /\ s.runs[c] # "done"
        BY <1>4, ConversationAssumption
      <4> QED
        BY <1>3, <3>1, <4>1 DEF Tidy
    <3>2. CASE d # c
      BY <1>3, <1>4, <1>5, <3>2 DEF Tidy
    <3> QED
      BY <3>1, <3>2
  <2> QED
    BY <2>1, <2>2 DEF Tidy
<1>7. \A d \in Calls : Kept(s, d) /\ (d = c => Holds(s, c)) => Kept(u, d)
  BY <1>3, <1>4, <1>5 DEF Kept
<1>8. Plain(Frame(u, u.segments)) = Plain(Frame(s, s.segments)) \o <<>> /\ <<>> \in Seq(Pieces)
  <2>1. Plain(Frame(u, s.segments)) = Plain(Frame(s, s.segments))
    BY <1>2, <1>3, PlainFrame
  <2>2. Frame(s, s.segments) \in Seq(Pieces) /\ <<>> \in Seq(Pieces)
    <3>1. Frame(s, s.segments) \in Seq(Pieces)
      BY <1>2, FrameParts
    <3> QED
      BY <3>1
  <2>3. Plain(Frame(s, s.segments)) \in Seq(Pieces)
    BY <2>2, PlainConcat
  <2> QED
    BY <1>3, <2>1, <2>2, <2>3, Concat
<1>9. Refreshed(u, t)
  <2>1. u.live \/ ~u.drawn
    BY <1>3
  <2> QED
    BY <1>1, <1>3, <2>1, RefreshRefreshes
<1>10. Grows(s, t, <<>>) /\ t.runs = u.runs /\ \A d \in Calls : Kept(u, d) => Kept(t, d)
  BY <1>3, <1>6, <1>8, <1>9, RefreshGrows
<1> QED
  BY <1>3, <1>7, <1>10

-----------------------------------------------------------------------------
(* The wire *)

LEMMA EventTypes ==
  /\ \A d \in Deltas : Event("assistant", d) \in Events
  /\ \A c \in Calls : /\ Event("tool_call", c) \in Events /\ Event("tool_output", c) \in Events
                      /\ Event("approval_required", c) \in Events
  /\ Event("usage", None) \in Events /\ Event("end", None) \in Events
  /\ Event("error", None) \in Events /\ Event("broken", None) \in Events
  /\ \A type, of : Event(type, of).type = type /\ Event(type, of).of = of
  /\ \A e \in Events : /\ e = Event(e.type, e.of)
                       /\ e.type \in {"tool_call", "tool_output", "approval_required"} => e.of \in Calls
                       /\ e.type = "assistant" => e.of \in Deltas
<1>1. \A d \in Deltas : Event("assistant", d) \in Events
  BY DEF Events
<1>2. \A c \in Calls : /\ Event("tool_call", c) \in Events /\ Event("tool_output", c) \in Events
                       /\ Event("approval_required", c) \in Events
  BY DEF Events
<1>3. /\ Event("usage", None) \in Events /\ Event("end", None) \in Events
      /\ Event("error", None) \in Events /\ Event("broken", None) \in Events
  BY DEF Events
<1>4. \A type, of : Event(type, of).type = type /\ Event(type, of).of = of
  BY DEF Event
<1>5. ASSUME NEW e \in Events
      PROVE  /\ e = Event(e.type, e.of)
             /\ e.type \in {"tool_call", "tool_output", "approval_required"} => e.of \in Calls
             /\ e.type = "assistant" => e.of \in Deltas
  <2>1. CASE \E d \in Deltas : e = Event("assistant", d)
    BY <1>4, <2>1
  <2>2. CASE \E type \in {"tool_call", "tool_output", "approval_required"}, c \in Calls : e = Event(type, c)
    BY <1>4, <2>2
  <2>3. CASE \E type \in {"usage", "end", "error", "broken"} : e = Event(type, None)
    BY <1>4, <2>3
  <2> QED
    BY <2>1, <2>2, <2>3 DEF Events
<1> QED
  BY <1>1, <1>2, <1>3, <1>4, <1>5

\* What a connection has after Send
LEMMA Sent ==
  ASSUME Types, NEW events \in Seq(Events), Send(events)
  PROVE  LET k == Connection
             n == Len(wire[k])
         IN  /\ wire' \in [{"outer", "inner"} -> Seq(Events)] /\ k \in {"outer", "inner"}
             /\ \A h \in {"outer", "inner"} : h # k => wire'[h] = wire[h]
             /\ wire'[k] = wire[k] \o events /\ wire[k] \in Seq(Events)
             /\ n \in Nat /\ Len(events) \in Nat /\ Len(wire'[k]) = n + Len(events)
             /\ \A i \in 1 .. n : wire'[k][i] = wire[k][i]
             /\ \A i \in 1 .. Len(events) : wire'[k][n + i] = events[i]
             /\ \A i \in 1 .. n + Len(events) : i \in 1 .. n \/ \E j \in 1 .. Len(events) : i = n + j
<1> DEFINE k == Connection
           n == Len(wire[k])
<1>1. k \in {"outer", "inner"}
  BY DEF Connection
<1> HIDE DEF k
<1>2. wire \in [{"outer", "inner"} -> Seq(Events)] /\ wire[k] \in Seq(Events)
  BY <1>1 DEF Types
<1>3. wire' = [wire EXCEPT ![k] = wire[k] \o events]
  BY DEF Send, k
<1>4. /\ wire[k] \o events \in Seq(Events) /\ Len(wire[k] \o events) = n + Len(events)
      /\ \A i \in 1 .. n + Len(events) :
           (wire[k] \o events)[i] = IF i <= n THEN wire[k][i] ELSE events[i - n]
  BY <1>2, Concat
<1>5. n \in Nat /\ Len(events) \in Nat
  BY <1>2
<1>6. /\ wire'[k] = wire[k] \o events /\ wire' \in [{"outer", "inner"} -> Seq(Events)]
      /\ \A h \in {"outer", "inner"} : h # k => wire'[h] = wire[h]
  BY <1>1, <1>2, <1>3, <1>4
<1> HIDE DEF n
<1>7. \A i \in 1 .. n : wire'[k][i] = wire[k][i]
  <2>1. \A i \in 1 .. n : i \in 1 .. n + Len(events) /\ i <= n
    BY <1>5
  <2> QED
    BY <1>4, <1>6, <2>1
<1>8. \A i \in 1 .. Len(events) : wire'[k][n + i] = events[i]
  <2>1. \A i \in 1 .. Len(events) : n + i \in 1 .. n + Len(events) /\ ~(n + i <= n) /\ (n + i) - n = i
    BY <1>5
  <2> QED
    BY <1>4, <1>6, <2>1
<1>9. \A i \in 1 .. n + Len(events) : i \in 1 .. n \/ \E j \in 1 .. Len(events) : i = n + j
  <2> TAKE i \in 1 .. n + Len(events)
  <2>1. i \in 1 .. n \/ (i - n \in 1 .. Len(events) /\ i = n + (i - n))
    BY <1>5
  <2> QED
    BY <2>1
<1> QED
  BY <1>1, <1>2, <1>4, <1>5, <1>6, <1>7, <1>8, <1>9 DEF k, n

\* What a connection has when its first event is read
LEMMA Taken ==
  ASSUME Types, cli \in {"outer", "inner"}, wire[cli] # <<>>, wire' = [wire EXCEPT ![cli] = Tail(@)]
  PROVE  /\ wire' \in [{"outer", "inner"} -> Seq(Events)] /\ cli = Connection
         /\ wire[cli] \in Seq(Events)
         /\ \A h \in {"outer", "inner"} : h # cli => wire'[h] = wire[h]
         /\ Head(wire[cli]) \in Events /\ Head(wire[cli]) = wire[cli][1]
         /\ Len(wire[cli]) \in Nat \ {0} /\ Len(wire'[cli]) = Len(wire[cli]) - 1
         /\ wire[cli] = <<Head(wire[cli])>> \o wire'[cli]
         /\ \A i \in 1 .. Len(wire'[cli]) : i + 1 \in 1 .. Len(wire[cli]) /\ wire'[cli][i] = wire[cli][i + 1]
<1> DEFINE q == wire[cli]
<1>1. wire \in [{"outer", "inner"} -> Seq(Events)] /\ q \in Seq(Events) /\ q # <<>>
  BY DEF Types
<1> HIDE DEF q
<1>2. /\ Tail(q) \in Seq(Events) /\ Head(q) \in Events /\ Head(q) = q[1]
      /\ Len(q) \in Nat \ {0} /\ Len(Tail(q)) = Len(q) - 1
      /\ q = <<Head(q)>> \o Tail(q)
      /\ \A i \in 1 .. Len(Tail(q)) : i + 1 \in 1 .. Len(q) /\ Tail(q)[i] = q[i + 1]
  BY <1>1
<1>3. /\ wire' \in [{"outer", "inner"} -> Seq(Events)] /\ wire'[cli] = Tail(q)
      /\ \A h \in {"outer", "inner"} : h # cli => wire'[h] = wire[h]
  BY <1>1, <1>2 DEF q
<1> QED
  BY <1>1, <1>2, <1>3 DEF q, Connection

\* Events without text
LEMMA TextSilent ==
  ASSUME NEW events \in Seq(Events), \A i \in 1 .. Len(events) : events[i].type # "assistant"
  PROVE  TextOf(events) = <<>>
<1> DEFINE Mute(q) == \A i \in 1 .. Len(q) : q[i].type # "assistant"
           Sizes == {n \in Nat : \A q \in Seq(Events) : Len(q) = n /\ Mute(q) => TextOf(q) = <<>>}
<1>1. 0 \in Sizes
  <2>1. \A q \in Seq(Events) : Len(q) = 0 => q = <<>>
    OBVIOUS
  <2>2. TextOf(<<>>) = <<>>
    BY EventTypes, TextOne
  <2> QED
    BY <2>1, <2>2
<1>2. ASSUME NEW n \in Sizes
      PROVE  n + 1 \in Sizes
  <2>1. ASSUME NEW q \in Seq(Events), Len(q) = n + 1, Mute(q)
        PROVE  TextOf(q) = <<>>
    <3> DEFINE first == SubSeq(q, 1, n)
               e == q[n + 1]
    <3>1. n \in Nat
      OBVIOUS
    <3> HIDE DEF Sizes
    <3>2. first \in Seq(Events) /\ Len(first) = n /\ e \in Events /\ q = Append(first, e)
      BY <2>1, <3>1, Ends
    <3>3. \A i \in 1 .. n : first[i] = q[i] /\ i \in 1 .. n + 1
      BY <2>1, <3>1
    <3>4. e.type # "assistant" /\ Mute(first)
      <4>1. n + 1 \in 1 .. n + 1
        BY <3>1
      <4>2. e.type # "assistant"
        BY <2>1, <4>1
      <4> HIDE DEF first, e
      <4> QED
        BY <2>1, <3>2, <3>3, <4>2
    <3> HIDE DEF first, e, Mute
    <3>5. TextOf(first) = <<>>
      BY <3>2, <3>4 DEF Sizes
    <3>6. TextOf(<<e>>) = <<>>
      BY <3>2, <3>4, TextOne
    <3>7. q = first \o <<e>> /\ <<e>> \in Seq(Events)
      BY <3>2, Appended
    <3>8. TextOf(q) = TextOf(first) \o TextOf(<<e>>)
      BY <3>2, <3>7, TextConcat
    <3>9. <<>> \o <<>> = <<>>
      OBVIOUS
    <3> QED
      BY <3>5, <3>6, <3>8, <3>9
  <2> HIDE DEF Mute
  <2> QED
    BY <2>1
<1>3. Sizes = Nat
  <2>1. Sizes \in SUBSET Nat
    OBVIOUS
  <2> HIDE DEF Sizes
  <2> QED
    BY <1>1, <1>2, <2>1, Induction
<1> QED
  <2>1. Len(events) \in Sizes
    BY <1>3
  <2> QED
    BY <2>1

\* While the graph goes on, nothing has ended.
Going == Streaming /\ graph.pc \in {"model", "tool", "decided"}

LEMMA NothingEnded ==
  ASSUME Types, WireOK, Going
  PROVE  /\ Open /\ ((Connection = "outer" /\ cli = "outer") \/ (Connection = "inner" /\ cli = "inner"))
         /\ \A i \in 1 .. Len(wire[Connection]) :
              /\ wire[Connection][i].type \notin {"end", "broken", "error"}
              /\ Connection = "outer" => wire[Connection][i].type # "approval_required"
         /\ Connection = "outer" => wire["inner"] = <<>>
         /\ Connection = "inner" => wire["outer"] = Ended
<1> DEFINE q == wire[Connection]
<1>1. (Connection = "outer" /\ cli = "outer") \/ (Connection = "inner" /\ cli = "inner")
  <2>1. cli \in {"outer", "inner"}
    BY DEF Going, Streaming
  <2> QED
    BY <2>1 DEF Connection
<1>2. \A i \in 1 .. Len(q) : q[i].type \notin {"end", "broken"}
  BY <1>1 DEF WireOK, Going
<1>3. \A i \in 1 .. Len(q) : q[i].type # "error"
  <2>1. CASE Connection = "inner"
    BY <2>1 DEF WireOK
  <2>2. CASE Connection = "outer"
    <3> SUFFICES ASSUME NEW i \in 1 .. Len(q), q[i].type = "error"
                 PROVE  FALSE
      OBVIOUS
    <3>1. i + 1 = Len(q) /\ q[i + 1] = Event("end", None)
      BY <2>2 DEF WireOK
    <3>2. i + 1 \in 1 .. Len(q) /\ q[i + 1].type = "end"
      BY <3>1, EventTypes
    <3> QED
      BY <1>2, <3>2
  <2> QED
    BY <1>1, <2>1, <2>2
<1>4. ASSUME Connection = "outer", NEW i \in 1 .. Len(q)
      PROVE  q[i].type # "approval_required"
  BY <1>4 DEF WireOK, Going
<1> QED
  BY <1>1, <1>2, <1>3, <1>4 DEF WireOK, Open

LEMMA SendKeepsWire ==
  ASSUME Types, WireOK, Going, NEW events \in Seq(Events), Send(events), cli' = cli,
         \A i \in 1 .. Len(events) :
           /\ events[i].type \in {"end", "broken"} =>
                i = Len(events) /\ graph'.pc \in {"idle", "interrupted"}
           /\ events[i].type = "error" =>
                cli = "outer" /\ i + 1 = Len(events) /\ events[i + 1] = Event("end", None)
           /\ events[i].type = "approval_required" =>
                /\ i + 2 = Len(events) /\ graph'.pc = "interrupted"
                /\ events[i + 1] = Ended[1] /\ events[i + 2] = Ended[2]
           /\ events[i].type = "broken" => cli = "inner"
  PROVE  WireOK'
<1> DEFINE k == Connection
           n == Len(wire[k])
           m == Len(events)
<1>1. /\ wire' \in [{"outer", "inner"} -> Seq(Events)]
      /\ \A h \in {"outer", "inner"} : h # k => wire'[h] = wire[h]
      /\ n \in Nat /\ m \in Nat /\ Len(wire'[k]) = n + m
      /\ \A i \in 1 .. n : wire'[k][i] = wire[k][i]
      /\ \A i \in 1 .. m : wire'[k][n + i] = events[i]
      /\ \A i \in 1 .. n + m : i \in 1 .. n \/ \E j \in 1 .. m : i = n + j
  BY Sent
<1>2. /\ (k = "outer" /\ cli = "outer") \/ (k = "inner" /\ cli = "inner")
      /\ \A i \in 1 .. n :
           /\ wire[k][i].type \notin {"end", "broken", "error"}
           /\ k = "outer" => wire[k][i].type # "approval_required"
      /\ k = "outer" => wire["inner"] = <<>>
      /\ k = "inner" => wire["outer"] = Ended
  BY NothingEnded
<1>3. Connection' = k
  BY DEF Connection
<1>4. \A i \in 1 .. n + m : wire'[k][i].type \in {"end", "broken", "error"} \/
                              (k = "outer" /\ wire'[k][i].type = "approval_required") =>
        \E j \in 1 .. m : i = n + j /\ wire'[k][i] = events[j]
  BY <1>1, <1>2
<1> HIDE DEF k, n, m
<1>5. ASSUME NEW i \in 1 .. Len(wire'[k]), wire'[k][i].type \in {"end", "broken"}
      PROVE  i = Len(wire'[k]) /\ graph'.pc \in {"idle", "interrupted"}
  <2>1. PICK j \in 1 .. m : i = n + j /\ wire'[k][i] = events[j]
    BY <1>1, <1>4, <1>5
  <2>2. j = m /\ graph'.pc \in {"idle", "interrupted"}
    BY <1>5, <2>1 DEF m
  <2> QED
    BY <1>1, <2>1, <2>2
<1>6. ASSUME k = "outer", NEW i \in 1 .. Len(wire'[k])
      PROVE  /\ wire'[k][i].type = "error" =>
                  i + 1 = Len(wire'[k]) /\ wire'[k][i + 1] = Event("end", None)
             /\ wire'[k][i].type = "approval_required" =>
                  /\ i + 2 = Len(wire'[k]) /\ graph'.pc = "interrupted"
                  /\ wire'[k][i + 1] = Ended[1] /\ wire'[k][i + 2] = Ended[2]
             /\ wire'[k][i].type # "broken"
  <2>1. ASSUME wire'[k][i].type = "error"
        PROVE  i + 1 = Len(wire'[k]) /\ wire'[k][i + 1] = Event("end", None)
    <3>1. PICK j \in 1 .. m : i = n + j /\ wire'[k][i] = events[j]
      BY <1>1, <1>4, <2>1
    <3>2. j + 1 = m /\ events[j + 1] = Event("end", None)
      BY <2>1, <3>1 DEF m
    <3>3. j + 1 \in 1 .. m /\ n + (j + 1) = i + 1
      BY <1>1, <3>1, <3>2
    <3>4. wire'[k][i + 1] = events[j + 1]
      BY <1>1, <3>3
    <3> QED
      BY <1>1, <3>1, <3>2, <3>4
  <2>2. ASSUME wire'[k][i].type = "approval_required"
        PROVE  /\ i + 2 = Len(wire'[k]) /\ graph'.pc = "interrupted"
               /\ wire'[k][i + 1] = Ended[1] /\ wire'[k][i + 2] = Ended[2]
    <3>1. PICK j \in 1 .. m : i = n + j /\ wire'[k][i] = events[j]
      BY <1>1, <1>4, <1>6, <2>2
    <3>2. j + 2 = m /\ graph'.pc = "interrupted" /\ events[j + 1] = Ended[1] /\ events[j + 2] = Ended[2]
      BY <2>2, <3>1 DEF m
    <3>3. /\ j + 1 \in 1 .. m /\ n + (j + 1) = i + 1
          /\ j + 2 \in 1 .. m /\ n + (j + 2) = i + 2
      BY <1>1, <3>1, <3>2
    <3>4. wire'[k][i + 1] = events[j + 1] /\ wire'[k][i + 2] = events[j + 2]
      BY <1>1, <3>3
    <3> QED
      BY <1>1, <3>1, <3>2, <3>4
  <2>3. wire'[k][i].type # "broken"
    <3> SUFFICES ASSUME wire'[k][i].type = "broken"
                 PROVE  FALSE
      OBVIOUS
    <3>1. PICK j \in 1 .. m : wire'[k][i] = events[j]
      BY <1>1, <1>4
    <3>2. cli = "inner"
      BY <3>1 DEF m
    <3> QED
      BY <1>2, <1>6, <3>2
  <2> QED
    BY <2>1, <2>2, <2>3
<1>7. ASSUME k = "inner", NEW i \in 1 .. Len(wire'[k])
      PROVE  wire'[k][i].type # "error"
  <2> SUFFICES ASSUME wire'[k][i].type = "error"
               PROVE  FALSE
    OBVIOUS
  <2>1. PICK j \in 1 .. m : wire'[k][i] = events[j]
    BY <1>1, <1>4
  <2>2. cli = "outer"
    BY <2>1 DEF m
  <2> QED
    BY <1>2, <1>7, <2>2
<1>8. CASE k = "outer"
  <2>1. wire'["inner"] = <<>> /\ cli' = "outer"
    BY <1>1, <1>2, <1>8
  <2> QED
    BY <1>3, <1>5, <1>6, <1>8, <2>1 DEF WireOK
<1>9. CASE k = "inner"
  <2>1. wire'["outer"] = Ended /\ cli' = "inner"
    BY <1>1, <1>2, <1>9
  <2>2. Len(Ended) = 2 /\ Ended[1].type = "usage" /\ Ended[2].type = "end" /\ \A i \in 1 .. 2 : i = 1 \/ i = 2
    BY EventTypes DEF Ended
  <2> HIDE DEF Ended
  <2> QED
    BY <1>3, <1>5, <1>7, <1>9, <2>1, <2>2 DEF WireOK
<1> QED
  BY <1>2, <1>8, <1>9

\* Reading what is neither an end nor a broken connection
LEMMA ReadKeepsWire ==
  ASSUME Types, WireOK, cli \in {"outer", "inner"}, wire[cli] # <<>>, wire' = [wire EXCEPT ![cli] = Tail(@)],
         Head(wire[cli]).type \notin {"end", "broken"},
         cli = "outer" => Head(wire[cli]).type # "approval_required",
         cli' = cli, graph' = graph
  PROVE  /\ WireOK'
         /\ cli = "outer" /\ Head(wire[cli]).type = "error" => wire'["outer"] = <<Event("end", None)>>
<1> DEFINE q == wire[cli]
           r == wire'[cli]
<1>1. /\ wire' \in [{"outer", "inner"} -> Seq(Events)] /\ cli = Connection /\ q \in Seq(Events)
      /\ \A h \in {"outer", "inner"} : h # cli => wire'[h] = wire[h]
      /\ Head(q) = q[1] /\ Len(q) \in Nat \ {0} /\ Len(r) = Len(q) - 1
      /\ \A i \in 1 .. Len(r) : i + 1 \in 1 .. Len(q) /\ r[i] = q[i + 1]
  BY Taken
<1>2. Connection' = cli /\ cli' = cli /\ r \in Seq(Events)
  BY <1>1 DEF Connection
<1>3. CASE cli = "outer"
  <2>1. wire["inner"] = <<>> /\ wire'["inner"] = <<>>
    BY <1>1, <1>3 DEF WireOK
  <2>2. ASSUME NEW i \in 1 .. Len(r)
        PROVE  /\ r[i].type \in {"end", "broken"} => i = Len(r) /\ graph.pc \in {"idle", "interrupted"}
               /\ r[i].type = "error" => i + 1 = Len(r) /\ r[i + 1] = Event("end", None)
               /\ r[i].type = "approval_required" =>
                    i + 2 = Len(r) /\ graph.pc = "interrupted" /\ r[i + 1] = Ended[1] /\ r[i + 2] = Ended[2]
               /\ r[i].type # "broken"
    <3>1. /\ q[i + 1].type \in {"end", "broken"} => i + 1 = Len(q) /\ graph.pc \in {"idle", "interrupted"}
          /\ q[i + 1].type = "error" => (i + 1) + 1 = Len(q) /\ q[(i + 1) + 1] = Event("end", None)
          /\ q[i + 1].type = "approval_required" =>
               /\ (i + 1) + 2 = Len(q) /\ graph.pc = "interrupted"
               /\ q[(i + 1) + 1] = Ended[1] /\ q[(i + 1) + 2] = Ended[2]
          /\ q[i + 1].type # "broken"
      BY <1>1, <1>3 DEF WireOK
    <3>2. i + 1 = Len(r) => r[i + 1] = q[(i + 1) + 1]
      BY <1>1
    <3>3. i + 2 = Len(r) => r[i + 1] = q[(i + 1) + 1] /\ r[i + 2] = q[(i + 2) + 1]
      BY <1>1
    <3>4. r[i] = q[i + 1] /\ (i + 2) + 1 = (i + 1) + 2
      BY <1>1
    <3> HIDE DEF q, r
    <3> QED
      BY <1>1, <3>1, <3>2, <3>3, <3>4
  <2>3. WireOK'
    <3> HIDE DEF q
    <3> QED
      BY <1>2, <1>3, <2>1, <2>2 DEF WireOK
  <2>4. ASSUME Head(q).type = "error"
        PROVE  r = <<Event("end", None)>>
    <3>1. 1 \in 1 .. Len(q) /\ q[1].type = "error"
      BY <1>1, <2>4
    <3>2. 1 + 1 = Len(q) /\ q[1 + 1] = Event("end", None)
      BY <1>3, <3>1 DEF WireOK
    <3>3. Len(r) = 1 /\ r[1] = Event("end", None)
      BY <1>1, <3>2
    <3> HIDE DEF r
    <3> QED
      BY <1>2, <3>3
  <2> QED
    BY <1>3, <2>3, <2>4
<1>4. CASE cli = "inner"
  <2>1. wire'["outer"] = Ended
    BY <1>1, <1>4 DEF WireOK
  <2>2. Len(Ended) = 2 /\ Ended[1].type = "usage" /\ Ended[2].type = "end" /\ \A i \in 1 .. 2 : i = 1 \/ i = 2
    BY EventTypes DEF Ended
  <2>3. ASSUME NEW i \in 1 .. Len(r)
        PROVE  /\ r[i].type \in {"end", "broken"} => i = Len(r) /\ graph.pc \in {"idle", "interrupted"}
               /\ r[i].type # "error"
    <3>1. /\ q[i + 1].type \in {"end", "broken"} => i + 1 = Len(q) /\ graph.pc \in {"idle", "interrupted"}
          /\ q[i + 1].type # "error"
      BY <1>1, <1>4 DEF WireOK
    <3> HIDE DEF q, r
    <3> QED
      BY <1>1, <3>1
  <2> HIDE DEF Ended, q
  <2> QED
    BY <1>2, <1>4, <2>1, <2>2, <2>3 DEF WireOK
<1> QED
  BY <1>3, <1>4

-----------------------------------------------------------------------------
(* The calls on the wire *)

Waiting == {"tool", "interrupted", "decided"}

\* What is sent is not about tools.
LEMMA SendKeepsCalls ==
  ASSUME Types, CallsOK, Going, NEW events \in Seq(Events), Send(events), cli' = cli, screen' = screen,
         \A i \in 1 .. Len(events) : events[i].type \notin {"tool_call", "tool_output"},
         graph'.call = graph.call, graph'.pc \in Waiting => graph.pc \in Waiting
  PROVE  CallsOK'
<1> DEFINE k == Connection
           n == Len(wire[k])
           m == Len(events)
<1>1. /\ n \in Nat /\ m \in Nat /\ Len(wire'[k]) = n + m
      /\ \A i \in 1 .. n : wire'[k][i] = wire[k][i]
      /\ \A i \in 1 .. m : wire'[k][n + i] = events[i]
      /\ \A i \in 1 .. n + m : i \in 1 .. n \/ \E j \in 1 .. m : i = n + j
  BY Sent
<1>2. Connection' = k
  BY DEF Connection
<1>3. \A i \in 1 .. n + m : \A type \in {"tool_call", "tool_output"} : \A c \in Calls :
        wire'[k][i] = Event(type, c) => i \in 1 .. n /\ wire[k][i] = Event(type, c)
  <2>1. \A j \in 1 .. m : \A type \in {"tool_call", "tool_output"} : \A c \in Calls : events[j] # Event(type, c)
    BY EventTypes
  <2>2. \A i \in 1 .. n + m : (i \in 1 .. n /\ wire'[k][i] = wire[k][i]) \/
                              \E j \in 1 .. m : wire'[k][i] = events[j]
    <3> HIDE DEF k, n, m
    <3> QED
      BY <1>1
  <2> HIDE DEF k, n, m
  <2> QED
    BY <2>1, <2>2
<1>4. \A i \in 1 .. n : i \in 1 .. n + m
  BY <1>1
<1>5. Open /\ Open'
  BY DEF Going, Streaming, Open
<1>6. /\ \A c \in Calls : screen.runs[c] # None => c <= graph.call
      /\ \A c \in Calls, i \in 1 .. n :
           /\ wire[k][i] = Event("tool_call", c) =>
                /\ screen.runs[c] = None /\ c <= graph.call
                /\ \A j \in 1 .. n : wire[k][j] = Event("tool_call", c) => j = i
           /\ wire[k][i] = Event("tool_output", c) =>
                /\ screen.runs[c] = "running" \/ \E j \in 1 .. i - 1 : wire[k][j] = Event("tool_call", c)
                /\ c <= graph.call /\ (graph.pc \in Waiting => c # graph.call)
                /\ \A j \in 1 .. n : wire[k][j] = Event("tool_output", c) => j = i
      /\ graph.pc \in Waiting =>
           /\ graph.call \in Calls
           /\ \/ screen.runs[graph.call] = "running"
              \/ \E j \in 1 .. n : wire[k][j] = Event("tool_call", graph.call)
  BY <1>5 DEF CallsOK, Says, Waiting
<1>7. \A i \in 1 .. n : \A j \in 1 .. i - 1 : j \in 1 .. n
  BY <1>1
<1> HIDE DEF k, n, m
<1>8. \A c \in Calls, i \in 1 .. n + m :
        /\ wire'[k][i] = Event("tool_call", c) =>
             /\ screen.runs[c] = None /\ c <= graph.call
             /\ \A j \in 1 .. n + m : wire'[k][j] = Event("tool_call", c) => j = i
        /\ wire'[k][i] = Event("tool_output", c) =>
             /\ screen.runs[c] = "running" \/ \E j \in 1 .. i - 1 : wire'[k][j] = Event("tool_call", c)
             /\ c <= graph.call /\ (graph'.pc \in Waiting => c # graph.call)
             /\ \A j \in 1 .. n + m : wire'[k][j] = Event("tool_output", c) => j = i
  <2> TAKE c \in Calls, i \in 1 .. n + m
  <2>1. ASSUME wire'[k][i] = Event("tool_call", c)
        PROVE  /\ screen.runs[c] = None /\ c <= graph.call
               /\ \A j \in 1 .. n + m : wire'[k][j] = Event("tool_call", c) => j = i
    <3>1. i \in 1 .. n /\ wire[k][i] = Event("tool_call", c)
      BY <1>3, <2>1
    <3>2. \A j \in 1 .. n + m : wire'[k][j] = Event("tool_call", c) =>
            j \in 1 .. n /\ wire[k][j] = Event("tool_call", c)
      BY <1>3
    <3> QED
      BY <1>6, <3>1, <3>2
  <2>2. ASSUME wire'[k][i] = Event("tool_output", c)
        PROVE  /\ screen.runs[c] = "running" \/ \E j \in 1 .. i - 1 : wire'[k][j] = Event("tool_call", c)
               /\ c <= graph.call /\ (graph'.pc \in Waiting => c # graph.call)
               /\ \A j \in 1 .. n + m : wire'[k][j] = Event("tool_output", c) => j = i
    <3>1. i \in 1 .. n /\ wire[k][i] = Event("tool_output", c)
      BY <1>3, <2>2
    <3>2. \A j \in 1 .. n + m : wire'[k][j] = Event("tool_output", c) =>
            j \in 1 .. n /\ wire[k][j] = Event("tool_output", c)
      BY <1>3
    <3>3. screen.runs[c] = "running" \/ \E j \in 1 .. i - 1 : wire'[k][j] = Event("tool_call", c)
      <4>1. \A j \in 1 .. i - 1 : wire'[k][j] = wire[k][j]
        BY <1>1, <1>7, <3>1
      <4>2. screen.runs[c] = "running" \/ \E j \in 1 .. i - 1 : wire[k][j] = Event("tool_call", c)
        BY <1>6, <3>1
      <4> QED
        BY <4>1, <4>2
    <3> QED
      BY <1>6, <3>1, <3>2, <3>3
  <2> QED
    BY <2>1, <2>2
<1>9. graph'.pc \in Waiting =>
        /\ graph.call \in Calls
        /\ \/ screen.runs[graph.call] = "running"
           \/ \E j \in 1 .. n + m : wire'[k][j] = Event("tool_call", graph.call)
  BY <1>1, <1>4, <1>6
<1>10. n + m = Len(wire'[k])
  BY <1>1
<1> QED
  BY <1>2, <1>6, <1>8, <1>9, <1>10 DEF CallsOK, Says, Waiting

\* CallTool: a new call, the last on the wire
LEMMA CallToolKeepsCalls ==
  ASSUME Types, CallsOK, Going, CallTool
  PROVE  CallsOK'
<1> DEFINE k == Connection
           n == Len(wire[k])
<1>1. PICK c \in Calls : /\ c > graph.call /\ graph' = [graph EXCEPT !.pc = "tool", !.call = c]
                         /\ Send(<<Event("tool_call", c)>>)
  BY DEF CallTool
<1>2. /\ <<Event("tool_call", c)>> \in Seq(Events) /\ Len(<<Event("tool_call", c)>>) = 1
      /\ <<Event("tool_call", c)>>[1] = Event("tool_call", c)
  BY EventTypes
<1>3. /\ n \in Nat /\ Len(wire'[k]) = n + 1
      /\ \A i \in 1 .. n : wire'[k][i] = wire[k][i]
      /\ wire'[k][n + 1] = Event("tool_call", c)
  <2> DEFINE events == <<Event("tool_call", c)>>
  <2>1. events \in Seq(Events) /\ Send(events) /\ Len(events) = 1 /\ events[1] = Event("tool_call", c)
    BY <1>1, <1>2
  <2> HIDE DEF events
  <2>2. /\ n \in Nat /\ Len(wire'[k]) = n + Len(events)
        /\ \A i \in 1 .. n : wire'[k][i] = wire[k][i]
        /\ \A i \in 1 .. Len(events) : wire'[k][n + i] = events[i]
    BY <2>1, Sent
  <2> QED
    BY <2>1, <2>2
<1>4. Connection' = k /\ screen' = screen
  BY DEF Connection, CallTool
<1>5. \A i \in 1 .. n + 1 : i \in 1 .. n \/ i = n + 1
  BY <1>3
<1>6. /\ c \in Nat /\ graph.call \in Nat /\ \A d \in Calls : d \in Nat
      /\ graph'.call = c /\ graph'.pc = "tool"
  BY <1>1, ConversationAssumption DEF Types
<1>7. \A d \in Calls, type \in {"tool_call", "tool_output"} : wire'[k][n + 1] = Event(type, d) => d = c /\ type = "tool_call"
  BY <1>3, EventTypes
<1> HIDE DEF k, n
<1>8. /\ \A d \in Calls : screen.runs[d] # None => d <= graph.call
      /\ \A d \in Calls, i \in 1 .. n :
           /\ wire[k][i] = Event("tool_call", d) =>
                /\ screen.runs[d] = None /\ d <= graph.call
                /\ \A j \in 1 .. n : wire[k][j] = Event("tool_call", d) => j = i
           /\ wire[k][i] = Event("tool_output", d) =>
                /\ screen.runs[d] = "running" \/ \E j \in 1 .. i - 1 : wire[k][j] = Event("tool_call", d)
                /\ d <= graph.call
                /\ \A j \in 1 .. n : wire[k][j] = Event("tool_output", d) => j = i
  BY DEF CallsOK, Says, k, n
<1>9. \A d \in Calls : d <= graph.call => d <= c /\ d # c
  BY <1>1, <1>6
<1>10. ASSUME NEW d \in Calls, NEW i \in 1 .. n + 1, wire'[k][i] = Event("tool_call", d)
       PROVE  /\ screen.runs[d] = None /\ d <= c
              /\ \A j \in 1 .. n + 1 : wire'[k][j] = Event("tool_call", d) => j = i
  <2>1. CASE i = n + 1
    <3>1. d = c
      BY <1>7, <1>10, <2>1
    <3>2. \A j \in 1 .. n : wire'[k][j] # Event("tool_call", d)
      BY <1>3, <1>8, <1>9, <3>1
    <3> QED
      BY <1>5, <1>6, <1>8, <1>9, <2>1, <3>1, <3>2
  <2>2. CASE i # n + 1
    <3>1. i \in 1 .. n /\ wire[k][i] = Event("tool_call", d)
      BY <1>3, <1>5, <1>10, <2>2
    <3>2. d <= graph.call /\ d # c
      BY <1>8, <1>9, <3>1
    <3>3. wire'[k][n + 1] # Event("tool_call", d)
      BY <1>7, <3>2
    <3>4. \A j \in 1 .. n + 1 : wire'[k][j] = Event("tool_call", d) => j = i
      BY <1>3, <1>5, <1>8, <3>1, <3>3
    <3> QED
      BY <1>8, <1>9, <3>1, <3>4
  <2> QED
    BY <2>1, <2>2
<1>11. ASSUME NEW d \in Calls, NEW i \in 1 .. n + 1, wire'[k][i] = Event("tool_output", d)
       PROVE  /\ screen.runs[d] = "running" \/ \E j \in 1 .. i - 1 : wire'[k][j] = Event("tool_call", d)
              /\ d <= c /\ d # c
              /\ \A j \in 1 .. n + 1 : wire'[k][j] = Event("tool_output", d) => j = i
  <2>1. i # n + 1
    BY <1>7, <1>11
  <2>2. i \in 1 .. n /\ wire[k][i] = Event("tool_output", d)
    BY <1>3, <1>5, <1>11, <2>1
  <2>3. \A j \in 1 .. i - 1 : j \in 1 .. n
    BY <1>3, <2>2
  <2>4. screen.runs[d] = "running" \/ \E j \in 1 .. i - 1 : wire'[k][j] = Event("tool_call", d)
    <3>1. \A j \in 1 .. i - 1 : wire'[k][j] = wire[k][j]
      BY <1>3, <2>3
    <3>2. screen.runs[d] = "running" \/ \E j \in 1 .. i - 1 : wire[k][j] = Event("tool_call", d)
      BY <1>8, <2>2
    <3> QED
      BY <3>1, <3>2
  <2>5. wire'[k][n + 1] # Event("tool_output", d)
    BY <1>7
  <2>6. \A j \in 1 .. n + 1 : wire'[k][j] = Event("tool_output", d) => j = i
    BY <1>3, <1>5, <1>8, <2>2, <2>5
  <2> QED
    BY <1>8, <1>9, <2>2, <2>4, <2>6
<1>12. \A d \in Calls : screen.runs[d] # None => d <= c
  BY <1>8, <1>9
<1>13. c \in Calls /\ \E j \in 1 .. n + 1 : wire'[k][j] = Event("tool_call", c)
  <2>1. n + 1 \in 1 .. n + 1
    BY <1>3
  <2> QED
    BY <1>3, <2>1
<1> QED
  BY <1>3, <1>4, <1>6, <1>10, <1>11, <1>12, <1>13 DEF CallsOK, Says

\* ToolAnswers: the output of the call the graph was at
LEMMA ToolAnswersKeepsCalls ==
  ASSUME Types, CallsOK, Going, ToolAnswers
  PROVE  CallsOK'
<1> DEFINE k == Connection
           n == Len(wire[k])
           c == graph.call
<1>1. graph.pc \in Waiting /\ Open
  BY DEF ToolAnswers, Going, Streaming, Open, Waiting
<1>2. /\ \A d \in Calls : screen.runs[d] # None => d <= c
      /\ \A d \in Calls, i \in 1 .. n :
           /\ wire[k][i] = Event("tool_call", d) =>
                /\ screen.runs[d] = None /\ d <= c
                /\ \A j \in 1 .. n : wire[k][j] = Event("tool_call", d) => j = i
           /\ wire[k][i] = Event("tool_output", d) =>
                /\ screen.runs[d] = "running" \/ \E j \in 1 .. i - 1 : wire[k][j] = Event("tool_call", d)
                /\ d <= c /\ d # c
                /\ \A j \in 1 .. n : wire[k][j] = Event("tool_output", d) => j = i
      /\ c \in Calls
      /\ screen.runs[c] = "running" \/ \E j \in 1 .. n : wire[k][j] = Event("tool_call", c)
  BY <1>1 DEF CallsOK, Says, Waiting
<1>3. /\ <<Event("tool_output", c)>> \in Seq(Events) /\ Len(<<Event("tool_output", c)>>) = 1
      /\ <<Event("tool_output", c)>>[1] = Event("tool_output", c)
  BY <1>2, EventTypes
<1>4. Send(<<Event("tool_output", c)>>)
  BY DEF ToolAnswers
<1>5. /\ n \in Nat /\ Len(wire'[k]) = n + 1
      /\ \A i \in 1 .. n : wire'[k][i] = wire[k][i]
      /\ wire'[k][n + 1] = Event("tool_output", c)
  <2> DEFINE events == <<Event("tool_output", c)>>
  <2>1. events \in Seq(Events) /\ Send(events) /\ Len(events) = 1 /\ events[1] = Event("tool_output", c)
    BY <1>3, <1>4
  <2> HIDE DEF events
  <2>2. /\ n \in Nat /\ Len(wire'[k]) = n + Len(events)
        /\ \A i \in 1 .. n : wire'[k][i] = wire[k][i]
        /\ \A i \in 1 .. Len(events) : wire'[k][n + i] = events[i]
    BY <2>1, Sent
  <2> QED
    BY <2>1, <2>2
<1>6. Connection' = k /\ screen' = screen /\ graph'.call = c /\ graph'.pc = "model"
  BY DEF Connection, ToolAnswers, Types
<1>7. \A i \in 1 .. n + 1 : i \in 1 .. n \/ i = n + 1
  BY <1>5
<1>8. \A d \in Calls, type \in {"tool_call", "tool_output"} : wire'[k][n + 1] = Event(type, d) => d = c /\ type = "tool_output"
  BY <1>5, EventTypes
<1>9. c \in Nat
  BY <1>2, ConversationAssumption
<1> HIDE DEF k, n, c
<1>10. ASSUME NEW d \in Calls, NEW i \in 1 .. n + 1, wire'[k][i] = Event("tool_call", d)
       PROVE  /\ screen.runs[d] = None /\ d <= c
              /\ \A j \in 1 .. n + 1 : wire'[k][j] = Event("tool_call", d) => j = i
  <2>1. i # n + 1
    BY <1>8, <1>10
  <2>2. i \in 1 .. n /\ wire[k][i] = Event("tool_call", d)
    BY <1>5, <1>7, <1>10, <2>1
  <2>3. wire'[k][n + 1] # Event("tool_call", d)
    BY <1>8
  <2>4. \A j \in 1 .. n + 1 : wire'[k][j] = Event("tool_call", d) => j = i
    BY <1>2, <1>5, <1>7, <2>2, <2>3
  <2> QED
    BY <1>2, <2>2, <2>4
<1>11. ASSUME NEW d \in Calls, NEW i \in 1 .. n + 1, wire'[k][i] = Event("tool_output", d)
       PROVE  /\ screen.runs[d] = "running" \/ \E j \in 1 .. i - 1 : wire'[k][j] = Event("tool_call", d)
              /\ d <= c
              /\ \A j \in 1 .. n + 1 : wire'[k][j] = Event("tool_output", d) => j = i
  <2>1. CASE i = n + 1
    <3>1. d = c
      BY <1>8, <1>11, <2>1
    <3>2. \A j \in 1 .. n : wire'[k][j] # Event("tool_output", d)
      BY <1>2, <1>5, <3>1
    <3>3. \A j \in 1 .. n : j \in 1 .. i - 1 /\ wire'[k][j] = wire[k][j]
      BY <1>5, <2>1
    <3>4. screen.runs[d] = "running" \/ \E j \in 1 .. i - 1 : wire'[k][j] = Event("tool_call", d)
      BY <1>2, <3>1, <3>3
    <3>5. d <= c
      BY <1>9, <3>1
    <3> QED
      BY <1>7, <2>1, <3>2, <3>4, <3>5
  <2>2. CASE i # n + 1
    <3>1. i \in 1 .. n /\ wire[k][i] = Event("tool_output", d)
      BY <1>5, <1>7, <1>11, <2>2
    <3>2. \A j \in 1 .. i - 1 : j \in 1 .. n
      BY <1>5, <3>1
    <3>3. screen.runs[d] = "running" \/ \E j \in 1 .. i - 1 : wire'[k][j] = Event("tool_call", d)
      BY <1>2, <1>5, <3>1, <3>2
    <3>4. wire'[k][n + 1] # Event("tool_output", d)
      BY <1>2, <1>8, <3>1
    <3>5. \A j \in 1 .. n + 1 : wire'[k][j] = Event("tool_output", d) => j = i
      BY <1>2, <1>5, <1>7, <3>1, <3>4
    <3> QED
      BY <1>2, <3>1, <3>3, <3>5
  <2> QED
    BY <2>1, <2>2
<1> QED
  BY <1>2, <1>5, <1>6, <1>10, <1>11 DEF CallsOK, Says

\* What reading an event does to the states of the calls
RunsAfter(runs, e) ==
  CASE e.type = "tool_call"   -> [runs EXCEPT ![e.of] = "running"]
    [] e.type = "tool_output" -> [runs EXCEPT ![e.of] = "done"]
    [] OTHER                  -> runs

LEMMA RunsAfterIs ==
  ASSUME NEW runs, NEW c
  PROVE  /\ RunsAfter(runs, Event("tool_call", c)) = [runs EXCEPT ![c] = "running"]
         /\ RunsAfter(runs, Event("tool_output", c)) = [runs EXCEPT ![c] = "done"]
         /\ \A e : e.type \notin {"tool_call", "tool_output"} => RunsAfter(runs, e) = runs
BY EventTypes DEF RunsAfter

LEMMA ReadKeepsCalls ==
  ASSUME Types, CallsOK, cli \in {"outer", "inner"}, wire[cli] # <<>>,
         wire' = [wire EXCEPT ![cli] = Tail(@)], cli' = cli, graph' = graph,
         screen'.runs = RunsAfter(screen.runs, Head(wire[cli]))
  PROVE  /\ CallsOK'
         /\ \A c \in Calls : /\ Head(wire[cli]) = Event("tool_call", c) => screen.runs[c] = None
                             /\ Head(wire[cli]) = Event("tool_output", c) => screen.runs[c] = "running"
<1> DEFINE k == cli
           q == wire[k]
           r == wire'[k]
           n == Len(q)
           e == Head(q)
           runs == screen.runs
           gc == graph.call
<1>1. /\ k = Connection /\ q \in Seq(Events) /\ n \in Nat \ {0} /\ Len(r) = n - 1
      /\ e = q[1] /\ e \in Events
      /\ \A i \in 1 .. n - 1 : i + 1 \in 1 .. n /\ r[i] = q[i + 1]
  <2>1. /\ k = Connection /\ q \in Seq(Events) /\ n \in Nat \ {0} /\ Len(r) = n - 1
        /\ e = q[1] /\ e \in Events
        /\ \A i \in 1 .. Len(r) : i + 1 \in 1 .. n /\ r[i] = q[i + 1]
    BY Taken
  <2> QED
    BY <2>1
<1>2. Connection' = k /\ Open /\ Open'
  BY <1>1 DEF Connection, Open
<1>3. /\ \A c \in Calls : runs[c] # None => c <= gc
      /\ \A c \in Calls, i \in 1 .. n :
           /\ q[i] = Event("tool_call", c) =>
                /\ runs[c] = None /\ c <= gc
                /\ \A j \in 1 .. n : q[j] = Event("tool_call", c) => j = i
           /\ q[i] = Event("tool_output", c) =>
                /\ runs[c] = "running" \/ \E j \in 1 .. i - 1 : q[j] = Event("tool_call", c)
                /\ c <= gc /\ (graph.pc \in Waiting => c # gc)
                /\ \A j \in 1 .. n : q[j] = Event("tool_output", c) => j = i
      /\ graph.pc \in Waiting =>
           gc \in Calls /\ (runs[gc] = "running" \/ \E j \in 1 .. n : q[j] = Event("tool_call", gc))
  BY <1>1, <1>2 DEF CallsOK, Says, Waiting
<1>4. 1 \in 1 .. n
  BY <1>1
<1>5. \A c \in Calls : /\ e = Event("tool_call", c) => runs[c] = None
                       /\ e = Event("tool_output", c) => runs[c] = "running"
  <2>1. \A c \in Calls : e = Event("tool_call", c) => runs[c] = None
    BY <1>1, <1>3, <1>4
  <2>2. \A c \in Calls : e = Event("tool_output", c) =>
          runs[c] = "running" \/ \E j \in 1 .. 1 - 1 : q[j] = Event("tool_call", c)
    BY <1>1, <1>3, <1>4
  <2>3. 1 .. 1 - 1 = {}
    OBVIOUS
  <2> QED
    BY <2>1, <2>2, <2>3
<1>6. runs \in [Calls -> {None, "running", "done"}] /\ screen'.runs = RunsAfter(runs, e)
  BY DEF Types, Screens
<1>7. graph' = graph
  OBVIOUS
<1> HIDE DEF k, q, r, n, e, runs, gc
<1> DEFINE after == screen'.runs
<1>8. ASSUME NEW c \in Calls
      PROVE  /\ runs[c] = "running" /\ e # Event("tool_output", c) => after[c] = "running"
             /\ e = Event("tool_call", c) => after[c] = "running"
             /\ runs[c] = None /\ e # Event("tool_call", c) => after[c] = None
             /\ after[c] # None => runs[c] # None \/ e = Event("tool_call", c)
  <2>1. e = Event(e.type, e.of) /\ (e.type \in {"tool_call", "tool_output"} => e.of \in Calls)
    BY <1>1, EventTypes
  <2>2. CASE e.type = "tool_call"
    <3>1. after = [runs EXCEPT ![e.of] = "running"]
      BY <1>6, <2>2 DEF RunsAfter, after
    <3>2. e = Event("tool_call", c) <=> c = e.of
      BY <2>1, <2>2, EventTypes
    <3>3. e # Event("tool_output", c)
      BY <2>2, EventTypes
    <3> HIDE DEF after
    <3> QED
      BY <1>6, <3>1, <3>2, <3>3
  <2>3. CASE e.type = "tool_output"
    <3>1. after = [runs EXCEPT ![e.of] = "done"]
      BY <1>6, <2>3 DEF RunsAfter, after
    <3>2. e = Event("tool_output", c) <=> c = e.of
      BY <2>1, <2>3, EventTypes
    <3>3. e # Event("tool_call", c)
      BY <2>3, EventTypes
    <3>4. runs[e.of] = "running" /\ None # "running"
      BY <1>5, <2>1, <2>3, ConversationAssumption
    <3> HIDE DEF after
    <3> QED
      BY <1>6, <3>1, <3>2, <3>3, <3>4
  <2>4. CASE e.type \notin {"tool_call", "tool_output"}
    <3>1. after = runs
      BY <1>6, <2>4, RunsAfterIs
    <3>2. e # Event("tool_call", c) /\ e # Event("tool_output", c)
      BY <2>4, EventTypes
    <3> HIDE DEF after
    <3> QED
      BY <3>1, <3>2
  <2> QED
    BY <2>2, <2>3, <2>4
<1> HIDE DEF after
<1>9. \A c \in Calls : after[c] # None => c <= gc
  BY <1>1, <1>3, <1>4, <1>8
<1>10. ASSUME NEW c \in Calls, NEW i \in 1 .. n - 1, r[i] = Event("tool_call", c)
       PROVE  /\ after[c] = None /\ c <= gc
              /\ \A j \in 1 .. n - 1 : r[j] = Event("tool_call", c) => j = i
  <2>1. i + 1 \in 1 .. n /\ q[i + 1] = Event("tool_call", c) /\ i + 1 # 1
    BY <1>1, <1>10
  <2>2. runs[c] = None /\ c <= gc /\ \A j \in 1 .. n : q[j] = Event("tool_call", c) => j = i + 1
    BY <1>3, <2>1
  <2>3. e # Event("tool_call", c)
    BY <1>1, <1>4, <2>1, <2>2
  <2>4. \A j \in 1 .. n - 1 : r[j] = Event("tool_call", c) => j + 1 = i + 1
    BY <1>1, <2>2
  <2>5. \A j \in 1 .. n - 1 : j + 1 = i + 1 => j = i
    BY <1>1
  <2> QED
    BY <1>8, <2>2, <2>3, <2>4, <2>5
<1>11. ASSUME NEW c \in Calls, NEW j \in 1 .. n, q[j] = Event("tool_call", c)
       PROVE  after[c] = "running" \/ (j - 1 \in 1 .. n - 1 /\ r[j - 1] = Event("tool_call", c))
  <2>1. CASE j = 1
    BY <1>1, <1>8, <1>11, <2>1
  <2>2. CASE j # 1
    <3>1. j - 1 \in 1 .. n - 1 /\ (j - 1) + 1 = j
      BY <1>1, <2>2
    <3> QED
      BY <1>1, <1>11, <3>1
  <2> QED
    BY <2>1, <2>2
<1>12. ASSUME NEW c \in Calls, NEW i \in 1 .. n - 1, r[i] = Event("tool_output", c)
       PROVE  /\ after[c] = "running" \/ \E j \in 1 .. i - 1 : r[j] = Event("tool_call", c)
              /\ c <= gc /\ (graph.pc \in Waiting => c # gc)
              /\ \A j \in 1 .. n - 1 : r[j] = Event("tool_output", c) => j = i
  <2>1. i + 1 \in 1 .. n /\ q[i + 1] = Event("tool_output", c) /\ i + 1 # 1
    BY <1>1, <1>12
  <2>2. /\ runs[c] = "running" \/ \E j \in 1 .. (i + 1) - 1 : q[j] = Event("tool_call", c)
        /\ c <= gc /\ (graph.pc \in Waiting => c # gc)
        /\ \A j \in 1 .. n : q[j] = Event("tool_output", c) => j = i + 1
    BY <1>3, <2>1
  <2>3. e # Event("tool_output", c)
    BY <1>1, <1>4, <2>1, <2>2
  <2>4. \A j \in 1 .. n - 1 : r[j] = Event("tool_output", c) => j + 1 = i + 1
    BY <1>1, <2>2
  <2>5. \A j \in 1 .. n - 1 : j + 1 = i + 1 => j = i
    BY <1>1
  <2>6. CASE runs[c] = "running"
    BY <1>8, <2>2, <2>3, <2>4, <2>5, <2>6
  <2>7. ASSUME NEW j \in 1 .. (i + 1) - 1, q[j] = Event("tool_call", c)
        PROVE  after[c] = "running" \/ \E h \in 1 .. i - 1 : r[h] = Event("tool_call", c)
    <3>1. j \in 1 .. n /\ (j - 1 \in 1 .. n - 1 => j - 1 \in 1 .. i - 1)
      BY <1>1
    <3> QED
      BY <1>11, <2>7, <3>1
  <2> QED
    BY <2>2, <2>4, <2>5, <2>6, <2>7
<1>13. ASSUME graph.pc \in Waiting
       PROVE  gc \in Calls /\ (after[gc] = "running" \/ \E j \in 1 .. n - 1 : r[j] = Event("tool_call", gc))
  <2>1. gc \in Calls /\ (runs[gc] = "running" \/ \E j \in 1 .. n : q[j] = Event("tool_call", gc))
    BY <1>3, <1>13
  <2>2. e # Event("tool_output", gc)
    BY <1>1, <1>3, <1>4, <1>13, <2>1
  <2> QED
    BY <1>8, <1>11, <2>1, <2>2
<1>14. CallsOK'
  <2>1. /\ wire'[Connection'] = r /\ Len(r) = n - 1 /\ graph'.call = gc /\ graph'.pc = graph.pc
        /\ screen'.runs = after
    BY <1>1, <1>2, <1>7 DEF k, r, gc, after
  <2>2. \A c \in Calls : screen'.runs[c] # None => c <= graph'.call
    BY <1>9, <2>1
  <2>3. ASSUME NEW c \in Calls, NEW i \in 1 .. Len(wire'[Connection']),
               wire'[Connection'][i] = Event("tool_call", c)
        PROVE  /\ screen'.runs[c] = None /\ c <= graph'.call
               /\ \A j \in 1 .. Len(wire'[Connection']) : wire'[Connection'][j] = Event("tool_call", c) => j = i
    <3>1. i \in 1 .. n - 1 /\ r[i] = Event("tool_call", c)
      BY <2>1, <2>3
    <3>2. after[c] = None /\ c <= gc /\ \A j \in 1 .. n - 1 : r[j] = Event("tool_call", c) => j = i
      BY <1>10, <3>1
    <3> QED
      BY <2>1, <3>2
  <2>4. ASSUME NEW c \in Calls, NEW i \in 1 .. Len(wire'[Connection']),
               wire'[Connection'][i] = Event("tool_output", c)
        PROVE  /\ \/ screen'.runs[c] = "running"
                  \/ \E j \in 1 .. i - 1 : wire'[Connection'][j] = Event("tool_call", c)
               /\ c <= graph'.call /\ (graph'.pc \in Waiting => c # graph'.call)
               /\ \A j \in 1 .. Len(wire'[Connection']) : wire'[Connection'][j] = Event("tool_output", c) => j = i
    <3>1. i \in 1 .. n - 1 /\ r[i] = Event("tool_output", c)
      BY <2>1, <2>4
    <3>2. /\ after[c] = "running" \/ \E j \in 1 .. i - 1 : r[j] = Event("tool_call", c)
          /\ c <= gc /\ (graph.pc \in Waiting => c # gc)
          /\ \A j \in 1 .. n - 1 : r[j] = Event("tool_output", c) => j = i
      BY <1>12, <3>1
    <3> QED
      BY <2>1, <3>2
  <2>5. graph'.pc \in Waiting =>
          /\ graph'.call \in Calls
          /\ \/ screen'.runs[graph'.call] = "running"
             \/ \E j \in 1 .. Len(wire'[Connection']) : wire'[Connection'][j] = Event("tool_call", graph'.call)
    BY <1>13, <2>1
  <2>6. \A c \in Calls, i \in 1 .. Len(wire'[Connection']) :
          Says(i, "tool_call", c)' =>
            /\ screen'.runs[c] = None /\ c <= graph'.call
            /\ \A j \in 1 .. Len(wire'[Connection']) : Says(j, "tool_call", c)' => j = i
    BY <2>3 DEF Says
  <2>7. \A c \in Calls, i \in 1 .. Len(wire'[Connection']) :
          Says(i, "tool_output", c)' =>
            /\ screen'.runs[c] = "running" \/ \E j \in 1 .. i - 1 : Says(j, "tool_call", c)'
            /\ c <= graph'.call /\ (graph'.pc \in Waiting => c # graph'.call)
            /\ \A j \in 1 .. Len(wire'[Connection']) : Says(j, "tool_output", c)' => j = i
    BY <2>4 DEF Says
  <2>8. graph'.pc \in Waiting =>
          /\ graph'.call \in Calls
          /\ \/ screen'.runs[graph'.call] = "running"
             \/ \E j \in 1 .. Len(wire'[Connection']) : Says(j, "tool_call", graph.call)'
    BY <2>5 DEF Says
  <2> QED
    BY <2>2, <2>6, <2>7, <2>8 DEF CallsOK, Waiting
<1> QED
  BY <1>5, <1>14 DEF k, q, e, runs

-----------------------------------------------------------------------------
(* The text on its way *)

LEMMA EndedIsSilent ==
  Ended \in Seq(Events) /\ Len(Ended) = 2 /\ TextOf(Ended) = <<>> /\ TextOf(<<>>) = <<>>
<1>1. Ended \in Seq(Events) /\ Len(Ended) = 2 /\ Ended[1].type = "usage" /\ Ended[2].type = "end"
  BY EventTypes DEF Ended
<1>2. \A i \in 1 .. Len(Ended) : i = 1 \/ i = 2
  BY <1>1
<1>3. TextOf(Ended) = <<>>
  BY <1>1, <1>2, TextSilent
<1> QED
  BY <1>1, <1>3, EventTypes, TextOne

\* What is sent arrives at the end.
LEMMA SendArrives ==
  ASSUME Types, WireOK, Going, NEW events \in Seq(Events), Send(events), received' = received
  PROVE  Arrived' = Arrived \o TextOf(events)
<1> DEFINE a == WordsOf(received)
           b == TextOf(wire["outer"])
           c == TextOf(wire["inner"])
           d == TextOf(events)
<1>1. /\ wire \in [{"outer", "inner"} -> Seq(Events)] /\ wire["outer"] \in Seq(Events)
      /\ wire["inner"] \in Seq(Events) /\ received \in Seq(Pieces)
  BY DEF Types
<1>2. /\ wire'[Connection] = wire[Connection] \o events
      /\ \A h \in {"outer", "inner"} : h # Connection => wire'[h] = wire[h]
  BY Sent
<1>3. a \in Seq(Words) /\ b \in Seq(Words) /\ c \in Seq(Words) /\ d \in Seq(Words)
  BY <1>1, WordsConcat, TextConcat
<1>4. CASE Connection = "outer"
  <2>1. wire["inner"] = <<>> /\ wire'["inner"] = <<>>
    BY <1>2, <1>4, NothingEnded
  <2>2. TextOf(wire'["outer"]) = b \o d
    BY <1>1, <1>2, <1>4, TextConcat
  <2>3. TextOf(wire'["inner"]) = <<>> /\ c = <<>>
    BY <2>1, EndedIsSilent
  <2>4. Arrived' = (a \o (b \o d)) \o <<>>
    BY <2>2, <2>3 DEF Arrived
  <2>5. Arrived = (a \o b) \o <<>>
    BY <2>3 DEF Arrived
  <2> HIDE DEF a, b, d
  <2>6. \A p, q, r \in Seq(Words) : (p \o (q \o r)) \o <<>> = ((p \o q) \o <<>>) \o r
    BY Associative, Concat
  <2>7. (a \o (b \o d)) \o <<>> = ((a \o b) \o <<>>) \o d
    BY <1>3, <2>6, Zenon
  <2> QED
    BY <2>4, <2>5, <2>7 DEF d
<1>5. CASE Connection = "inner"
  <2>1. wire'["outer"] = wire["outer"] /\ TextOf(wire'["inner"]) = c \o d
    BY <1>1, <1>2, <1>5, TextConcat
  <2>2. Arrived' = (a \o b) \o (c \o d) /\ Arrived = (a \o b) \o c
    BY <2>1 DEF Arrived
  <2> HIDE DEF a, b, c, d
  <2>3. a \o b \in Seq(Words)
    BY <1>3, Concat
  <2>4. \A p, q, r \in Seq(Words) : (p \o q) \o r = p \o (q \o r)
    BY Associative
  <2>5. (a \o b) \o (c \o d) = ((a \o b) \o c) \o d
    BY <1>3, <2>3, <2>4, Zenon
  <2> QED
    BY <2>2, <2>5 DEF d
<1> QED
  BY <1>4, <1>5, NothingEnded

\* What an event gives the renderer is its text, or its call.
LEMMA ContentFits ==
  ASSUME NEW e \in Events
  PROVE  /\ Content(e) \in Seq(Pieces) /\ Plain(Content(e)) = Content(e)
         /\ WordsOf(Content(e)) = TextOf(<<e>>)
         /\ \/ Content(e) = <<>>
            \/ Content(e) \in UNION {[1 .. n -> {Word(w) : w \in Words} \union {Call(c) : c \in Calls}] : n \in 1 .. 2}
<1>1. TextOf(<<e>>) = IF e.type = "assistant" THEN e.of ELSE <<>>
  BY TextOne
<1>2. CASE e.type = "assistant"
  <2>1. e.of \in Deltas /\ Content(e) = [i \in DOMAIN e.of |-> Word(e.of[i])]
    BY <1>2, EventTypes DEF Content
  <2> QED
    BY <1>1, <1>2, <2>1, DeltaShown
<1>3. CASE e.type = "tool_call"
  <2> DEFINE p == Call(e.of)
  <2>1. e.of \in Calls /\ Content(e) = <<p>>
    BY <1>3, EventTypes DEF Content
  <2>2. p \in Pieces /\ p.kind = "call"
    BY <2>1, PieceTypes
  <2>3. p \in {Word(w) : w \in Words} \union {Call(c) : c \in Calls}
    BY <2>1
  <2> HIDE DEF p
  <2>4. Plain(<<p>>) = <<p>> /\ WordsOf(<<p>>) = <<>>
    BY <2>2, PlainOne, WordsOne
  <2>5. <<p>> \in Seq(Pieces)
    BY <2>2
  <2>6. <<p>> \in [1 .. 1 -> {Word(w) : w \in Words} \union {Call(c) : c \in Calls}] /\ 1 \in 1 .. 2
    BY <2>3
  <2> QED
    BY <1>1, <1>3, <2>1, <2>4, <2>5, <2>6
<1>4. CASE e.type \notin {"assistant", "tool_call"}
  <2>1. Content(e) = <<>>
    BY <1>4 DEF Content
  <2>2. \E p : p \in Pieces \/ Pieces = {}
    OBVIOUS
  <2>3. <<>> \in Seq(Pieces)
    OBVIOUS
  <2>4. [i \in DOMAIN <<>> |-> IF <<>>[i].kind = "output" THEN <<>> ELSE <<<<>>[i]>>] = <<>>
    OBVIOUS
  <2>5. [i \in DOMAIN <<>> |-> IF <<>>[i].kind = "word" THEN <<<<>>[i].of>> ELSE <<>>] = <<>>
    OBVIOUS
  <2>6. Plain(<<>>) = <<>> /\ WordsOf(<<>>) = <<>>
    BY <2>4, <2>5, FlattenEmpty DEF Plain, WordsOf
  <2> QED
    BY <1>1, <1>4, <2>1, <2>3, <2>6
<1> QED
  BY <1>2, <1>3, <1>4

\* What is read moves from the wire to the renderer.
LEMMA ReadMovesText ==
  ASSUME Types, WireOK, cli \in {"outer", "inner"}, wire[cli] # <<>>,
         wire' = [wire EXCEPT ![cli] = Tail(@)], received' = received \o Content(Head(wire[cli]))
  PROVE  Arrived' = Arrived
<1> DEFINE e == Head(wire[cli])
           a == WordsOf(received)
           b == TextOf(wire["outer"])
           c == TextOf(wire["inner"])
           x == TextOf(<<e>>)
           r == TextOf(wire'[cli])
<1>1. /\ wire' \in [{"outer", "inner"} -> Seq(Events)] /\ e \in Events
      /\ \A h \in {"outer", "inner"} : h # cli => wire'[h] = wire[h]
      /\ wire[cli] = <<e>> \o wire'[cli]
  BY Taken
<1>2. wire["outer"] \in Seq(Events) /\ wire["inner"] \in Seq(Events) /\ received \in Seq(Pieces)
  BY DEF Types
<1>3. <<e>> \in Seq(Events) /\ wire'[cli] \in Seq(Events)
  <2> HIDE DEF e
  <2> QED
    BY <1>1
<1>4. Content(e) \in Seq(Pieces) /\ WordsOf(Content(e)) = x
  BY <1>1, ContentFits
<1>5. WordsOf(received') = a \o x
  <2>1. WordsOf(received \o Content(e)) = WordsOf(received) \o WordsOf(Content(e))
    BY <1>2, <1>4, WordsConcat
  <2> QED
    BY <1>4, <2>1
<1>6. TextOf(wire[cli]) = x \o r
  <2>1. TextOf(<<e>> \o wire'[cli]) = TextOf(<<e>>) \o TextOf(wire'[cli])
    <3> HIDE DEF e
    <3> QED
      BY <1>3, TextConcat
  <2> QED
    BY <1>1, <2>1
<1>7. a \in Seq(Words) /\ b \in Seq(Words) /\ c \in Seq(Words) /\ x \in Seq(Words) /\ r \in Seq(Words)
  BY <1>2, <1>3, WordsConcat, TextConcat
<1>8. CASE cli = "outer"
  <2>1. b = x \o r /\ TextOf(wire'["inner"]) = c
    BY <1>1, <1>6, <1>8
  <2>2. Arrived' = ((a \o x) \o r) \o c /\ Arrived = (a \o (x \o r)) \o c
    BY <1>5, <1>8, <2>1 DEF Arrived
  <2> HIDE DEF a, c, x, r
  <2>3. (a \o x) \o r = a \o (x \o r)
    <3>1. a \in Seq(Words) /\ x \in Seq(Words) /\ r \in Seq(Words)
      BY <1>7
    <3>2. \A p, q, t \in Seq(Words) : (p \o q) \o t = p \o (q \o t)
      BY Regroup
    <3> QED
      BY <3>1, <3>2, Zenon
  <2> QED
    BY <2>2, <2>3
<1>9. CASE cli = "inner"
  <2>1. wire["outer"] = Ended /\ wire'["outer"] = Ended
    BY <1>1, <1>9 DEF WireOK
  <2>2. b = <<>> /\ TextOf(wire'["outer"]) = <<>>
    BY <2>1, EndedIsSilent
  <2>3. Arrived' = ((a \o x) \o <<>>) \o r /\ Arrived = (a \o <<>>) \o (x \o r)
    BY <1>5, <1>6, <1>9, <2>2 DEF Arrived
  <2> HIDE DEF a, x, r
  <2>4. (a \o x) \o r = a \o (x \o r)
    <3>1. a \in Seq(Words) /\ x \in Seq(Words) /\ r \in Seq(Words)
      BY <1>7
    <3>2. \A p, q, t \in Seq(Words) : (p \o q) \o t = p \o (q \o t)
      BY Regroup
    <3> QED
      BY <3>1, <3>2, Zenon
  <2>5. a \o x \in Seq(Words)
    BY <1>7
  <2>6. (a \o x) \o <<>> = a \o x /\ a \o <<>> = a
    BY <1>7, <2>5, Concat
  <2> QED
    BY <2>3, <2>4, <2>6
<1> QED
  BY <1>8, <1>9

\* A chunk that begins with all the text before it adds what follows.
LEMMA DeltaIsNew ==
  ASSUME NEW before \in Seq(Words), NEW new \in Seq(Words)
  PROVE  /\ Delta(before, before \o new) = new /\ Delta(<<>>, new) = new
         /\ ~IsPrefix(before, new) => Delta(before, new) = new
         /\ <<>> \o new = new
<1> DEFINE m == Len(before)
           n == Len(new)
           all == before \o new
<1>1. /\ all \in Seq(Words) /\ Len(all) = m + n /\ m \in Nat /\ n \in Nat
      /\ \A i \in 1 .. m + n : all[i] = IF i <= m THEN before[i] ELSE new[i - m]
  BY Concat
<1>2. SubSeq(all, m + 1, m + n) = new
  <2> DEFINE last == SubSeq(all, m + 1, m + n)
  <2> HIDE DEF m, n, all
  <2>1. last \in Seq(Words) /\ Len(last) = n /\ \A i \in 1 .. n : last[i] = all[m + i]
    BY <1>1
  <2>2. \A i \in 1 .. n : m + i \in 1 .. m + n /\ ~(m + i <= m) /\ (m + i) - m = i
    BY <1>1
  <2>3. \A i \in 1 .. n : last[i] = new[i]
    BY <1>1, <2>1, <2>2
  <2> HIDE DEF last
  <2>4. last = new
    BY <2>1, <2>3 DEF n
  <2> QED
    BY <2>4 DEF last
<1>3. SubSeq(before, 1, m) = SubSeq(all, 1, m)
  <2> DEFINE first == SubSeq(all, 1, m)
             same == SubSeq(before, 1, m)
  <2> HIDE DEF n, all
  <2>1. first \in Seq(Words) /\ Len(first) = m /\ \A i \in 1 .. m : first[i] = all[i]
    BY <1>1
  <2>2. same \in Seq(Words) /\ Len(same) = m /\ \A i \in 1 .. m : same[i] = before[i]
    OBVIOUS
  <2>3. \A i \in 1 .. m : i \in 1 .. m + n /\ i <= m
    BY <1>1
  <2>4. \A i \in 1 .. Len(first) : first[i] = same[i]
    BY <1>1, <2>1, <2>2, <2>3
  <2> HIDE DEF first, same
  <2>5. first = same
    BY <2>1, <2>2, <2>4
  <2> QED
    BY <2>5 DEF first, same
<1>4. IsPrefix(before, all)
  <2> HIDE DEF all
  <2>1. Len(before) <= Len(all)
    BY <1>1
  <2> QED
    BY <1>3, <2>1 DEF IsPrefix
<1>5. Delta(before, all) = new
  <2> HIDE DEF all
  <2>1. Delta(before, all) = SubSeq(all, m + 1, Len(all))
    BY <1>4 DEF Delta
  <2> QED
    BY <1>1, <1>2, <2>1
<1>6. Delta(<<>>, new) = new
  <2>1. Len(<<>>) = 0 /\ SubSeq(<<>>, 1, 0) = <<>> /\ SubSeq(new, 1, 0) = <<>> /\ SubSeq(new, 0 + 1, n) = new
    OBVIOUS
  <2>2. IsPrefix(<<>>, new)
    BY <1>1, <2>1 DEF IsPrefix
  <2> QED
    BY <2>1, <2>2 DEF Delta
<1>7. ~IsPrefix(before, new) => Delta(before, new) = new
  BY DEF Delta
<1> QED
  BY <1>5, <1>6, <1>7, Concat

-----------------------------------------------------------------------------
(* The screen in a step *)

LEMMA BlankIsTidy ==
  /\ Blank \in Screens /\ Tidy(Blank) /\ ~Blank.live /\ ~Blank.drawn /\ Blank.frame = <<>>
  /\ Blank.scrolled = <<>> /\ Whole(Blank) = <<>> /\ Plain(<<>>) = <<>>
  /\ \A c \in Calls : Blank.runs[c] = None /\ Kept(Blank, c)
<1>1. /\ Blank.segments = <<>> /\ Blank.scrolled = <<>> /\ Blank.frame = <<>>
      /\ Blank.live = FALSE /\ Blank.drawn = FALSE /\ \A c \in Calls : Blank.runs[c] = None
      /\ Blank.runs = [c \in Calls |-> None] /\ Len(<<>>) = 0
  BY DEF Blank
<1>2. Blank \in Screens
  BY DEF Blank, Screens
<1>3. /\ [i \in DOMAIN <<>> |-> IF <<>>[i].kind = "output" THEN <<>> ELSE <<<<>>[i]>>] = <<>>
      /\ [i \in DOMAIN <<>> |-> Lines(Blank, <<>>[i])] = <<>>
  OBVIOUS
<1>4. Plain(<<>>) = <<>> /\ Frame(Blank, <<>>) = <<>>
  BY <1>3, FlattenEmpty DEF Plain, Frame
<1>5. Whole(Blank) = <<>>
  BY <1>1, <1>4 DEF Whole
<1>6. \A c \in Calls : None # "done"
  BY ConversationAssumption
<1>7. 1 .. 0 = {}
  OBVIOUS
<1>8. Tidy(Blank) /\ \A c \in Calls : Kept(Blank, c)
  BY <1>1, <1>6, <1>7 DEF Tidy, Kept, Holds
<1> QED
  BY <1>1, <1>2, <1>4, <1>5, <1>8

\* A step without the renderer
LEMMA SameScreen ==
  ASSUME ScreenOK, OutputsOK, screen' = screen, terminal' = terminal, received' = received, late' = late,
         Open' = Open, ~Over \/ Over'
  PROVE  ScreenOK' /\ OutputsOK'
<1>1. ScreenOK'
  BY DEF ScreenOK
<1>2. \A c \in Calls : Kept(screen, c)' = Kept(screen, c) /\ UnderItsCall(screen.scrolled, c)' = UnderItsCall(screen.scrolled, c)
  BY DEF Kept, UnderItsCall
<1>3. Tidy(screen)' = Tidy(screen)
  BY DEF Tidy, Holds
<1>4. OutputsOK'
  BY <1>2, <1>3 DEF OutputsOK
<1> QED
  BY <1>1, <1>4

\* The frame is flushed: all is shown.
LEMMA FlushKeepsScreen ==
  ASSUME Types, ScreenOK, OutputsOK, screen' \in FlushLive(screen), terminal' = terminal,
         received' = received, late' = late, ~Open' \/ Over'
  PROVE  /\ screen' \in Screens /\ screen'.runs = screen.runs /\ ScreenOK' /\ OutputsOK'
         /\ Plain(Shown') = received
<1>1. screen \in Screens /\ terminal \in BOOLEAN
  BY DEF Types
<1>2. /\ screen' \in Screens /\ screen'.runs = screen.runs /\ ~screen'.live
      /\ ~screen.live => screen' = screen
      /\ screen.live => screen'.scrolled = Whole(screen) /\ screen'.frame = <<>>
      /\ screen.live /\ Tidy(screen) => \A c \in Calls :
           Kept(screen, c) /\ screen.runs[c] = "done" => UnderItsCall(screen'.scrolled, c)
  BY <1>1, FlushShowsAll
<1>3. screen'.frame = <<>> /\ Plain(screen'.scrolled) = received
  BY <1>2 DEF ScreenOK
<1>4. ScreenOK'
  BY <1>2, <1>3 DEF ScreenOK
<1>5. Plain(Shown') = received
  <2>1. screen'.scrolled \in Seq(Pieces)
    BY <1>2 DEF Screens
  <2>2. Shown' = screen'.scrolled
    BY <1>3, <2>1, Concat DEF Shown
  <2> QED
    BY <1>3, <2>2
<1>6. \A c \in Calls \ late : screen'.runs[c] = "done" => UnderItsCall(screen'.scrolled, c)
  <2>1. CASE screen.live
    <3>1. terminal
      BY <2>1 DEF ScreenOK
    <3>2. Tidy(screen) /\ \A c \in Calls \ late : Kept(screen, c)
      BY <2>1, <3>1 DEF OutputsOK
    <3> QED
      BY <1>2, <2>1, <3>2
  <2>2. CASE ~screen.live
    BY <1>2, <2>2 DEF OutputsOK
  <2> QED
    BY <2>1, <2>2
<1>7. terminal /\ screen' = Blank => Tidy(screen') /\ \A c \in Calls \ late : Kept(screen', c)
  BY BlankIsTidy
<1>8. ~terminal => \A c \in Calls :
        /\ screen'.runs[c] # None => screen'.scrolled # <<>>
        /\ screen'.runs[c] # "done" =>
             \A i \in 1 .. Len(screen'.scrolled) : screen'.scrolled[i] # Output(c)
  BY <1>2 DEF OutputsOK, ScreenOK
<1>9. OutputsOK'
  BY <1>2, <1>6, <1>7, <1>8 DEF OutputsOK, UnderItsCall, Tidy, Kept, Holds
<1> QED
  BY <1>2, <1>4, <1>5, <1>9

\* A step that draws: all that has come in is there.
LEMMA GrowthKeepsScreen ==
  ASSUME ScreenOK, terminal, terminal' = terminal, Open', screen \in Screens,
         Plain(Whole(screen)) = received,
         NEW more, Grows(screen, screen', more), received' = received \o more,
         \A c \in Calls \ late' : Kept(screen', c)
  PROVE  /\ screen' \in Screens /\ ScreenOK' /\ OutputsOK'
         /\ Plain(Shown') \in {Plain(Shown), received'}
<1>1. screen' \in Screens /\ screen'.live /\ Tidy(screen') /\ Plain(Whole(screen')) = received'
  BY DEF Grows
<1>2. Plain(Shown') \in {Plain(Shown), received'}
  BY <1>1 DEF Grows, Shown
<1>3. ScreenOK'
  BY <1>1 DEF ScreenOK, Whole, Frame, Lines
<1>4. Tidy(screen)' /\ \A c \in Calls \ late' : Kept(screen, c)'
  BY <1>1 DEF Tidy, Kept, Holds, UnderItsCall
<1>5. OutputsOK'
  BY <1>1, <1>4 DEF OutputsOK
<1> QED
  BY <1>1, <1>2, <1>3, <1>5

\* What ReadEvent does, whatever the event is
LEMMA ReadFacts ==
  ASSUME Types, WireOK, CallsOK, ReadEvent, NEW e, e = Head(wire[cli])
  PROVE  /\ e \in Events /\ cli \in {"outer", "inner"} /\ Open /\ Open' /\ ~Over
         /\ e.type \in {"assistant", "tool_call", "tool_output", "usage", "error", "approval_required"}
         /\ e.type = "error" => Over'
         /\ terminal' = terminal /\ cli' = cli /\ graph' = graph /\ screen' \in RenderEvent(screen, e)
         /\ received' = received \o Content(e) /\ WireOK'
         /\ late' = IF e.type = "tool_output" /\ Run(e.of) \notin Range(screen.segments)
                      THEN late \union {e.of} ELSE late
         /\ wire' = [wire EXCEPT ![cli] = Tail(@)] /\ wire[cli] # <<>>
<1>1. /\ cli \in {"outer", "inner"} /\ wire[cli] # <<>> /\ e.type \notin {"end", "broken"}
      /\ cli = "outer" => e.type # "approval_required"
      /\ terminal' = terminal /\ cli' = cli /\ graph' = graph /\ screen' \in RenderEvent(screen, e)
      /\ received' = received \o Content(e)
      /\ late' = IF e.type = "tool_output" /\ Run(e.of) \notin Range(screen.segments)
                   THEN late \union {e.of} ELSE late
      /\ wire' = [wire EXCEPT ![cli] = Tail(@)]
  BY DEF ReadEvent
<1>2. e \in Events /\ wire[cli] \in Seq(Events) /\ e = wire[cli][1] /\ Len(wire[cli]) \in Nat \ {0}
  BY <1>1, Taken
<1>3. e.type \in {"assistant", "tool_call", "tool_output", "usage", "end", "error", "broken", "approval_required"}
  BY <1>2 DEF Events, Event
<1>4. Open /\ Open'
  BY <1>1 DEF Open
<1>5. WireOK' /\ (cli = "outer" /\ e.type = "error" => wire'["outer"] = <<Event("end", None)>>)
  BY <1>1, ReadKeepsWire
<1>6. e.type = "error" => cli = "outer"
  <2>1. 1 \in 1 .. Len(wire[cli])
    BY <1>2
  <2> QED
    BY <1>1, <1>2, <2>1 DEF WireOK
<1>7. ~Over
  <2> SUFFICES ASSUME Over
               PROVE  FALSE
    OBVIOUS
  <2>1. e = Event("end", None)
    BY DEF Over
  <2> QED
    BY <1>1, <2>1, EventTypes
<1> QED
  BY <1>1, <1>2, <1>3, <1>4, <1>5, <1>6, <1>7 DEF Over

ReadDone ==
  /\ screen' \in Screens /\ screen'.runs = RunsAfter(screen.runs, Head(wire[cli]))
  /\ late' \subseteq Calls /\ ScreenOK' /\ OutputsOK'
  /\ Plain(Shown') \in {Plain(Shown), received'}

LEMMA ReadInTerminal ==
  ASSUME CInv, ReadEvent, terminal
  PROVE  ReadDone
<1> DEFINE e == Head(wire[cli])
<1>1. /\ e \in Events /\ cli \in {"outer", "inner"} /\ Open /\ Open' /\ ~Over
      /\ e.type \in {"assistant", "tool_call", "tool_output", "usage", "error", "approval_required"}
      /\ e.type = "error" => Over'
      /\ terminal' = terminal /\ cli' = cli /\ graph' = graph /\ screen' \in RenderEvent(screen, e)
      /\ received' = received \o Content(e)
      /\ late' = IF e.type = "tool_output" /\ Run(e.of) \notin Range(screen.segments)
                   THEN late \union {e.of} ELSE late
  BY ReadFacts DEF CInv
<1>2. \A c \in Calls : /\ e = Event("tool_call", c) => screen.runs[c] = None
                       /\ e = Event("tool_output", c) => screen.runs[c] = "running"
  <2>1. CallsOK /\ Types
    BY DEF CInv
  <2> DEFINE k == Connection
  <2>2. k = cli /\ e = wire[k][1] /\ 1 \in 1 .. Len(wire[k])
    <3>1. wire[cli] # <<>> /\ wire' = [wire EXCEPT ![cli] = Tail(@)]
      BY DEF ReadEvent
    <3>2. cli = Connection /\ e = wire[cli][1] /\ Len(wire[cli]) \in Nat \ {0}
      BY <1>1, <2>1, <3>1, Taken
    <3> QED
      BY <3>2
  <2> HIDE DEF k, e
  <2>3. \A c \in Calls : e = Event("tool_call", c) => screen.runs[c] = None
    BY <2>1, <2>2 DEF CallsOK, Says, k
  <2>4. \A c \in Calls : e = Event("tool_output", c) =>
          screen.runs[c] = "running" \/ \E j \in 1 .. 1 - 1 : Says(j, "tool_call", c)
    BY <2>1, <2>2 DEF CallsOK, Says, k
  <2>5. 1 .. 1 - 1 = {}
    OBVIOUS
  <2> QED
    BY <2>3, <2>4, <2>5
<1>3. /\ screen \in Screens /\ received \in Seq(Pieces) /\ late \subseteq Calls
      /\ ScreenOK /\ OutputsOK /\ Types
  BY DEF CInv, Types
<1>4. screen.live \/ screen = Blank
  BY <1>1, <1>3 DEF ScreenOK
<1>5. /\ Plain(Whole(screen)) = received /\ (screen.live \/ ~screen.drawn)
      /\ Tidy(screen) /\ \A c \in Calls \ late : Kept(screen, c)
  <2>1. Tidy(screen) /\ \A c \in Calls \ late : Kept(screen, c)
    BY <1>3, <1>4 DEF OutputsOK
  <2>2. CASE screen.live
    BY <1>3, <2>1, <2>2 DEF ScreenOK
  <2>3. CASE ~screen.live
    <3>1. screen = Blank /\ Plain(screen.scrolled) = received
      BY <1>3, <1>4, <2>3 DEF ScreenOK
    <3> QED
      BY <2>1, <3>1, BlankIsTidy
  <2> QED
    BY <2>2, <2>3
<1>6. e = Event(e.type, e.of)
  BY <1>1, EventTypes
<1> HIDE DEF e
<1>7. ASSUME Grows(screen, screen', Content(e)), \A c \in Calls \ late' : Kept(screen', c),
             screen'.runs = RunsAfter(screen.runs, e), late' \subseteq Calls
      PROVE  ReadDone
  <2>1. /\ screen' \in Screens /\ ScreenOK' /\ OutputsOK' /\ Plain(Shown') \in {Plain(Shown), received'}
    BY <1>1, <1>3, <1>5, <1>7, GrowthKeepsScreen
  <2> QED
    BY <1>7, <2>1 DEF ReadDone, e
<1>8. ASSUME screen' = screen, received' = received, late' = late,
             e.type \notin {"tool_call", "tool_output"}
      PROVE  ReadDone
  <2>1. Open' = Open
    BY <1>1 DEF Open
  <2>2. ScreenOK' /\ OutputsOK'
    BY <1>1, <1>3, <1>8, <2>1, SameScreen
  <2>3. screen'.runs = RunsAfter(screen.runs, e)
    BY <1>8, RunsAfterIs
  <2> QED
    BY <1>3, <1>8, <2>2, <2>3 DEF ReadDone, e, Shown
<1>9. CASE e.type = "assistant"
  <2>1. /\ e.of \in Deltas /\ Content(e) = [i \in DOMAIN e.of |-> Word(e.of[i])]
        /\ screen' \in OnAssistant(screen, e.of) /\ late' = late
    BY <1>1, <1>9, EventTypes DEF Content, RenderEvent
  <2>2. /\ Grows(screen, screen', Content(e)) /\ screen'.runs = screen.runs
        /\ \A c \in Calls : Kept(screen, c) => Kept(screen', c)
    BY <1>3, <1>5, <2>1, TerminalText
  <2>3. RunsAfter(screen.runs, e) = screen.runs
    BY <1>9, RunsAfterIs
  <2> QED
    BY <1>3, <1>5, <1>7, <2>1, <2>2, <2>3
<1>10. CASE e.type = "tool_call"
  <2>1. /\ e.of \in Calls /\ Content(e) = <<Call(e.of)>>
        /\ screen' \in OnToolCall(screen, e.of) /\ late' = late
    BY <1>1, <1>10, EventTypes DEF Content, RenderEvent
  <2>2. screen.runs[e.of] = None
    BY <1>2, <1>6, <1>10, <2>1
  <2>3. /\ Grows(screen, screen', Content(e)) /\ screen'.runs = [screen.runs EXCEPT ![e.of] = "running"]
        /\ \A c \in Calls : Kept(screen, c) => Kept(screen', c)
    <3> DEFINE c0 == e.of
    <3>1. screen \in Screens /\ (screen.live \/ ~screen.drawn) /\ Tidy(screen) /\ c0 \in Calls
          /\ screen.runs[c0] = None /\ screen' \in OnToolCall(screen, c0)
      BY <1>3, <1>5, <2>1, <2>2
    <3> HIDE DEF c0
    <3>2. /\ Grows(screen, screen', <<Call(c0)>>) /\ screen'.runs = [screen.runs EXCEPT ![c0] = "running"]
          /\ \A c \in Calls : Kept(screen, c) => Kept(screen', c)
      BY <3>1, TerminalCall
    <3> QED
      BY <2>1, <3>2 DEF c0
  <2>4. RunsAfter(screen.runs, e) = [screen.runs EXCEPT ![e.of] = "running"]
    BY <1>10 DEF RunsAfter
  <2> QED
    BY <1>3, <1>5, <1>7, <2>1, <2>3, <2>4
<1>11. CASE e.type = "tool_output"
  <2>1. /\ e.of \in Calls /\ Content(e) = <<>> /\ screen' \in OnToolOutput(screen, e.of)
        /\ late' = IF Run(e.of) \notin Range(screen.segments) THEN late \union {e.of} ELSE late
    BY <1>1, <1>11, EventTypes DEF Content, RenderEvent
  <2>2. screen.runs[e.of] = "running"
    BY <1>2, <1>6, <1>11, <2>1
  <2>3. /\ Grows(screen, screen', Content(e)) /\ screen'.runs = [screen.runs EXCEPT ![e.of] = "done"]
        /\ \A c \in Calls : Kept(screen, c) /\ (c = e.of => Holds(screen, e.of)) => Kept(screen', c)
    BY <1>3, <1>5, <2>1, <2>2, TerminalOutput
  <2>4. RunsAfter(screen.runs, e) = [screen.runs EXCEPT ![e.of] = "done"]
    BY <1>11 DEF RunsAfter
  <2>5. ASSUME Run(e.of) \in Range(screen.segments)
        PROVE  Holds(screen, e.of)
    <3>1. DOMAIN screen.segments = 1 .. Len(screen.segments)
      BY <1>3 DEF Screens
    <3>2. PICK i \in 1 .. Len(screen.segments) : screen.segments[i] = Run(e.of)
      BY <2>5, <3>1 DEF Range
    <3> QED
      BY <3>2 DEF Holds, Run
  <2>6. \A c \in Calls \ late' : Kept(screen', c)
    BY <1>5, <2>1, <2>3, <2>5
  <2> QED
    BY <1>3, <1>7, <2>1, <2>3, <2>4, <2>6
<1>12. CASE e.type = "usage"
  <2>1. Content(e) = <<>> /\ screen' \in OnUsage(screen) /\ late' = late /\ received' = received
    <3>1. Content(e) = <<>> /\ screen' \in OnUsage(screen) /\ late' = late
      BY <1>1, <1>12 DEF Content, RenderEvent
    <3> QED
      BY <1>1, <1>3, <3>1, Concat
  <2>2. CASE ~screen.live
    BY <1>8, <1>12, <2>1, <2>2 DEF OnUsage
  <2>3. CASE screen.live
    <3>1. screen' \in Draw(screen)
      BY <2>1, <2>3 DEF OnUsage
    <3>2. Refreshed(screen, screen')
      BY <1>3, <1>5, <3>1, RefreshRefreshes
    <3>3. Plain(Frame(screen, screen.segments)) = Plain(Frame(screen, screen.segments)) \o <<>> /\ <<>> \in Seq(Pieces)
      <4>1. screen.segments \in Seq(Segments)
        BY <1>3 DEF Screens
      <4>2. Frame(screen, screen.segments) \in Seq(Pieces)
        BY <1>3, <4>1, FrameParts
      <4>3. Plain(Frame(screen, screen.segments)) \in Seq(Pieces)
        BY <4>2, PlainConcat
      <4> QED
        BY <4>3, Concat
    <3>4. /\ Grows(screen, screen', <<>>) /\ screen'.runs = screen.runs
          /\ \A c \in Calls : Kept(screen, c) => Kept(screen', c)
      BY <1>3, <1>5, <3>2, <3>3, RefreshGrows
    <3>5. RunsAfter(screen.runs, e) = screen.runs
      BY <1>12, RunsAfterIs
    <3> QED
      BY <1>3, <1>5, <1>7, <2>1, <3>4, <3>5
  <2> QED
    BY <2>2, <2>3
<1>13. CASE e.type = "error"
  <2>1. Content(e) = <<>> /\ screen' \in FlushLive(screen) /\ late' = late /\ received' = received
    <3>1. Content(e) = <<>> /\ screen' \in FlushLive(screen) /\ late' = late
      BY <1>1, <1>13 DEF Content, RenderEvent, ShowError
    <3> QED
      BY <1>1, <1>3, <3>1, Concat
  <2>2. /\ screen' \in Screens /\ screen'.runs = screen.runs /\ ScreenOK' /\ OutputsOK'
        /\ Plain(Shown') = received
    BY <1>1, <1>3, <1>13, <2>1, FlushKeepsScreen
  <2>3. RunsAfter(screen.runs, e) = screen.runs
    BY <1>13, RunsAfterIs
  <2> QED
    BY <1>3, <2>1, <2>2, <2>3 DEF ReadDone, e
<1>14. CASE e.type = "approval_required"
  <2>1. Content(e) = <<>> /\ screen' = screen /\ late' = late
    BY <1>1, <1>14 DEF Content, RenderEvent
  <2>2. received' = received
    BY <1>1, <1>3, <2>1, Concat
  <2> QED
    BY <1>8, <1>14, <2>1, <2>2
<1> QED
  BY <1>1, <1>9, <1>10, <1>11, <1>12, <1>13, <1>14

\* Without a terminal, one line more is printed.
LEMMA PrintKeepsScreen ==
  ASSUME ScreenOK, OutputsOK, screen \in Screens, screen' \in Screens, received \in Seq(Pieces),
         ~terminal, terminal' = terminal,
         NEW more \in Seq(Pieces), screen'.scrolled = screen.scrolled \o more,
         screen'.live = screen.live, screen'.frame = screen.frame,
         received' = received \o Plain(more), late' = late \/ late \subseteq late',
         \A c \in Calls :
           \/ /\ screen'.runs[c] = screen.runs[c]
              /\ \A j \in 1 .. Len(more) : more[j] # Output(c)
           \/ screen'.runs[c] = "running" /\ more # <<>> /\ screen.runs[c] = None
              /\ \A j \in 1 .. Len(more) : more[j] # Output(c)
           \/ screen'.runs[c] = "done" /\ screen.runs[c] = "running" /\ more = <<Output(c)>>
  PROVE  ScreenOK' /\ OutputsOK' /\ Plain(Shown') = received'
<1>1. /\ ~screen.live /\ screen.frame = <<>> /\ Plain(screen.scrolled) = received
      /\ screen.scrolled \in Seq(Pieces) /\ screen'.scrolled \in Seq(Pieces)
  <2>1. ~screen.live
    BY DEF ScreenOK
  <2>2. screen.frame = <<>> /\ Plain(screen.scrolled) = received
    BY <2>1 DEF ScreenOK
  <2>3. screen.scrolled \in Seq(Pieces) /\ screen'.scrolled \in Seq(Pieces)
    BY DEF Screens
  <2> QED
    BY <2>1, <2>2, <2>3
<1>2. Plain(screen'.scrolled) = received'
  <2>1. Plain(screen.scrolled \o more) = Plain(screen.scrolled) \o Plain(more)
    BY <1>1, PlainConcat
  <2> QED
    BY <1>1, <2>1
<1>3. ScreenOK'
  <2>1. ~screen'.live /\ screen'.frame = <<>> /\ Plain(screen'.scrolled) = received'
    BY <1>1, <1>2
  <2>2. ~terminal'
    BY <1>1
  <2> QED
    BY <2>1, <2>2 DEF ScreenOK
<1>4. Plain(Shown') = received'
  BY <1>1, <1>2, Concat DEF Shown
<1> DEFINE n == Len(screen.scrolled)
           m == Len(more)
<1>5. /\ n \in Nat /\ m \in Nat /\ Len(screen'.scrolled) = n + m
      /\ \A i \in 1 .. n + m : screen'.scrolled[i] = IF i <= n THEN screen.scrolled[i] ELSE more[i - n]
  BY <1>1, Concat
<1>6. \A c \in Calls : /\ screen.runs[c] # None => screen.scrolled # <<>>
                       /\ screen.runs[c] # "done" => \A i \in 1 .. n : screen.scrolled[i] # Output(c)
                       /\ c \notin late /\ screen.runs[c] = "done" => UnderItsCall(screen.scrolled, c)
  BY <1>1 DEF OutputsOK
<1>7. /\ screen.scrolled # <<>> => screen'.scrolled # <<>>
      /\ more # <<>> => screen'.scrolled # <<>>
  BY <1>1
<1>8. ASSUME NEW c \in Calls
      PROVE  /\ screen'.runs[c] # None => screen'.scrolled # <<>>
             /\ screen'.runs[c] # "done" => \A i \in 1 .. n + m : screen'.scrolled[i] # Output(c)
             /\ c \notin late /\ screen'.runs[c] = "done" => UnderItsCall(screen'.scrolled, c)
  <2>1. CASE \A j \in 1 .. m : more[j] # Output(c)
    <3>1. screen'.runs[c] = "done" => screen.runs[c] = "done"
      <4>1. Output(c) = <<Output(c)>>[1] /\ 1 \in 1 .. Len(<<Output(c)>>)
        OBVIOUS
      <4> QED
        BY <2>1, <4>1
    <3>2. screen'.runs[c] # None => screen'.scrolled # <<>>
      <4>1. <<Output(c)>> # <<>>
        OBVIOUS
      <4> QED
        BY <1>6, <1>7, <4>1
    <3>3. ASSUME screen'.runs[c] # "done", NEW i \in 1 .. n + m
          PROVE  screen'.scrolled[i] # Output(c)
      <4>1. screen.runs[c] # "done"
        BY <3>3, ConversationAssumption
      <4>2. CASE i <= n
        <5>1. i \in 1 .. n
          BY <1>5, <4>2
        <5> QED
          BY <1>5, <1>6, <4>1, <4>2, <5>1
      <4>3. CASE ~(i <= n)
        <5>1. i - n \in 1 .. m
          BY <1>5, <4>3
        <5> QED
          BY <1>5, <2>1, <4>3, <5>1
      <4> QED
        BY <4>2, <4>3
    <3>4. ASSUME c \notin late, screen'.runs[c] = "done"
          PROVE  UnderItsCall(screen'.scrolled, c)
      BY <1>1, <1>6, <2>1, <3>1, <3>4, UnderAppend
    <3> QED
      BY <3>2, <3>3, <3>4
  <2>2. CASE screen'.runs[c] = "done" /\ screen.runs[c] = "running" /\ more = <<Output(c)>>
    <3>1. screen.scrolled # <<>> /\ n >= 1 /\ m = 1 /\ more[1] = Output(c)
      <4>1. screen.scrolled # <<>>
        BY <1>6, <2>2, ConversationAssumption
      <4> QED
        BY <1>1, <2>2, <4>1
    <3>2. screen'.scrolled # <<>>
      BY <1>7, <3>1
    <3>3. \A i \in 1 .. n : screen.scrolled[i] # Output(c)
      <4>1. screen.runs[c] # "done"
        BY <2>2
      <4> QED
        BY <1>6, <4>1
    <3>4. n + 1 \in 2 .. Len(screen'.scrolled) /\ Len(screen'.scrolled) = n + 1
      BY <1>5, <3>1
    <3>5. \A j \in 1 .. n + 1 : screen'.scrolled[j] = Output(c) <=> j = n + 1
      <4> HIDE DEF n, m
      <4> TAKE j \in 1 .. n + 1
      <4>1. CASE j <= n
        <5>1. j \in 1 .. n /\ j # n + 1 /\ j \in 1 .. n + m
          BY <1>5, <3>1, <4>1
        <5> QED
          BY <1>5, <3>3, <4>1, <5>1
      <4>2. CASE ~(j <= n)
        <5>1. j = n + 1 /\ j - n = 1 /\ j \in 1 .. n + m
          BY <1>5, <3>1, <4>2
        <5> QED
          BY <1>5, <3>1, <4>2, <5>1
      <4> QED
        BY <4>1, <4>2
    <3>6. UnderItsCall(screen'.scrolled, c)
      <4> HIDE DEF n, m
      <4> QED
        BY <3>4, <3>5 DEF UnderItsCall
    <3> QED
      BY <2>2, <3>2, <3>6
  <2> QED
    BY <2>1, <2>2
<1>9. \A c \in Calls \ late' : c \notin late
  OBVIOUS
<1>10. OutputsOK'
  <2>1. Len(screen'.scrolled) = n + m
    BY <1>5
  <2> HIDE DEF n, m
  <2>2. ~terminal' /\ ~screen'.live
    BY <1>1
  <2>3. \A c \in Calls : UnderItsCall(screen'.scrolled, c) => UnderItsCall(screen.scrolled, c)'
    BY DEF UnderItsCall
  <2> QED
    BY <1>8, <1>9, <2>1, <2>2, <2>3 DEF OutputsOK
<1> QED
  BY <1>3, <1>4, <1>10

LEMMA ReadOnPaper ==
  ASSUME CInv, ReadEvent, ~terminal
  PROVE  ReadDone
<1> DEFINE e == Head(wire[cli])
<1>1. /\ e \in Events /\ cli \in {"outer", "inner"} /\ Open /\ Open' /\ ~Over
      /\ e.type \in {"assistant", "tool_call", "tool_output", "usage", "error", "approval_required"}
      /\ terminal' = terminal /\ cli' = cli /\ graph' = graph /\ screen' \in RenderEvent(screen, e)
      /\ received' = received \o Content(e)
      /\ late' = IF e.type = "tool_output" /\ Run(e.of) \notin Range(screen.segments)
                   THEN late \union {e.of} ELSE late
  BY ReadFacts DEF CInv
<1>2. \A c \in Calls : /\ e = Event("tool_call", c) => screen.runs[c] = None
                       /\ e = Event("tool_output", c) => screen.runs[c] = "running"
  <2>1. CallsOK /\ Types
    BY DEF CInv
  <2> DEFINE k == Connection
  <2>2. k = cli /\ e = wire[k][1] /\ 1 \in 1 .. Len(wire[k])
    <3>1. wire[cli] # <<>> /\ wire' = [wire EXCEPT ![cli] = Tail(@)]
      BY DEF ReadEvent
    <3>2. cli = Connection /\ e = wire[cli][1] /\ Len(wire[cli]) \in Nat \ {0}
      BY <1>1, <2>1, <3>1, Taken
    <3> QED
      BY <3>2
  <2> HIDE DEF k, e
  <2>3. \A c \in Calls : e = Event("tool_call", c) => screen.runs[c] = None
    BY <2>1, <2>2 DEF CallsOK, Says, k
  <2>4. \A c \in Calls : e = Event("tool_output", c) =>
          screen.runs[c] = "running" \/ \E j \in 1 .. 1 - 1 : Says(j, "tool_call", c)
    BY <2>1, <2>2 DEF CallsOK, Says, k
  <2>5. 1 .. 1 - 1 = {}
    OBVIOUS
  <2> QED
    BY <2>3, <2>4, <2>5
<1>3. /\ screen \in Screens /\ received \in Seq(Pieces) /\ late \subseteq Calls
      /\ ScreenOK /\ OutputsOK /\ Types
      /\ screen.segments \in Seq(Segments) /\ screen.scrolled \in Seq(Pieces)
      /\ screen.runs \in [Calls -> {None, "running", "done"}]
  BY DEF CInv, Types, Screens
<1>4. ~screen.live
  BY <1>3 DEF ScreenOK
<1>5. e = Event(e.type, e.of)
  BY <1>1, EventTypes
<1> HIDE DEF e
<1>6. ASSUME screen' = screen, received' = received, late' = late,
             e.type \notin {"tool_call", "tool_output"}
      PROVE  ReadDone
  <2>1. Open' = Open
    BY <1>1 DEF Open
  <2>2. ScreenOK' /\ OutputsOK'
    BY <1>1, <1>3, <1>6, <2>1, SameScreen
  <2>3. screen'.runs = RunsAfter(screen.runs, e)
    BY <1>6, RunsAfterIs
  <2> QED
    BY <1>3, <1>6, <2>2, <2>3 DEF ReadDone, e, Shown
<1>7. CASE e.type = "assistant"
  <2> DEFINE more == Content(e)
  <2>1. /\ e.of \in Deltas /\ more = [i \in DOMAIN e.of |-> Word(e.of[i])] /\ late' = late
        /\ screen' = [screen EXCEPT !.scrolled = @ \o Lines(screen, Text(e.of))]
    BY <1>1, <1>7, EventTypes DEF Content, RenderEvent, OnAssistant
  <2> HIDE DEF more
  <2>2. /\ more \in Seq(Pieces) /\ Plain(more) = more /\ Lines(screen, Text(e.of)) = more
        /\ \A c \in Calls : \A j \in 1 .. Len(more) : more[j] # Output(c)
    BY <2>1, DeltaShown
  <2>3. /\ screen' \in Screens /\ screen'.scrolled = screen.scrolled \o more /\ screen'.live = screen.live
        /\ screen'.frame = screen.frame /\ screen'.runs = screen.runs
    <3>1. screen.scrolled \o more \in Seq(Pieces)
      BY <1>3, <2>2
    <3> QED
      BY <1>3, <2>1, <2>2, <3>1 DEF Screens
  <2>4. received' = received \o Plain(more)
    BY <1>1, <2>2 DEF more
  <2>5. ScreenOK' /\ OutputsOK' /\ Plain(Shown') = received'
    BY <1>1, <1>3, <2>1, <2>2, <2>3, <2>4, PrintKeepsScreen
  <2>6. RunsAfter(screen.runs, e) = screen.runs
    BY <1>7, RunsAfterIs
  <2> QED
    BY <1>3, <2>1, <2>3, <2>5, <2>6 DEF ReadDone, e
<1>8. CASE e.type = "tool_call"
  <2> DEFINE c0 == e.of
             more == <<Call(c0)>>
  <2>1. /\ c0 \in Calls /\ Content(e) = more /\ late' = late
        /\ screen' = [screen EXCEPT !.runs[c0] = "running", !.segments = Append(@, Run(c0)),
                                    !.scrolled = Append(@, Call(c0))]
    <3>1. screen' \in OnToolCall(screen, c0) /\ c0 \in Calls /\ Content(e) = more /\ late' = late
      BY <1>1, <1>8, EventTypes DEF Content, RenderEvent
    <3> QED
      BY <3>1 DEF OnToolCall, Printed
  <2>2. screen.runs[c0] = None
    BY <1>2, <1>5, <1>8, <2>1
  <2> HIDE DEF c0
  <2>3. Call(c0) \in Pieces /\ Call(c0).kind = "call" /\ \A c \in Calls : Call(c0) # Output(c)
    BY <2>1, PieceTypes
  <2>4. Plain(<<Call(c0)>>) = <<Call(c0)>>
    BY <2>3, PlainOne
  <2>5. /\ more \in Seq(Pieces) /\ more # <<>> /\ \A c \in Calls : \A j \in 1 .. Len(more) : more[j] # Output(c)
    BY <2>3
  <2>6. /\ screen' \in Screens /\ screen'.scrolled = screen.scrolled \o more /\ screen'.live = screen.live
        /\ screen'.frame = screen.frame /\ screen'.runs = [screen.runs EXCEPT ![c0] = "running"]
    <3>0. screen.scrolled \in Seq(Pieces) /\ Call(c0) \in Pieces
      BY <1>3, <2>3
    <3>1a. /\ Append(screen.scrolled, Call(c0)) \in Seq(Pieces)
           /\ Append(screen.scrolled, Call(c0)) = screen.scrolled \o <<Call(c0)>>
      BY <3>0, Appended
    <3>1. Append(screen.scrolled, Call(c0)) \in Seq(Pieces) /\ Append(screen.scrolled, Call(c0)) = screen.scrolled \o more
      BY <3>1a DEF more
    <3>2. Run(c0) \in Segments
      BY <2>1 DEF Run, Segments
    <3>3. Append(screen.segments, Run(c0)) \in Seq(Segments)
      BY <1>3, <3>2
    <3>4. [screen.runs EXCEPT ![c0] = "running"] \in [Calls -> {None, "running", "done"}]
      BY <1>3
    <3> HIDE DEF more
    <3> QED
      BY <1>3, <2>1, <3>1, <3>3, <3>4 DEF Screens
  <2> HIDE DEF more
  <2>7. received' = received \o Plain(more)
    BY <1>1, <2>1, <2>4 DEF more
  <2>8. \A c \in Calls : \/ screen'.runs[c] = screen.runs[c]
                         \/ screen'.runs[c] = "running" /\ screen.runs[c] = None
    BY <1>3, <2>1, <2>2, <2>6
  <2>9. ScreenOK' /\ OutputsOK' /\ Plain(Shown') = received'
    BY <1>1, <1>3, <2>1, <2>5, <2>6, <2>7, <2>8, PrintKeepsScreen
  <2>10. RunsAfter(screen.runs, e) = [screen.runs EXCEPT ![c0] = "running"]
    BY <1>8 DEF RunsAfter, c0
  <2> QED
    BY <1>3, <2>1, <2>6, <2>9, <2>10 DEF ReadDone, e
<1>9. CASE e.type = "tool_output"
  <2> DEFINE c0 == e.of
             more == <<Output(c0)>>
  <2>1. /\ c0 \in Calls /\ Content(e) = <<>> /\ late \subseteq late' /\ late' \subseteq Calls
        /\ screen' = [screen EXCEPT !.runs[c0] = "done", !.scrolled = Append(@, Output(c0))]
    <3>1. /\ screen' \in OnToolOutput(screen, c0) /\ c0 \in Calls /\ Content(e) = <<>>
          /\ late \subseteq late' /\ late' \subseteq Calls
      BY <1>1, <1>3, <1>9, EventTypes DEF Content, RenderEvent
    <3> QED
      BY <3>1 DEF OnToolOutput, Printed
  <2>2. screen.runs[c0] = "running"
    BY <1>2, <1>5, <1>9, <2>1
  <2> HIDE DEF c0
  <2>3. /\ Output(c0) \in Pieces /\ Output(c0).kind = "output"
        /\ \A c \in Calls : c # c0 => Output(c0) # Output(c)
    BY <2>1, PieceTypes
  <2>4. Plain(<<Output(c0)>>) = <<>>
    BY <2>3, PlainOne
  <2>5. /\ more \in Seq(Pieces) /\ \A c \in Calls : c # c0 => \A j \in 1 .. Len(more) : more[j] # Output(c)
    BY <2>3
  <2>6. /\ screen' \in Screens /\ screen'.scrolled = screen.scrolled \o more /\ screen'.live = screen.live
        /\ screen'.frame = screen.frame /\ screen'.runs = [screen.runs EXCEPT ![c0] = "done"]
    <3>0. screen.scrolled \in Seq(Pieces) /\ Output(c0) \in Pieces
      BY <1>3, <2>3
    <3>1a. /\ Append(screen.scrolled, Output(c0)) \in Seq(Pieces)
           /\ Append(screen.scrolled, Output(c0)) = screen.scrolled \o <<Output(c0)>>
      BY <3>0, Appended
    <3>1. Append(screen.scrolled, Output(c0)) \in Seq(Pieces) /\ Append(screen.scrolled, Output(c0)) = screen.scrolled \o more
      BY <3>1a DEF more
    <3>2. [screen.runs EXCEPT ![c0] = "done"] \in [Calls -> {None, "running", "done"}]
      BY <1>3
    <3> HIDE DEF more
    <3> QED
      BY <1>3, <2>1, <3>1, <3>2 DEF Screens
  <2>7. \A c \in Calls : \/ screen'.runs[c] = screen.runs[c] /\ c # c0
                         \/ screen'.runs[c] = "done" /\ screen.runs[c] = "running" /\ more = <<Output(c)>>
    BY <1>3, <2>1, <2>2, <2>6
  <2> HIDE DEF more
  <2>8. received' = received \o Plain(more)
    BY <1>1, <2>1, <2>4 DEF more
  <2>9. ScreenOK' /\ OutputsOK' /\ Plain(Shown') = received'
    BY <1>1, <1>3, <2>1, <2>5, <2>6, <2>7, <2>8, PrintKeepsScreen
  <2>10. RunsAfter(screen.runs, e) = [screen.runs EXCEPT ![c0] = "done"]
    BY <1>9 DEF RunsAfter, c0
  <2> QED
    BY <2>1, <2>6, <2>9, <2>10 DEF ReadDone, e
<1>10. CASE e.type \in {"usage", "error", "approval_required"}
  <2>1. Content(e) = <<>> /\ screen' = screen /\ late' = late
    BY <1>1, <1>4, <1>10 DEF Content, RenderEvent, OnUsage, ShowError, FlushLive
  <2>2. received' = received
    BY <1>1, <1>3, <2>1, Concat
  <2> QED
    BY <1>6, <1>10, <2>1, <2>2
<1> QED
  BY <1>1, <1>7, <1>8, <1>9, <1>10

LEMMA ReadKeepsScreen ==
  ASSUME CInv, ReadEvent
  PROVE  ReadDone
BY ReadInTerminal, ReadOnPaper

-----------------------------------------------------------------------------
(* The steps of the graph *)

LEMMA InitHolds ==
  ASSUME Init
  PROVE  CInv
<1>1. /\ Blank \in Screens /\ Tidy(Blank) /\ ~Blank.live /\ Blank.frame = <<>> /\ Blank.scrolled = <<>>
      /\ Plain(<<>>) = <<>> /\ \A c \in Calls : Blank.runs[c] = None /\ Kept(Blank, c)
  BY BlankIsTidy
<1>2. None \notin {"running", "done"}
  BY ConversationAssumption
<1>3. /\ graph = [pc |-> "idle", text |-> <<>>, call |-> 0] /\ previous = <<>> /\ wire = Silent
      /\ cli = "prompt" /\ screen = Blank /\ received = <<>> /\ spoken = <<>> /\ ambiguous = FALSE /\ late = {}
      /\ mode \in {"cumulative", "delta"} /\ terminal \in BOOLEAN
  BY DEF Init
<1>4. ~Open /\ wire["outer"] = <<>> /\ wire["inner"] = <<>>
      /\ wire \in [{"outer", "inner"} -> Seq(Events)]
  BY <1>3 DEF Open, Silent
<1>5. Types
  <2>1. <<>> \in Seq(Words) /\ <<>> \in Seq(Pieces) /\ 0 \in Nat
    OBVIOUS
  <2>2. graph \in [pc : {"idle", "model", "tool", "interrupted", "decided"}, text : Seq(Words), call : Nat]
    BY <1>3, <2>1
  <2> QED
    BY <1>1, <1>3, <1>4, <2>1, <2>2 DEF Types
<1>6. WireOK
  BY <1>3, <1>4 DEF WireOK
<1>7. ScreenOK
  BY <1>1, <1>3, <1>4 DEF ScreenOK
<1>8. OutputsOK
  BY <1>1, <1>2, <1>3 DEF OutputsOK
<1>9. Connection = "outer"
  BY <1>3 DEF Connection
<1>10. CallsOK
  BY <1>1, <1>3, <1>4, <1>9 DEF CallsOK
<1>11. TextOK
  BY <1>3 DEF TextOK, TextArrives
<1> QED
  BY <1>5, <1>6, <1>7, <1>8, <1>10, <1>11 DEF CInv

\* What every step of the graph leaves alone
Sending(events) ==
  /\ Going /\ events \in Seq(Events) /\ Send(events)
  /\ cli' = cli /\ screen' = screen /\ terminal' = terminal /\ received' = received /\ late' = late
  /\ mode' = mode

LEMMA SendKeepsScreen ==
  ASSUME CInv, NEW events, Sending(events)
  PROVE  ScreenOK' /\ OutputsOK' /\ wire' \in [{"outer", "inner"} -> Seq(Events)] /\ Open
<1>1. /\ Types /\ WireOK /\ ScreenOK /\ OutputsOK /\ Going /\ events \in Seq(Events) /\ Send(events)
      /\ screen' = screen /\ terminal' = terminal /\ received' = received /\ late' = late /\ cli' = cli
  BY DEF CInv, Sending
<1>2. /\ Open /\ ((Connection = "outer" /\ cli = "outer") \/ (Connection = "inner" /\ cli = "inner"))
      /\ \A i \in 1 .. Len(wire[Connection]) : wire[Connection][i].type # "end"
  BY <1>1, NothingEnded
<1>3. ~Over
  <2> SUFFICES ASSUME cli = "outer", wire["outer"] = <<Event("end", None)>>
               PROVE  FALSE
    BY DEF Over
  <2>1. wire[Connection] = <<Event("end", None)>>
    BY <1>2
  <2>2. 1 \in 1 .. Len(wire[Connection]) /\ wire[Connection][1] = Event("end", None)
    BY <2>1
  <2>3. Event("end", None).type = "end"
    BY DEF Event
  <2> QED
    BY <1>2, <2>2, <2>3
<1>4. Open' = Open
  BY <1>1 DEF Open
<1>5. wire' \in [{"outer", "inner"} -> Seq(Events)]
  BY <1>1, Sent
<1>6. ScreenOK' /\ OutputsOK'
  BY <1>1, <1>3, <1>4, SameScreen
<1> QED
  BY <1>2, <1>5, <1>6

\* A step that says no text
LEMMA SilentSend ==
  ASSUME CInv, NEW events, Sending(events), spoken' = spoken, ambiguous' = ambiguous,
         \A i \in 1 .. Len(events) : events[i].type # "assistant",
         graph' \in [pc : {"idle", "model", "tool", "interrupted", "decided"}, text : Seq(Words), call : Nat],
         previous' \in Seq(Words), mode = "cumulative" => previous' = graph'.text
  PROVE  Types' /\ ScreenOK' /\ OutputsOK' /\ TextOK'
<1>1. ScreenOK' /\ OutputsOK' /\ wire' \in [{"outer", "inner"} -> Seq(Events)] /\ Open
  BY SendKeepsScreen
<1>2. /\ Types /\ WireOK /\ TextOK /\ Going /\ events \in Seq(Events) /\ Send(events) /\ cli' = cli
      /\ screen' = screen /\ terminal' = terminal /\ received' = received /\ late' = late /\ mode' = mode
  BY DEF CInv, Sending
<1>3. Types'
  BY <1>1, <1>2 DEF Types
<1>4. TextOf(events) = <<>>
  BY <1>2, TextSilent
<1>5. Arrived' = Arrived \o TextOf(events)
  BY <1>2, SendArrives
<1>6. ASSUME ~ambiguous
      PROVE  Arrived' = spoken'
  <2>1. Arrived = spoken /\ spoken \in Seq(Words)
    BY <1>1, <1>2, <1>6 DEF TextOK, TextArrives, Open, Types
  <2> QED
    BY <1>4, <1>5, <2>1
<1>7. TextOK'
  BY <1>2, <1>6 DEF TextOK, TextArrives
<1> QED
  BY <1>1, <1>3, <1>7

LEMMA CallToolKeeps ==
  ASSUME CInv, CallTool
  PROVE  CInv'
<1>1. PICK c \in Calls : /\ graph' = [graph EXCEPT !.pc = "tool", !.call = c]
                         /\ Send(<<Event("tool_call", c)>>)
  BY DEF CallTool
<1> DEFINE events == <<Event("tool_call", c)>>
<1>2. /\ Types /\ WireOK /\ CallsOK /\ TextOK
      /\ graph \in [pc : {"idle", "model", "tool", "interrupted", "decided"}, text : Seq(Words), call : Nat]
      /\ previous \in Seq(Words) /\ c \in Nat
  BY ConversationAssumption DEF CInv, Types
<1>3. Going
  BY DEF CallTool, Going
<1>4. Event("tool_call", c) \in Events /\ Event("tool_call", c).type = "tool_call"
  BY EventTypes
<1>5. events \in Seq(Events) /\ \A i \in 1 .. Len(events) : events[i] = Event("tool_call", c)
  BY <1>4
<1> HIDE DEF events
<1>6. Send(events)
  BY <1>1 DEF events
<1>7. Sending(events)
  BY <1>3, <1>5, <1>6 DEF Sending, CallTool
<1>8. \A i \in 1 .. Len(events) : events[i].type = "tool_call"
  BY <1>4, <1>5
<1>9. /\ graph' \in [pc : {"idle", "model", "tool", "interrupted", "decided"}, text : Seq(Words), call : Nat]
      /\ graph'.text = graph.text
  BY <1>1, <1>2
<1>10. previous' = previous /\ spoken' = spoken /\ ambiguous' = ambiguous /\ cli' = cli
  BY DEF CallTool
<1>11. mode = "cumulative" => previous' = graph'.text
  BY <1>2, <1>9, <1>10 DEF TextOK
<1>12. Types' /\ ScreenOK' /\ OutputsOK' /\ TextOK'
  BY <1>2, <1>7, <1>8, <1>9, <1>10, <1>11, SilentSend
<1>13. WireOK'
  BY <1>2, <1>3, <1>5, <1>6, <1>8, <1>10, SendKeepsWire
<1>14. CallsOK'
  BY <1>2, <1>3, CallToolKeepsCalls
<1> QED
  BY <1>12, <1>13, <1>14 DEF CInv

LEMMA ToolAnswersKeeps ==
  ASSUME CInv, ToolAnswers
  PROVE  CInv'
<1> DEFINE c == graph.call
           events == <<Event("tool_output", c)>>
<1>1. /\ graph' = [graph EXCEPT !.pc = "model", !.text = <<>>] /\ previous' = <<>>
      /\ Send(<<Event("tool_output", c)>>) /\ spoken' = spoken /\ ambiguous' = ambiguous /\ cli' = cli
  BY DEF ToolAnswers
<1>2. /\ Types /\ WireOK /\ CallsOK /\ TextOK
      /\ graph \in [pc : {"idle", "model", "tool", "interrupted", "decided"}, text : Seq(Words), call : Nat]
  BY DEF CInv, Types
<1>3. Going
  BY DEF ToolAnswers, Going
<1>4. c \in Calls
  <2>1. Open /\ graph.pc \in {"tool", "interrupted", "decided"}
    BY <1>2, <1>3, NothingEnded DEF ToolAnswers
  <2> QED
    BY <1>2, <2>1 DEF CallsOK
<1> HIDE DEF c
<1>5. Event("tool_output", c) \in Events /\ Event("tool_output", c).type = "tool_output"
  BY <1>4, EventTypes
<1>6. events \in Seq(Events) /\ \A i \in 1 .. Len(events) : events[i] = Event("tool_output", c)
  BY <1>5
<1> HIDE DEF events
<1>7. Send(events)
  BY <1>1 DEF events
<1>8. Sending(events)
  BY <1>3, <1>6, <1>7 DEF Sending, ToolAnswers
<1>9. \A i \in 1 .. Len(events) : events[i].type = "tool_output"
  BY <1>5, <1>6
<1>10. /\ graph' \in [pc : {"idle", "model", "tool", "interrupted", "decided"}, text : Seq(Words), call : Nat]
       /\ graph'.text = <<>> /\ previous' \in Seq(Words)
  <2>1. <<>> \in Seq(Words)
    OBVIOUS
  <2> QED
    BY <1>1, <1>2, <2>1
<1>11. Types' /\ ScreenOK' /\ OutputsOK' /\ TextOK'
  BY <1>1, <1>8, <1>9, <1>10, SilentSend
<1>12. WireOK'
  BY <1>1, <1>2, <1>3, <1>6, <1>7, <1>9, SendKeepsWire
<1>13. CallsOK'
  BY <1>2, <1>3, ToolAnswersKeepsCalls
<1> QED
  BY <1>11, <1>12, <1>13 DEF CInv

LEMMA InterruptToolKeeps ==
  ASSUME CInv, InterruptTool
  PROVE  CInv'
<1> DEFINE c == graph.call
           events == <<Event("approval_required", c), Event("usage", None), Event("end", None)>>
<1>1. /\ graph' = [graph EXCEPT !.pc = "interrupted"] /\ previous' = previous
      /\ Send(<<Event("approval_required", c), Event("usage", None), Event("end", None)>>)
      /\ spoken' = spoken /\ ambiguous' = ambiguous /\ cli' = cli /\ graph.pc = "tool" /\ screen' = screen
  BY DEF InterruptTool
<1>2. /\ Types /\ WireOK /\ CallsOK /\ TextOK /\ previous \in Seq(Words)
      /\ graph \in [pc : {"idle", "model", "tool", "interrupted", "decided"}, text : Seq(Words), call : Nat]
  BY DEF CInv, Types
<1>3. Going
  BY DEF InterruptTool, Going
<1>4. c \in Calls
  <2>1. Open
    BY <1>2, <1>3, NothingEnded
  <2> QED
    BY <1>1, <1>2, <2>1 DEF CallsOK
<1> HIDE DEF c
<1>5. /\ Event("approval_required", c) \in Events /\ Event("usage", None) \in Events /\ Event("end", None) \in Events
      /\ Event("approval_required", c).type = "approval_required" /\ Event("usage", None).type = "usage"
      /\ Event("end", None).type = "end"
  BY <1>4, EventTypes
<1>6. /\ events \in Seq(Events) /\ Len(events) = 3
      /\ events[1] = Event("approval_required", c) /\ events[2] = Ended[1] /\ events[3] = Ended[2]
  BY <1>5 DEF Ended
<1>7. events[1].type = "approval_required" /\ events[2].type = "usage" /\ events[3].type = "end"
  BY <1>5
<1> HIDE DEF events
<1>8. Send(events)
  BY <1>1 DEF events
<1>9. Sending(events)
  BY <1>3, <1>6, <1>8 DEF Sending, InterruptTool
<1>10. /\ graph' \in [pc : {"idle", "model", "tool", "interrupted", "decided"}, text : Seq(Words), call : Nat]
       /\ graph'.text = graph.text /\ graph'.pc = "interrupted" /\ graph'.call = graph.call
  BY <1>1, <1>2
<1>11. \A i \in 1 .. Len(events) : i \in {1, 2, 3}
  BY <1>6
<1>12. \A i \in 1 .. Len(events) : events[i].type \notin {"assistant", "tool_call", "tool_output", "error", "broken"}
  BY <1>7, <1>11
<1>13. mode = "cumulative" => previous' = graph'.text
  BY <1>1, <1>2, <1>10 DEF TextOK
<1>14. Types' /\ ScreenOK' /\ OutputsOK' /\ TextOK'
  BY <1>1, <1>2, <1>9, <1>10, <1>12, <1>13, SilentSend
<1>15. \A i \in 1 .. Len(events) :
         /\ events[i].type \in {"end", "broken"} => i = Len(events) /\ graph'.pc \in {"idle", "interrupted"}
         /\ events[i].type = "error" =>
              cli = "outer" /\ i + 1 = Len(events) /\ events[i + 1] = Event("end", None)
         /\ events[i].type = "approval_required" =>
              /\ i + 2 = Len(events) /\ graph'.pc = "interrupted"
              /\ events[i + 1] = Ended[1] /\ events[i + 2] = Ended[2]
         /\ events[i].type = "broken" => cli = "inner"
  BY <1>6, <1>7, <1>10, <1>11
<1>16. WireOK'
  BY <1>1, <1>2, <1>3, <1>6, <1>8, <1>15, SendKeepsWire
<1>17. \A i \in 1 .. Len(events) : events[i].type \notin {"tool_call", "tool_output"}
  BY <1>12
<1>18. CallsOK'
  BY <1>1, <1>2, <1>3, <1>6, <1>8, <1>10, <1>17, SendKeepsCalls DEF Waiting
<1> QED
  BY <1>14, <1>16, <1>18 DEF CInv

\* A turn or a graph that has failed ends with its connection.
LEMMA FarewellKeeps ==
  ASSUME CInv, Going, NEW events \in Seq(Events), Send(events), graph' = [graph EXCEPT !.pc = "idle"],
         UNCHANGED <<mode, terminal, previous, cli, screen, received, spoken, ambiguous, late>>,
         \/ events = Ended
         \/ cli = "outer" /\ events = <<Event("error", None), Event("end", None)>>
         \/ cli = "inner" /\ events = <<Event("broken", None)>>
  PROVE  CInv'
<1>1. /\ Types /\ WireOK /\ CallsOK /\ TextOK /\ previous \in Seq(Words)
      /\ graph \in [pc : {"idle", "model", "tool", "interrupted", "decided"}, text : Seq(Words), call : Nat]
  BY DEF CInv, Types
<1>2. /\ graph' \in [pc : {"idle", "model", "tool", "interrupted", "decided"}, text : Seq(Words), call : Nat]
      /\ graph'.text = graph.text /\ graph'.pc = "idle" /\ graph'.call = graph.call
  BY <1>1
<1>3. /\ Event("usage", None).type = "usage" /\ Event("end", None).type = "end"
      /\ Event("error", None).type = "error" /\ Event("broken", None).type = "broken"
  BY EventTypes
<1>4. \A i \in 1 .. Len(events) :
        /\ events[i].type \in {"usage", "end", "error", "broken"}
        /\ events[i].type \in {"end", "broken"} => i = Len(events)
        /\ events[i].type = "error" =>
             cli = "outer" /\ i + 1 = Len(events) /\ events[i + 1] = Event("end", None)
        /\ events[i].type = "broken" => cli = "inner"
  <2>1. CASE events = Ended
    <3>1. Len(events) = 2 /\ events[1] = Event("usage", None) /\ events[2] = Event("end", None)
      BY <2>1 DEF Ended
    <3> QED
      BY <1>3, <3>1
  <2>2. CASE cli = "outer" /\ events = <<Event("error", None), Event("end", None)>>
    <3>1. Len(events) = 2 /\ events[1] = Event("error", None) /\ events[2] = Event("end", None)
      BY <2>2
    <3> QED
      BY <1>3, <2>2, <3>1
  <2>3. CASE cli = "inner" /\ events = <<Event("broken", None)>>
    <3>1. Len(events) = 1 /\ events[1] = Event("broken", None)
      BY <2>3
    <3> QED
      BY <1>3, <2>3, <3>1
  <2> QED
    BY <2>1, <2>2, <2>3
<1>5. Sending(events)
  BY DEF Sending
<1>6. mode = "cumulative" => previous' = graph'.text
  BY <1>1, <1>2 DEF TextOK
<1>7. Types' /\ ScreenOK' /\ OutputsOK' /\ TextOK'
  BY <1>1, <1>2, <1>4, <1>5, <1>6, SilentSend
<1>8. \A i \in 1 .. Len(events) :
        /\ events[i].type \in {"end", "broken"} => i = Len(events) /\ graph'.pc \in {"idle", "interrupted"}
        /\ events[i].type = "error" =>
             cli = "outer" /\ i + 1 = Len(events) /\ events[i + 1] = Event("end", None)
        /\ events[i].type = "approval_required" =>
             /\ i + 2 = Len(events) /\ graph'.pc = "interrupted"
             /\ events[i + 1] = Ended[1] /\ events[i + 2] = Ended[2]
        /\ events[i].type = "broken" => cli = "inner"
  BY <1>2, <1>4
<1>9. WireOK'
  BY <1>1, <1>8, SendKeepsWire
<1>10. \A i \in 1 .. Len(events) : events[i].type \notin {"tool_call", "tool_output"}
  BY <1>4
<1>11. CallsOK'
  BY <1>1, <1>2, <1>10, SendKeepsCalls DEF Waiting
<1> QED
  BY <1>7, <1>9, <1>11 DEF CInv

LEMMA EndTurnKeeps ==
  ASSUME CInv, EndTurn
  PROVE  CInv'
<1>1. Ended \in Seq(Events)
  BY EndedIsSilent
<1>2. Send(Ended)
  BY DEF EndTurn, Ended
<1>3. Going /\ graph' = [graph EXCEPT !.pc = "idle"]
  BY DEF EndTurn, Going
<1> QED
  BY <1>1, <1>2, <1>3, FarewellKeeps DEF EndTurn

LEMMA FailKeeps ==
  ASSUME CInv, Fail
  PROVE  CInv'
<1>1. Going /\ graph' = [graph EXCEPT !.pc = "idle"]
  BY DEF Fail, Going
<1>2. Event("error", None) \in Events /\ Event("end", None) \in Events /\ Event("broken", None) \in Events
  BY EventTypes
<1>3. CASE cli = "outer"
  <2> DEFINE events == <<Event("error", None), Event("end", None)>>
  <2>1. events \in Seq(Events)
    BY <1>2
  <2>2. Send(events)
    BY <1>3 DEF Fail
  <2> QED
    BY <1>1, <1>3, <2>1, <2>2, FarewellKeeps DEF Fail
<1>4. CASE cli # "outer"
  <2> DEFINE events == <<Event("broken", None)>>
  <2>1. events \in Seq(Events)
    BY <1>2
  <2>2. Send(events) /\ cli = "inner"
    BY <1>1, <1>4 DEF Fail, Streaming
  <2> QED
    BY <1>1, <2>1, <2>2, FarewellKeeps DEF Fail
<1> QED
  BY <1>3, <1>4

\* What is sent of the words: all of them, or what a model of deltas has said before
LEMMA DeltaIsSent ==
  ASSUME NEW before \in Seq(Words), NEW new \in Deltas
  PROVE  /\ Delta(before, new) \in Seq(Words)
         /\ Delta(before, new) = <<>> \/ Delta(before, new) \in Deltas
<1>1. new \in Seq(Words) /\ Len(new) \in 1 .. 2 /\ Len(before) \in Nat
  BY DeltaLength
<1>2. CASE ~IsPrefix(before, new)
  BY <1>1, <1>2 DEF Delta
<1>3. CASE IsPrefix(before, new) /\ Len(before) = 0
  <2>1. before = <<>>
    BY <1>3
  <2>2. Delta(before, new) = new
    BY <1>1, <2>1, DeltaIsNew
  <2> QED
    BY <1>1, <2>2
<1>4. CASE IsPrefix(before, new) /\ Len(before) > 0
  <2> DEFINE d == SubSeq(new, Len(before) + 1, Len(new))
  <2>1. Delta(before, new) = d
    BY <1>4 DEF Delta
  <2>2. d \in Seq(Words) /\ Len(d) \in 0 .. 1
    <3> DEFINE m == Len(before)
               n == Len(new)
    <3>1. m \in Nat /\ m > 0 /\ n \in 1 .. 2 /\ Len(new) = n
      BY <1>1, <1>4
    <3> HIDE DEF m, n
    <3>2. SubSeq(new, m + 1, n) \in Seq(Words) /\ Len(SubSeq(new, m + 1, n)) \in 0 .. 1
      BY <1>1, <3>1
    <3> QED
      BY <3>2 DEF m, n
  <2> HIDE DEF d
  <2>3. CASE Len(d) = 0
    <3>1. d = <<>>
      BY <2>2, <2>3
    <3> QED
      BY <2>1, <2>2, <3>1
  <2>4. CASE Len(d) = 1
    <3>1. d \in [1 .. 1 -> Words]
      BY <2>2, <2>4
    <3>2. d \in Deltas
      BY <3>1 DEF Deltas
    <3> QED
      BY <2>1, <2>2, <3>2
  <2> QED
    BY <2>2, <2>3, <2>4
<1> QED
  BY <1>1, <1>2, <1>3, <1>4

LEMMA SaysDelta ==
  ASSUME NEW new \in {<<w>> : w \in Words} \union (Words \X Words)
  PROVE  new \in Deltas
<1>1. CASE new \in {<<w>> : w \in Words}
  <2>1. new \in [1 .. 1 -> Words]
    <3>1. PICK w \in Words : new = <<w>>
      BY <1>1
    <3> QED
      BY <3>1
  <2> QED
    BY <2>1 DEF Deltas
<1>2. CASE new \in Words \X Words
  <2>1. new \in [1 .. 2 -> Words]
    <3>1. PICK w \in Words, x \in Words : new = <<w, x>>
      BY <1>2
    <3> QED
      BY <3>1
  <2> QED
    BY <2>1 DEF Deltas
<1> QED
  BY <1>1, <1>2

LEMMA SayKeeps ==
  ASSUME CInv, NEW new \in Deltas, Say(new)
  PROVE  CInv'
<1> DEFINE content == IF mode = "cumulative" THEN graph.text \o new ELSE new
           delta == Delta(previous, content)
           events == IF delta = <<>> THEN <<>> ELSE <<Event("assistant", delta)>>
<1>1. /\ graph' = [graph EXCEPT !.text = graph.text \o new] /\ previous' = previous \o delta /\ Send(events)
      /\ spoken' = spoken \o new /\ cli' = cli /\ screen' = screen /\ mode' = mode
      /\ terminal' = terminal /\ received' = received /\ late' = late /\ graph.pc = "model"
  BY DEF Say
<1>1a. ambiguous' = (ambiguous \/ (mode = "delta" /\ previous # <<>> /\ IsPrefix(previous, new)))
  BY DEF Say
<1>2. /\ Types /\ WireOK /\ CallsOK /\ TextOK /\ previous \in Seq(Words) /\ graph.text \in Seq(Words)
      /\ spoken \in Seq(Words) /\ ambiguous \in BOOLEAN /\ mode \in {"cumulative", "delta"}
      /\ graph \in [pc : {"idle", "model", "tool", "interrupted", "decided"}, text : Seq(Words), call : Nat]
  BY DEF CInv, Types
<1>3. Going
  BY DEF Say, Going
<1>4. new \in Deltas
  OBVIOUS
<1>5. new \in Seq(Words)
  BY <1>4, DeltaLength
<1>6. /\ delta \in Seq(Words) /\ (delta = <<>> \/ delta \in Deltas)
      /\ mode = "cumulative" => delta = new
      /\ ~ambiguous' => delta = new
  <2>1. CASE mode = "cumulative"
    <3>1. content = previous \o new
      BY <1>2, <2>1 DEF TextOK
    <3> HIDE DEF content
    <3>2. Delta(previous, previous \o new) = new
      BY <1>2, <1>5, DeltaIsNew
    <3>3. delta = new
      BY <3>1, <3>2 DEF delta
    <3> HIDE DEF delta
    <3> QED
      BY <1>4, <1>5, <3>3, <2>1
  <2>2. CASE mode # "cumulative"
    <3>1. content = new
      BY <2>2
    <3> HIDE DEF content
    <3>2. delta = Delta(previous, new)
      BY <3>1 DEF delta
    <3> HIDE DEF delta
    <3>3. delta \in Seq(Words) /\ (delta = <<>> \/ delta \in Deltas)
      BY <1>2, <1>4, <3>2, DeltaIsSent
    <3>4. ASSUME ~ambiguous'
          PROVE  delta = new
      <4>1. previous = <<>> \/ ~IsPrefix(previous, new)
        <5>1. mode = "delta"
          BY <1>2, <2>2
        <5> QED
          BY <1>1a, <3>4, <5>1
      <4> QED
        BY <1>2, <1>5, <3>2, <4>1, DeltaIsNew
    <3> QED
      BY <2>2, <3>3, <3>4
  <2> QED
    BY <2>1, <2>2
<1> HIDE DEF delta
<1>7. /\ events \in Seq(Events) /\ TextOf(events) = delta
      /\ \A i \in 1 .. Len(events) : events[i].type = "assistant"
  <2>1. CASE delta = <<>>
    <3>1. events = <<>> /\ Len(<<>>) = 0 /\ <<>> \in Seq(Events)
      BY <2>1
    <3> HIDE DEF events
    <3>2. TextOf(<<>>) = <<>>
      BY EndedIsSilent
    <3> QED
      BY <2>1, <3>1, <3>2
  <2>2. CASE delta # <<>>
    <3> DEFINE e == Event("assistant", delta)
    <3>1. e \in Events /\ e.type = "assistant" /\ e.of = delta
      BY <1>6, <2>2, EventTypes
    <3>2. events = <<e>>
      BY <2>2
    <3> HIDE DEF e, events
    <3>3. TextOf(<<e>>) = delta
      BY <3>1, TextOne
    <3>4. <<e>> \in Seq(Events) /\ Len(<<e>>) = 1 /\ <<e>>[1] = e
      BY <3>1
    <3> QED
      BY <3>1, <3>2, <3>3, <3>4
  <2> QED
    BY <2>1, <2>2
<1> HIDE DEF events
<1>8. Sending(events)
  BY <1>1, <1>3, <1>7 DEF Sending
<1>9. ScreenOK' /\ OutputsOK' /\ wire' \in [{"outer", "inner"} -> Seq(Events)] /\ Open
  BY <1>8, SendKeepsScreen
<1>10. /\ graph' \in [pc : {"idle", "model", "tool", "interrupted", "decided"}, text : Seq(Words), call : Nat]
       /\ graph'.pc = graph.pc /\ graph'.call = graph.call /\ graph'.text = graph.text \o new
       /\ previous' \in Seq(Words) /\ spoken' \in Seq(Words)
  <2>1. /\ graph.text \o new \in Seq(Words) /\ previous \o delta \in Seq(Words) /\ spoken \o new \in Seq(Words)
    BY <1>2, <1>5, <1>6
  <2>2. previous' \in Seq(Words) /\ spoken' \in Seq(Words)
    BY <1>1, <2>1
  <2> DEFINE text == graph.text \o new
  <2>3. text \in Seq(Words) /\ graph' = [graph EXCEPT !.text = text]
    BY <1>1, <2>1
  <2> HIDE DEF text
  <2>4. /\ graph' \in [pc : {"idle", "model", "tool", "interrupted", "decided"}, text : Seq(Words), call : Nat]
        /\ graph'.pc = graph.pc /\ graph'.call = graph.call /\ graph'.text = text
    BY <1>2, <2>3
  <2> QED
    BY <2>2, <2>4 DEF text
<1>10a. ambiguous' \in BOOLEAN
  BY <1>1a
<1>11. Types'
  BY <1>10a, <1>1, <1>2, <1>9, <1>10 DEF Types
<1>12. WireOK'
  BY <1>1, <1>2, <1>3, <1>7, SendKeepsWire
<1>13. CallsOK'
  BY <1>1, <1>2, <1>3, <1>7, <1>10, SendKeepsCalls DEF Waiting
<1>14. Arrived' = Arrived \o TextOf(events)
  BY <1>1, <1>2, <1>3, <1>7, SendArrives
<1>15. mode' = "cumulative" => previous' = graph'.text
  BY <1>1, <1>2, <1>6, <1>10 DEF TextOK
<1>16. ASSUME ~ambiguous'
       PROVE  Arrived' = spoken'
  <2>1. ~ambiguous
    BY <1>1a, <1>16
  <2>2. Arrived = spoken
    BY <1>2, <1>9, <2>1 DEF TextOK, TextArrives, Open
  <2>3. delta = new
    BY <1>6, <1>16
  <2> QED
    BY <1>1, <1>7, <1>14, <2>2, <2>3
<1>17. TextOK'
  BY <1>15, <1>16 DEF TextOK, TextArrives
<1> QED
  BY <1>9, <1>11, <1>12, <1>13, <1>17 DEF CInv

-----------------------------------------------------------------------------
(* The steps of the CLI *)

LEMMA SubmitKeeps ==
  ASSUME CInv, Submit
  PROVE  CInv' /\ Plain(Shown') = <<>>
<1>1. /\ Blank \in Screens /\ Tidy(Blank) /\ ~Blank.live /\ Blank.frame = <<>> /\ Blank.scrolled = <<>>
      /\ Plain(<<>>) = <<>> /\ \A c \in Calls : Blank.runs[c] = None /\ Kept(Blank, c)
  BY BlankIsTidy
<1>2. None \notin {"running", "done"}
  BY ConversationAssumption
<1>3. /\ graph' = [pc |-> "model", text |-> <<>>, call |-> 0] /\ previous' = <<>> /\ wire' = wire
      /\ cli = "prompt" /\ cli' = "outer" /\ screen' = Blank /\ received' = <<>> /\ spoken' = <<>>
      /\ ambiguous' = FALSE /\ late' = {} /\ mode' = mode /\ terminal' = terminal
  BY DEF Submit
<1>4. Types /\ WireOK /\ wire["outer"] = <<>> /\ wire["inner"] = <<>>
  BY <1>3 DEF CInv, WireOK
<1>5. Types'
  <2>1. <<>> \in Seq(Words) /\ <<>> \in Seq(Pieces) /\ 0 \in Nat
    OBVIOUS
  <2>2. graph' \in [pc : {"idle", "model", "tool", "interrupted", "decided"}, text : Seq(Words), call : Nat]
    BY <1>3, <2>1
  <2> QED
    BY <1>1, <1>3, <1>4, <2>1, <2>2 DEF Types
<1>6. WireOK'
  BY <1>3, <1>4 DEF WireOK
<1>7. ScreenOK'
  BY <1>1, <1>3 DEF ScreenOK
<1>8. \A c \in Calls : Kept(Blank, c)' /\ UnderItsCall(Blank.scrolled, c)' = UnderItsCall(Blank.scrolled, c)
  BY <1>1, <1>3 DEF Kept, UnderItsCall
<1>9. OutputsOK'
  <2>1. Tidy(Blank)'
    BY <1>1 DEF Tidy, Holds
  <2> QED
    BY <1>1, <1>2, <1>3, <1>8, <2>1 DEF OutputsOK
<1>10. CallsOK'
  <2>1. Connection' = "outer"
    BY <1>3 DEF Connection
  <2> QED
    BY <1>1, <1>3, <1>4, <2>1 DEF CallsOK
<1>11. TextOK'
  <2>1. WordsOf(<<>>) = <<>> /\ TextOf(<<>>) = <<>>
    <3>1. <<>> \in Seq(Pieces)
      OBVIOUS
    <3>2. [i \in DOMAIN <<>> |-> IF <<>>[i].kind = "word" THEN <<<<>>[i].of>> ELSE <<>>] = <<>>
      OBVIOUS
    <3>3. WordsOf(<<>>) = <<>>
      BY <3>2, FlattenEmpty DEF WordsOf
    <3> QED
      BY <3>3, EndedIsSilent
  <2>2. <<>> \o <<>> = <<>>
    OBVIOUS
  <2>3. Arrived' = <<>>
    BY <1>3, <1>4, <2>1, <2>2 DEF Arrived
  <2> QED
    BY <1>3, <2>3 DEF TextOK, TextArrives
<1>12. Plain(Shown') = <<>>
  <2>1. Shown' = <<>>
    BY <1>1, <1>3 DEF Shown
  <2> QED
    BY <1>1, <2>1
<1> QED
  BY <1>5, <1>6, <1>7, <1>9, <1>10, <1>11, <1>12 DEF CInv

LEMMA ReadEventKeeps ==
  ASSUME CInv, ReadEvent
  PROVE  CInv' /\ Plain(Shown') \in {Plain(Shown), received'}
<1> DEFINE e == Head(wire[cli])
<1>1. Types /\ WireOK /\ CallsOK /\ TextOK
  BY DEF CInv
<1>2. /\ e \in Events /\ cli \in {"outer", "inner"} /\ Open /\ cli' = cli /\ graph' = graph
      /\ received' = received \o Content(e) /\ WireOK' /\ wire' = [wire EXCEPT ![cli] = Tail(@)]
      /\ wire[cli] # <<>>
  <2> HIDE DEF e
  <2>1. e = Head(wire[cli])
    BY DEF e
  <2> QED
    BY <1>1, <2>1, ReadFacts
<1>3. /\ screen' \in Screens /\ screen'.runs = RunsAfter(screen.runs, e)
      /\ late' \subseteq Calls /\ ScreenOK' /\ OutputsOK' /\ Plain(Shown') \in {Plain(Shown), received'}
  BY ReadKeepsScreen DEF ReadDone
<1>4. CallsOK'
  BY <1>1, <1>2, <1>3, ReadKeepsCalls
<1>5. Arrived' = Arrived
  BY <1>1, <1>2, ReadMovesText
<1>6. /\ mode' = mode /\ terminal' = terminal /\ previous' = previous /\ spoken' = spoken
      /\ ambiguous' = ambiguous
  BY DEF ReadEvent
<1>7. TextOK'
  BY <1>1, <1>2, <1>5, <1>6 DEF TextOK, TextArrives
<1>8. wire' \in [{"outer", "inner"} -> Seq(Events)]
  BY <1>1, <1>2, Taken
<1>9. received' \in Seq(Pieces)
  <2> HIDE DEF e
  <2>1. Content(e) \in Seq(Pieces) /\ received \in Seq(Pieces)
    BY <1>1, <1>2, ContentFits DEF Types
  <2> QED
    BY <1>2, <2>1
<1>10. Types'
  BY <1>1, <1>2, <1>3, <1>6, <1>8, <1>9 DEF Types
<1> QED
  BY <1>2, <1>3, <1>4, <1>7, <1>10 DEF CInv

LEMMA AskUserKeeps ==
  ASSUME CInv, AskUser
  PROVE  CInv'
<1>1. Types /\ WireOK /\ CallsOK /\ TextOK /\ ScreenOK /\ OutputsOK
  BY DEF CInv
<1>2. /\ cli = "outer" /\ wire["outer"] # <<>> /\ Head(wire["outer"]).type = "approval_required"
      /\ cli' = "asking" /\ wire' = [wire EXCEPT ![cli] = Tail(@)] /\ graph' = graph /\ screen' = screen
      /\ UNCHANGED <<mode, terminal, previous, received, spoken, ambiguous, late>>
  BY DEF AskUser
<1>3. /\ wire' \in [{"outer", "inner"} -> Seq(Events)] /\ wire["outer"] \in Seq(Events)
      /\ wire'["inner"] = wire["inner"] /\ Head(wire["outer"]) = wire["outer"][1]
      /\ Head(wire["outer"]) \in Events
      /\ Len(wire["outer"]) \in Nat \ {0} /\ Len(wire'["outer"]) = Len(wire["outer"]) - 1
      /\ \A i \in 1 .. Len(wire'["outer"]) : wire'["outer"][i] = wire["outer"][i + 1]
  <2>1. cli \in {"outer", "inner"} /\ wire[cli] # <<>> /\ wire' = [wire EXCEPT ![cli] = Tail(@)]
    BY <1>2
  <2> QED
    BY <1>1, <1>2, <2>1, Taken
<1>4. /\ Len(wire["outer"]) = 3 /\ graph.pc = "interrupted"
      /\ wire["outer"][2] = Ended[1] /\ wire["outer"][3] = Ended[2]
  <2>1. 1 \in 1 .. Len(wire["outer"]) /\ wire["outer"][1].type = "approval_required"
    BY <1>2, <1>3
  <2>2. /\ 1 + 2 = Len(wire["outer"]) /\ graph.pc = "interrupted"
        /\ wire["outer"][1 + 1] = Ended[1] /\ wire["outer"][1 + 2] = Ended[2]
    BY <1>1, <2>1 DEF WireOK
  <2> QED
    BY <2>2
<1>5. wire'["outer"] = Ended
  <2>1. Len(wire'["outer"]) = 2 /\ wire'["outer"][1] = Ended[1] /\ wire'["outer"][2] = Ended[2]
    BY <1>3, <1>4
  <2>2. Ended \in Seq(Events) /\ Len(Ended) = 2
    BY EndedIsSilent
  <2>3. wire'["outer"] \in Seq(Events)
    BY <1>3
  <2> QED
    BY <2>1, <2>2, <2>3
<1>6. wire'["inner"] = <<>>
  BY <1>1, <1>2, <1>3 DEF WireOK
<1>7. /\ Len(Ended) = 2 /\ Ended[1] = Event("usage", None) /\ Ended[2] = Event("end", None)
      /\ Event("usage", None).type = "usage" /\ Event("end", None).type = "end"
  BY EventTypes DEF Ended
<1>8. WireOK'
  <2>1. \A i \in 1 .. Len(Ended) : Ended[i].type \in {"usage", "end"} /\ (Ended[i].type = "end" => i = Len(Ended))
    BY <1>7
  <2>2. \A i \in 1 .. Len(<<>>) : FALSE
    OBVIOUS
  <2>3. \A k \in {"outer", "inner"} : \A i \in 1 .. Len(wire'[k]) :
          wire'[k][i].type \in {"end", "broken"} => i = Len(wire'[k])
    BY <1>5, <1>6, <2>1, <2>2
  <2>4. graph'.pc = "interrupted" /\ cli' = "asking"
    BY <1>2, <1>4
  <2> QED
    BY <1>5, <1>6, <2>1, <2>2, <2>3, <2>4 DEF WireOK
<1>9. Connection = "outer" /\ Connection' = "outer"
  BY <1>2 DEF Connection
<1>10. \A type \in {"tool_call", "tool_output"}, c \in Calls :
         /\ \A i \in 1 .. Len(wire["outer"]) : wire["outer"][i] # Event(type, c)
         /\ \A i \in 1 .. Len(wire'["outer"]) : wire'["outer"][i] # Event(type, c)
  <2>1. \A type \in {"tool_call", "tool_output"}, c \in Calls :
          Event(type, c).type \notin {"approval_required", "usage", "end"}
    BY EventTypes
  <2>2. /\ \A i \in 1 .. Len(wire["outer"]) : wire["outer"][i].type \in {"approval_required", "usage", "end"}
        /\ \A i \in 1 .. Len(wire'["outer"]) : wire'["outer"][i].type \in {"approval_required", "usage", "end"}
    BY <1>2, <1>3, <1>4, <1>5, <1>7
  <2> QED
    BY <2>1, <2>2
<1>11. CallsOK'
  <2>1. graph.call \in Calls /\ screen.runs[graph.call] = "running"
    <3>1. Open
      BY <1>2 DEF Open
    <3> QED
      BY <1>1, <1>4, <1>9, <1>10, <3>1 DEF CallsOK, Says
  <2> QED
    BY <1>1, <1>2, <1>9, <1>10, <2>1 DEF CallsOK, Says
<1>12. Arrived' = Arrived
  <2> DEFINE e == Head(wire[cli])
  <2>1. cli \in {"outer", "inner"} /\ wire[cli] # <<>> /\ e \in Events /\ e.type = "approval_required"
        /\ received \in Seq(Pieces)
    BY <1>1, <1>2, <1>3 DEF Types
  <2>2. Content(e) = <<>>
    <3> HIDE DEF e
    <3> QED
      BY <2>1 DEF Content
  <2>3. received' = received \o Content(e)
    <3> HIDE DEF e
    <3> QED
      BY <1>2, <2>1, <2>2
  <2> QED
    BY <1>1, <1>2, <2>1, <2>3, ReadMovesText
<1>13. TextOK'
  BY <1>1, <1>2, <1>12 DEF TextOK, TextArrives
<1>14. ScreenOK' /\ OutputsOK'
  <2>1. Open' = Open
    BY <1>2 DEF Open
  <2>2. ~Over
    <3>1. Len(<<Event("end", None)>>) = 1
      OBVIOUS
    <3> QED
      BY <1>4, <3>1 DEF Over
  <2> QED
    BY <1>1, <1>2, <2>1, <2>2, SameScreen
<1>15. Types'
  BY <1>1, <1>2, <1>3 DEF Types
<1> QED
  BY <1>8, <1>11, <1>13, <1>14, <1>15 DEF CInv

LEMMA DecideKeeps ==
  ASSUME CInv, Decide
  PROVE  CInv'
<1>1. Types /\ WireOK /\ CallsOK /\ TextOK /\ ScreenOK /\ OutputsOK
  BY DEF CInv
<1>2. /\ cli = "asking" /\ cli' = "inner" /\ graph' = [graph EXCEPT !.pc = "decided"] /\ wire' = wire
      /\ screen' = screen
      /\ UNCHANGED <<mode, terminal, previous, received, spoken, ambiguous, late>>
  BY DEF Decide
<1>3. wire["outer"] = Ended /\ wire["inner"] = <<>> /\ graph.pc = "interrupted"
  BY <1>1, <1>2 DEF WireOK
<1>4. /\ graph' \in [pc : {"idle", "model", "tool", "interrupted", "decided"}, text : Seq(Words), call : Nat]
      /\ graph'.pc = "decided" /\ graph'.call = graph.call /\ graph'.text = graph.text
  <2>1. graph \in [pc : {"idle", "model", "tool", "interrupted", "decided"}, text : Seq(Words), call : Nat]
    BY <1>1 DEF Types
  <2> QED
    BY <1>2, <2>1
<1>5. /\ Len(Ended) = 2 /\ Ended[1] = Event("usage", None) /\ Ended[2] = Event("end", None)
      /\ Event("usage", None).type = "usage" /\ Event("end", None).type = "end"
  BY EventTypes DEF Ended
<1>6. Connection = "outer" /\ Connection' = "inner" /\ Len(<<>>) = 0
  BY <1>2 DEF Connection
<1>7. WireOK'
  <2>1. wire'["outer"] = Ended /\ wire'["inner"] = <<>>
    BY <1>2, <1>3
  <2>2. \A i \in 1 .. Len(Ended) : Ended[i].type \in {"usage", "end"} /\ (Ended[i].type = "end" => i = Len(Ended))
    BY <1>5
  <2>3. \A i \in 1 .. Len(<<>>) : FALSE
    BY <1>6
  <2>4. \A k \in {"outer", "inner"} : \A i \in 1 .. Len(wire'[k]) :
          wire'[k][i].type \in {"end", "broken"} => i = Len(wire'[k]) /\ k # Connection'
    BY <1>6, <2>1, <2>2, <2>3
  <2> QED
    BY <1>2, <2>1, <2>2, <2>3, <2>4 DEF WireOK
<1>8. CallsOK'
  <2>1. Open
    BY <1>2 DEF Open
  <2>2. \A c \in Calls, i \in 1 .. Len(Ended) : Ended[i] # Event("tool_call", c)
    <3>1. \A c \in Calls : Event("tool_call", c).type = "tool_call"
      BY EventTypes
    <3>2. \A i \in 1 .. Len(Ended) : Ended[i].type \in {"usage", "end"}
      BY <1>5
    <3> QED
      BY <3>1, <3>2
  <2>3. graph.call \in Calls /\ screen.runs[graph.call] = "running"
    BY <1>1, <1>3, <1>6, <2>1, <2>2 DEF CallsOK, Says
  <2> QED
    BY <1>1, <1>2, <1>3, <1>4, <1>6, <2>3 DEF CallsOK
<1>9. Arrived' = Arrived
  BY <1>2 DEF Arrived
<1>10. TextOK'
  BY <1>1, <1>2, <1>4, <1>9 DEF TextOK, TextArrives
<1>11. ScreenOK' /\ OutputsOK'
  <2>1. Open' = Open
    BY <1>2 DEF Open
  <2>2. ~Over
    BY <1>2 DEF Over
  <2> QED
    BY <1>1, <1>2, <2>1, <2>2, SameScreen
<1>12. Types'
  BY <1>1, <1>2, <1>4 DEF Types
<1> QED
  BY <1>7, <1>8, <1>10, <1>11, <1>12 DEF CInv

\* The response is over, or the CLI leaves.
LEMMA LeavingKeeps ==
  ASSUME CInv, cli' \in {"prompt", "gone"}, screen' \in FlushLive(screen),
         wire'["outer"] = <<>>, wire'["inner"] = <<>>, wire' \in [{"outer", "inner"} -> Seq(Events)],
         graph' = graph \/ graph' = [graph EXCEPT !.pc = "idle"],
         UNCHANGED <<mode, terminal, previous, received, spoken, ambiguous, late>>
  PROVE  CInv' /\ Plain(Shown') = received
<1>1. Types /\ WireOK /\ CallsOK /\ TextOK /\ ScreenOK /\ OutputsOK
  BY DEF CInv
<1>2. ~Open' /\ Connection' = "outer"
  BY DEF Open, Connection
<1>3. /\ screen' \in Screens /\ screen'.runs = screen.runs /\ ScreenOK' /\ OutputsOK'
      /\ Plain(Shown') = received
  BY <1>1, <1>2, FlushKeepsScreen
<1>4. /\ graph' \in [pc : {"idle", "model", "tool", "interrupted", "decided"}, text : Seq(Words), call : Nat]
      /\ graph'.call = graph.call /\ graph'.text = graph.text
  <2>1. graph \in [pc : {"idle", "model", "tool", "interrupted", "decided"}, text : Seq(Words), call : Nat]
    BY <1>1 DEF Types
  <2> QED
    BY <2>1
<1>5. Types'
  BY <1>1, <1>3, <1>4 DEF Types
<1>6. WireOK'
  BY DEF WireOK
<1>7. CallsOK'
  BY <1>1, <1>2, <1>3, <1>4 DEF CallsOK
<1>8. TextOK'
  BY <1>1, <1>4 DEF TextOK, TextArrives
<1> QED
  BY <1>3, <1>5, <1>6, <1>7, <1>8 DEF CInv

\* At the prompt nothing is on the wire.
LEMMA PromptIsQuiet ==
  ASSUME CInv, cli = "prompt"
  PROVE  /\ wire \in [{"outer", "inner"} -> Seq(Events)] /\ wire["outer"] = <<>> /\ wire["inner"] = <<>>
         /\ ~screen.live /\ screen.frame = <<>> /\ Shown = screen.scrolled /\ Plain(Shown) = received
<1>1. Types /\ WireOK /\ ScreenOK
  BY DEF CInv
<1>2. ~Open
  BY DEF Open
<1>3. wire \in [{"outer", "inner"} -> Seq(Events)] /\ wire["outer"] = <<>> /\ wire["inner"] = <<>>
  BY <1>1 DEF WireOK, Types
<1>4. ~screen.live /\ screen.frame = <<>> /\ Plain(screen.scrolled) = received
  BY <1>1, <1>2 DEF ScreenOK
<1>5. screen.scrolled \in Seq(Pieces)
  BY <1>1 DEF Types, Screens
<1>6. Shown = screen.scrolled
  BY <1>4, <1>5, Concat DEF Shown
<1> QED
  BY <1>3, <1>4, <1>6

LEMMA SilentIsEmpty ==
  /\ Silent \in [{"outer", "inner"} -> Seq(Events)] /\ Silent["outer"] = <<>> /\ Silent["inner"] = <<>>
BY DEF Silent

LEMMA ReadEndKeeps ==
  ASSUME CInv, ReadEnd
  PROVE  /\ CInv'
         /\ cli = "inner" => cli' = "outer" /\ UNCHANGED <<screen, received>>
         /\ cli = "outer" => cli' = "prompt" /\ received' = received /\ Plain(Shown') = received
<1>1. Types /\ WireOK /\ CallsOK /\ TextOK /\ ScreenOK /\ OutputsOK
  BY DEF CInv
<1>2. /\ cli \in {"outer", "inner"} /\ wire[cli] # <<>> /\ Head(wire[cli]).type = "end"
      /\ wire' = [wire EXCEPT ![cli] = Tail(@)] /\ graph' = graph
      /\ UNCHANGED <<mode, terminal, previous, received, spoken, ambiguous, late>>
      /\ cli = "inner" => cli' = "outer" /\ screen' = screen
      /\ cli = "outer" => cli' = "prompt" /\ screen' \in FlushLive(screen)
  BY DEF ReadEnd, FinishResponse
<1>3. /\ wire' \in [{"outer", "inner"} -> Seq(Events)] /\ cli = Connection
      /\ wire[cli] \in Seq(Events) /\ \A h \in {"outer", "inner"} : h # cli => wire'[h] = wire[h]
      /\ Head(wire[cli]) \in Events /\ Head(wire[cli]) = wire[cli][1]
      /\ Len(wire[cli]) \in Nat \ {0} /\ Len(wire'[cli]) = Len(wire[cli]) - 1
  BY <1>1, <1>2, Taken
<1>4. Len(wire[cli]) = 1 /\ graph.pc \in {"idle", "interrupted"}
  <2>1. 1 \in 1 .. Len(wire[cli]) /\ wire[cli][1].type = "end"
    BY <1>2, <1>3
  <2> QED
    BY <1>1, <1>2, <1>3, <2>1 DEF WireOK
<1>5. wire'[cli] = <<>>
  <2>1. wire'[cli] \in Seq(Events)
    BY <1>2, <1>3
  <2> QED
    BY <1>3, <1>4, <2>1
<1>6. CASE cli = "outer"
  <2>1. wire["inner"] = <<>>
    BY <1>1, <1>6 DEF WireOK
  <2>2. wire'["inner"] = <<>> /\ wire'["outer"] = <<>>
    BY <1>3, <1>5, <1>6, <2>1
  <2> QED
    BY <1>2, <1>3, <1>6, <2>2, LeavingKeeps
<1>7. CASE cli = "inner"
  <2>1. /\ wire'["inner"] = <<>> /\ wire'["outer"] = Ended /\ wire["outer"] = Ended /\ cli' = "outer"
        /\ Connection' = "outer" /\ screen' = screen
    BY <1>1, <1>2, <1>3, <1>5, <1>7 DEF WireOK, Connection
  <2>2. /\ Len(Ended) = 2 /\ Ended[1] = Event("usage", None) /\ Ended[2] = Event("end", None)
        /\ Event("usage", None).type = "usage" /\ Event("end", None).type = "end"
    BY EventTypes DEF Ended
  <2>3. \A i \in 1 .. Len(Ended) : Ended[i].type \in {"usage", "end"} /\ (Ended[i].type = "end" => i = Len(Ended))
    BY <2>2
  <2>4. \A i \in 1 .. Len(<<>>) : FALSE
    OBVIOUS
  <2>5. WireOK'
    BY <1>2, <1>4, <2>1, <2>2, <2>3, <2>4 DEF WireOK
  <2>6. \A type \in {"tool_call", "tool_output"}, c \in Calls :
          /\ \A i \in 1 .. Len(Ended) : Ended[i] # Event(type, c)
          /\ \A i \in 1 .. Len(wire["inner"]) : wire["inner"][i] # Event(type, c)
    <3>1. \A type \in {"tool_call", "tool_output"}, c \in Calls : Event(type, c).type \notin {"usage", "end"}
      BY EventTypes
    <3>2. \A i \in 1 .. Len(wire["inner"]) : wire["inner"][i].type = "end"
      BY <1>2, <1>3, <1>4, <1>7
    <3> QED
      BY <2>3, <3>1, <3>2
  <2>7. CallsOK'
    <3>1. Open
      BY <1>7 DEF Open
    <3>2. Connection = "inner"
      BY <1>3, <1>7
    <3>3. graph.pc = "interrupted" => graph.call \in Calls /\ screen.runs[graph.call] = "running"
      BY <1>1, <2>6, <3>1, <3>2 DEF CallsOK, Says
    <3>4. graph.pc # "tool" /\ graph.pc # "decided"
      BY <1>4
    <3> QED
      BY <1>1, <1>2, <2>1, <2>6, <3>3, <3>4 DEF CallsOK, Says
  <2>8. Arrived' = Arrived
    <3> DEFINE e == Head(wire[cli])
    <3>1. e \in Events /\ e.type = "end" /\ received \in Seq(Pieces)
      BY <1>1, <1>2, <1>3 DEF Types
    <3>2. received' = received \o Content(e)
      <4> HIDE DEF e
      <4>1. Content(e) = <<>>
        BY <3>1 DEF Content
      <4> QED
        BY <1>2, <3>1, <4>1
    <3> QED
      BY <1>1, <1>2, <3>2, ReadMovesText
  <2>9. TextOK'
    BY <1>1, <1>2, <1>7, <2>1, <2>8 DEF TextOK, TextArrives
  <2>10. ScreenOK' /\ OutputsOK'
    <3>1. Open' = Open
      BY <1>7, <2>1 DEF Open
    <3>2. ~Over
      BY <1>7 DEF Over
    <3> QED
      BY <1>1, <1>2, <2>1, <3>1, <3>2, SameScreen
  <2>11. Types'
    BY <1>1, <1>2, <1>3, <2>1 DEF Types
  <2>12. CInv'
    BY <2>5, <2>7, <2>9, <2>10, <2>11 DEF CInv
  <2> QED
    BY <1>2, <1>7, <2>1, <2>12
<1> QED
  BY <1>2, <1>6, <1>7

LEMMA CutKeeps ==
  ASSUME CInv, Cut
  PROVE  CInv' /\ Plain(Shown') = received /\ received' = received /\ Open /\ cli' = "prompt"
<1>1. screen \in Screens
  BY DEF CInv, Types
<1>2. screen' \in GiveUp(screen) /\ graph' = [graph EXCEPT !.pc = "idle"] /\ wire' = Silent /\ cli' = "prompt"
      /\ UNCHANGED <<mode, terminal, previous, received, spoken, ambiguous, late>> /\ Open
  BY DEF Cut, Open
<1>3. screen' \in FlushLive(screen)
  BY <1>1, <1>2, GiveUpFlushes
<1> QED
  BY <1>2, <1>3, SilentIsEmpty, LeavingKeeps

LEMMA EndOfInputKeeps ==
  ASSUME CInv, EndOfInput
  PROVE  CInv' /\ Plain(Shown') = received /\ received' = received /\ Open /\ cli' = "gone"
<1>1. screen' \in FlushLive(screen) /\ graph' = [graph EXCEPT !.pc = "idle"] /\ wire' = Silent /\ cli' = "gone"
      /\ UNCHANGED <<mode, terminal, previous, received, spoken, ambiguous, late>> /\ Open
  BY DEF EndOfInput, FinishResponse, Open
<1> QED
  BY <1>1, SilentIsEmpty, LeavingKeeps

LEMMA LeavePromptKeeps ==
  ASSUME CInv, EndOfPrompt \/ Exit
  PROVE  CInv' /\ Plain(Shown') = received /\ Plain(Shown) = received /\ received' = received /\ cli = "prompt"
         /\ cli' = "gone"
<1>1. /\ cli = "prompt" /\ cli' = "gone" /\ graph' = graph /\ wire' = wire
      /\ UNCHANGED <<mode, terminal, previous, received, spoken, ambiguous, late>>
  BY DEF EndOfPrompt, Exit
<1>2. /\ wire \in [{"outer", "inner"} -> Seq(Events)] /\ wire["outer"] = <<>> /\ wire["inner"] = <<>>
      /\ ~screen.live /\ Plain(Shown) = received
  BY <1>1, PromptIsQuiet
<1>3. screen' \in FlushLive(screen)
  BY <1>2 DEF EndOfPrompt, Exit, FinishResponse, FlushLive
<1> QED
  BY <1>1, <1>2, <1>3, LeavingKeeps

LEMMA StutterKeeps ==
  ASSUME CInv, UNCHANGED vars
  PROVE  CInv'
<1>1. Types /\ WireOK /\ CallsOK /\ TextOK /\ ScreenOK /\ OutputsOK
  BY DEF CInv
<1>2. UNCHANGED <<mode, terminal, graph, previous, wire, cli, screen, received, spoken, ambiguous, late>>
  BY DEF vars
<1>3. Types' /\ WireOK'
  BY <1>1, <1>2 DEF Types, WireOK, Connection
<1>4. CallsOK'
  BY <1>1, <1>2 DEF CallsOK, Says, Connection, Open
<1>5. TextOK'
  BY <1>1, <1>2 DEF TextOK, TextArrives, Arrived
<1>6. ScreenOK' /\ OutputsOK'
  <2>1. Open' = Open /\ (~Over \/ Over')
    BY <1>2 DEF Open, Over
  <2> QED
    BY <1>1, <1>2, <2>1, SameScreen
<1> QED
  BY <1>3, <1>4, <1>5, <1>6 DEF CInv

-----------------------------------------------------------------------------
(* The theorems *)

LEMMA NextKeeps ==
  ASSUME CInv, [Next]_vars
  PROVE  CInv'
<1>1. CASE \E new \in {<<w>> : w \in Words} \union (Words \X Words) : Say(new)
  <2>1. PICK new \in {<<w>> : w \in Words} \union (Words \X Words) : Say(new)
    BY <1>1
  <2> QED
    BY <2>1, SaysDelta, SayKeeps
<1>2. CASE CallTool \/ InterruptTool \/ ToolAnswers \/ EndTurn \/ Fail
  BY <1>2, CallToolKeeps, InterruptToolKeeps, ToolAnswersKeeps, EndTurnKeeps, FailKeeps
<1>3. CASE ReadEvent \/ AskUser \/ ReadEnd
  BY <1>3, ReadEventKeeps, AskUserKeeps, ReadEndKeeps
<1>4. CASE Cut \/ EndOfInput \/ EndOfPrompt \/ Exit
  BY <1>4, CutKeeps, EndOfInputKeeps, LeavePromptKeeps
<1>5. CASE ReadBroken
  BY <1>5, CutKeeps DEF ReadBroken
<1>6. CASE Submit \/ Decide
  BY <1>6, SubmitKeeps, DecideKeeps
<1>7. CASE UNCHANGED vars
  BY <1>7, StutterKeeps
<1> QED
  BY <1>1, <1>2, <1>3, <1>4, <1>5, <1>6, <1>7 DEF Next, Answering, Reading

\* The types, what may stand on the two connections, what the frame and the
\* screen hold between two draws, and where each call and its output are.
THEOREM ConversationInvariance == Spec => []CInv
<1>1. Init => CInv
  BY InitHolds
<1>2. CInv /\ [Next]_vars => CInv'
  BY NextKeeps
<1> QED
  BY <1>1, <1>2, PTL DEF Spec

\* All the text of the model is received or on its way, once and in order, for a
\* model that streams the text so far and for one that streams what is new, with
\* tools, approvals and a second connection in between (agent_loop.py:655-667),
\* unless a delta began with all the text before it.
THEOREM TextAlwaysArrives == Spec => []TextArrives
<1>1. CInv => TextArrives
  BY DEF CInv, TextOK
<1> QED
  BY <1>1, ConversationInvariance, PTL

\* Back at the prompt the output of each tool stands once and right under its
\* call, unless the call had scrolled off the frame while it was running
\* (rich_renderer.py:231-248, 289-295).
THEOREM OutputsAlwaysUnderTheirCalls == Spec => []OutputsUnderTheirCalls
<1>1. CInv => OutputsUnderTheirCalls
  <2> SUFFICES ASSUME CInv, NEW c \in Calls, cli = "prompt", screen.runs[c] = "done", c \notin late
               PROVE  UnderItsCall(Shown, c)
    BY DEF OutputsUnderTheirCalls
  <2>1. ~screen.live /\ Shown = screen.scrolled
    BY PromptIsQuiet
  <2>2. UnderItsCall(screen.scrolled, c)
    BY <2>1 DEF CInv, OutputsOK
  <2> QED
    BY <2>1, <2>2
<1> QED
  BY <1>1, ConversationInvariance, PTL

\* A step of the conversation is a step of Transcript, or none.
LEMMA StepRefines ==
  ASSUME CInv, [Next]_vars
  PROVE  T!Begin \/ T!Show \/ T!Finish \/ UNCHANGED <<received, Plain(Shown), cli \notin {"prompt", "gone"}>>
<1>1. cli \in {"prompt", "outer", "inner", "asking", "gone"} /\ received \in Seq(Pieces)
  BY DEF CInv, Types
<1>2. CASE Submit
  <2>1. Plain(Shown') = <<>>
    BY <1>2, SubmitKeeps
  <2> QED
    BY <1>2, <2>1 DEF T!Begin, Submit
<1>3. CASE ReadEvent
  <2> DEFINE e == Head(wire[cli])
             Drawable == {Word(w) : w \in Words} \union {Call(c) : c \in Calls}
  <2>1. Plain(Shown') \in {Plain(Shown), received'}
    BY <1>3, ReadEventKeeps
  <2>2. Types /\ WireOK /\ CallsOK
    BY DEF CInv
  <2>3. e \in Events /\ cli \in {"outer", "inner"} /\ cli' = cli /\ received' = received \o Content(e)
    <3> HIDE DEF e
    <3>1. e = Head(wire[cli])
      BY DEF e
    <3> QED
      BY <1>3, <2>2, <3>1, ReadFacts
  <2> HIDE DEF e
  <2>4. Content(e) = <<>> \/ Content(e) \in UNION {[1 .. n -> Drawable] : n \in 1 .. 2}
    BY <2>3, ContentFits
  <2>5. received' = received \/ \E more \in UNION {[1 .. n -> Drawable] : n \in 1 .. 2} : received' = received \o more
    BY <1>1, <2>3, <2>4, Concat
  <2> QED
    BY <2>1, <2>3, <2>5 DEF T!Show
<1>4. CASE ReadEnd
  <2>1. /\ cli \in {"outer", "inner"}
        /\ cli = "inner" => cli' = "outer" /\ UNCHANGED <<screen, received>>
        /\ cli = "outer" => cli' = "prompt" /\ received' = received /\ Plain(Shown') = received
    BY <1>4, ReadEndKeeps DEF ReadEnd
  <2>2. CASE cli = "inner"
    BY <2>1, <2>2 DEF Shown
  <2>3. CASE cli = "outer"
    BY <2>1, <2>3 DEF T!Finish
  <2> QED
    BY <2>1, <2>2, <2>3
<1>5. CASE Cut \/ ReadBroken \/ EndOfInput
  <2>1. Plain(Shown') = received /\ received' = received /\ Open /\ cli' \in {"prompt", "gone"}
    BY <1>5, CutKeeps, EndOfInputKeeps DEF ReadBroken
  <2> QED
    BY <2>1 DEF T!Finish, Open
<1>6. CASE EndOfPrompt \/ Exit
  BY <1>6, LeavePromptKeeps
<1>7. CASE AskUser \/ Decide
  BY <1>7 DEF AskUser, Decide, Shown
<1>8. CASE Answering
  BY <1>8 DEF Answering, Say, CallTool, InterruptTool, ToolAnswers, EndTurn, Fail, Shown
<1>9. CASE UNCHANGED vars
  BY <1>9 DEF vars, Shown
<1> QED
  BY <1>2, <1>3, <1>4, <1>5, <1>6, <1>7, <1>8, <1>9 DEF Next, Reading

\* The renderer keeps the promise of Transcript: what has come in of a response
\* is shown once and in order, a little late at most, and all of it when the
\* response is over, whatever the throttle, a frame that overflows, an error in
\* the middle or a nested answer do (rich_renderer.py:196-330).
THEOREM ScreenKeepsPromise == Spec => ShowsTranscript
<1>1. Init => T!Init
  <2> SUFFICES ASSUME Init
               PROVE  T!Init
    OBVIOUS
  <2>1. cli = "prompt" /\ received = <<>>
    BY DEF Init
  <2>2. Plain(Shown) = received
    BY <2>1, InitHolds, PromptIsQuiet
  <2> QED
    BY <2>1, <2>2 DEF T!Init
<1>2. CInv /\ [Next]_vars => [T!Next]_T!vars
  BY StepRefines DEF T!Next, T!vars
<1> QED
  BY <1>1, <1>2, ConversationInvariance, PTL DEF Spec, ShowsTranscript, T!Spec
==============================================================================
