------------------------------ MODULE Contracts ------------------------------
(***************************************************************************)
(* What a service must look like to be created and bound: one method of a  *)
(* Protocol class, the contract, against the member of that name which an  *)
(* instance offers (langharness_plugin/validation.py).  plugin_manager.py  *)
(* asks before it registers an instance (720-729), ContractGuard before a  *)
(* component uses a service (496-509).                                     *)
(*                                                                         *)
(* Signatures are compared by name and kind, annotations by a matching of  *)
(* their own.  Both are checked here against what they stand for: whether  *)
(* Python binds the calls a contract permits, and whether the values that  *)
(* pass between caller and service are of the types each side declares.    *)
(*                                                                         *)
(* An annotation is a record: form "class" or "generic" (origin, args),    *)
(* "union" (args are its arms, in one order, so that equal unions are      *)
(* equal), "list" (the parameter list of a Callable), "any", "missing".    *)
(***************************************************************************)
EXTENDS Naturals, Sequences, FiniteSets

CONSTANTS
  Offers,       \* pairs of a contract method and a member: [contract, member]
  SubClasses,   \* <<class, its base>>, for the distinct classes
  Values        \* [class, items]: the values types are told apart by

VARIABLES
  offer,        \* the pair this history is about
  judged,       \* it has been validated
  violations    \* the codes that were reported

vars == <<offer, judged, violations>>

Receivers == {"self", "cls"}

(* Parameters of a signature that are passed by position, or by keyword.   *)
Positional == {"only_positional", "either"}
Keyword    == {"either", "only_keyword"}

Chosen(s, Test(_)) == SelectSeq(s, Test)
Elements(s) == {s[i] : i \in DOMAIN s}

(* What is kept of a method: the receiver is left out, *args and **kwargs  *)
(* become flags.                                                           *)
ParameterContract(p) ==
  [name |-> p.name, positional |-> p.kind \in Positional,
   keyword |-> p.kind \in Keyword, has_default |-> p.default,
   annotation |-> p.annotation]

MethodContract(member) ==
  LET ps == Chosen(member.parameters, LAMBDA p : p.name \notin Receivers)
  IN  [parameters |-> [i \in DOMAIN ps |-> ParameterContract(ps[i])],
       var_positional |-> member.args, var_keyword |-> member.kwargs,
       returns |-> member.returns, error |-> member.is = "unreadable"]

-----------------------------------------------------------------------------
(* Annotations.                                                            *)

Wildcard(t) == t.form \in {"any", "missing"}
SubClass(c, d) == c = d \/ <<c, d>> \in SubClasses
Arms(t) == IF t.form = "union" THEN Elements(t.args) ELSE {t}

RECURSIVE AnnotationsMatch(_, _, _)
AnnotationsMatch(expected, actual, covariance) ==
  LET Pairwise == /\ Len(expected.args) = Len(actual.args)
                  /\ \A i \in DOMAIN expected.args :
                       AnnotationsMatch(expected.args[i], actual.args[i], covariance)
      Form(f)  == expected.form = f /\ actual.form = f
      Either(f) == f \in {expected.form, actual.form}
  IN  \/ Wildcard(expected) \/ Wildcard(actual)
      \/ expected = actual
      \/ Form("list") /\ Pairwise
      \/ /\ ~Either("list") /\ Either("union")
         /\ IF covariance
            THEN \A a \in Arms(actual) : \E e \in Arms(expected) :
                   AnnotationsMatch(e, a, TRUE)
            ELSE \A e \in Arms(expected) : \E a \in Arms(actual) :
                   AnnotationsMatch(e, a, FALSE)
      \/ Form("class") /\ covariance /\ SubClass(actual.origin, expected.origin)
      \/ /\ Form("generic")
         /\ \/ expected.origin = actual.origin
            \/ covariance /\ SubClass(actual.origin, expected.origin)
         /\ expected.args = <<>> \/ actual.args = <<>> \/ Pairwise

-----------------------------------------------------------------------------
(* The verdict.                                                            *)

(* A parameter of the contract that the member does not have under its     *)
(* name is taken by *args or by **kwargs, one of them is enough.           *)
Absorbed(p, actual) ==
  (p.positional /\ actual.var_positional) \/ (p.keyword /\ actual.var_keyword)

NamesakesOf(p, actual) == {q \in Elements(actual.parameters) : q.name = p.name}

(* The arguments a contract passes by position are thought to fill the     *)
(* first parameters of the member.                                         *)
Filled(expected) ==
  Cardinality({i \in DOMAIN expected.parameters : expected.parameters[i].positional})

(* Mutant: an index that counts from one, compared as if from zero.        *)
InPrefixOrNext(i, expected) == i <= Filled(expected) + 1
InPrefix(i, expected) == i <= Filled(expected)

(* A parameter that the member demands and no call of the contract fills.  *)
ExtraRequired(i, expected, actual) ==
  LET p == actual.parameters[i]
  IN  /\ ~p.has_default /\ ~(p.positional /\ InPrefix(i, expected))
      /\ \A q \in Elements(expected.parameters) : q.name # p.name

ParameterCodes == {"PARAM_KIND_CONFLICT", "PARAM_NOT_ACCEPTED", "PARAM_EXTRA_REQUIRED"}

ParameterProblem(code, expected, actual) ==
  \/ /\ code = "PARAM_KIND_CONFLICT"
     /\ \E p \in Elements(expected.parameters) : \E q \in NamesakesOf(p, actual) :
          (p.positional /\ ~q.positional) \/ (p.keyword /\ ~q.keyword)
  \/ /\ code = "PARAM_NOT_ACCEPTED"
     /\ \E p \in Elements(expected.parameters) :
          NamesakesOf(p, actual) = {} /\ ~Absorbed(p, actual)
  \/ /\ code = "PARAM_EXTRA_REQUIRED"
     /\ \E i \in DOMAIN actual.parameters : ExtraRequired(i, expected, actual)

(* Mutant: parameters are compared as results are.                         *)
ParameterMismatchCovariant(expected, actual) ==
  \E p \in Elements(expected.parameters) : \E q \in NamesakesOf(p, actual) :
    ~AnnotationsMatch(p.annotation, q.annotation, TRUE)

ParameterMismatch(expected, actual) ==
  \E p \in Elements(expected.parameters) : \E q \in NamesakesOf(p, actual) :
    ~AnnotationsMatch(p.annotation, q.annotation, FALSE)

(* A return value the contract says nothing about may be anything; one it  *)
(* does must be annotated.  Parameters need no annotation.                 *)
AnnotationCodes == {"RETURN_ANNOTATION_MISSING", "RETURN_ANNOTATION_MISMATCH",
                    "PARAM_ANNOTATION_MISMATCH"}

AnnotationProblem(code, expected, actual) ==
  \/ /\ code = "RETURN_ANNOTATION_MISSING"
     /\ ~Wildcard(expected.returns) /\ actual.returns.form = "missing"
  \/ /\ code = "RETURN_ANNOTATION_MISMATCH"
     /\ ~AnnotationsMatch(expected.returns, actual.returns, TRUE)
  \/ /\ code = "PARAM_ANNOTATION_MISMATCH"
     /\ ParameterMismatch(expected, actual)

(* A member that is missing, not callable or unreadable is reported as     *)
(* that, and looked at no further.                                         *)
Violations(contract, member) ==
  LET expected == MethodContract(contract)
      actual   == MethodContract(member)
      Readable == ~expected.error /\ member.is = "method"
  IN  {code \in {"UNRESOLVED_SIGNATURE"} : expected.error \/ actual.error}
      \cup {code \in {"MISSING_METHOD"} : ~expected.error /\ member.is = "absent"}
      \cup {code \in {"NOT_CALLABLE"} : ~expected.error /\ member.is = "data"}
      \cup {code \in ParameterCodes : Readable /\ ParameterProblem(code, expected, actual)}
      \cup {code \in AnnotationCodes : Readable /\ AnnotationProblem(code, expected, actual)}

Init == offer \in Offers /\ judged = FALSE /\ violations = {}

(* validate, for an instance that has just been made or a service that is  *)
(* about to be bound.                                                      *)
Validate ==
  /\ ~judged /\ judged' = TRUE
  /\ violations' = Violations(offer.contract, offer.member)
  /\ UNCHANGED offer

(* The service goes away, and its violations with it.                      *)
Release ==
  /\ judged /\ judged' = FALSE
  /\ violations' = {}
  /\ UNCHANGED offer

Next == Validate \/ Release
Spec == Init /\ [][Next]_vars

-----------------------------------------------------------------------------
(* The calls a contract permits, and what Python does with them.           *)

(* The first n arguments by position, the others by keyword; what has a    *)
(* default may be left out.                                                *)
Calls(contract) ==
  LET ps      == MethodContract(contract).parameters
      pos     == Chosen(ps, LAMBDA p : p.positional)
      Rest(n) == Elements(ps) \ {pos[i] : i \in 1..n}
      Named(n) == {K \in SUBSET {p.name : p \in {q \in Rest(n) : q.keyword}} :
                     \A p \in Rest(n) : p.has_default \/ p.name \in K}
  IN  UNION {[positional : {[i \in 1..n |-> pos[i].name]}, keyword : Named(n)] :
               n \in 0..Len(pos)}

(* Python finds a place for every argument, and an argument for every      *)
(* parameter without a default.                                            *)
Binds(member, call) ==
  LET pos    == Chosen(member.parameters, LAMBDA p : p.kind \in Positional)
      n      == Len(call.positional)
      filled == {pos[i].name : i \in 1..(IF n < Len(pos) THEN n ELSE Len(pos))}
      named  == {p.name : p \in {q \in Elements(member.parameters) :
                                   q.kind \in Keyword}} \cap call.keyword
  IN  /\ n <= Len(pos) \/ member.args
      /\ named \cap filled = {}
      /\ call.keyword \subseteq named \/ member.kwargs
      /\ \A p \in Elements(member.parameters) :
           p.default \/ p.name \in filled \cup named

(* An argument reaches the parameter of its name, where there is one, and  *)
(* otherwise *args or **kwargs.                                            *)
InPlace(member, call) ==
  LET pos == Chosen(member.parameters, LAMBDA p : p.kind \in Positional)
      Takes(name, kinds) == \E p \in Elements(member.parameters) :
                            p.name = name /\ p.kind \in kinds
  IN  /\ \A i \in DOMAIN call.positional :
           IF i <= Len(pos) THEN pos[i].name = call.positional[i]
           ELSE ~Takes(call.positional[i], Positional \cup Keyword)
      /\ \A k \in call.keyword : ~Takes(k, {"only_positional"})

Understood(contract, member) ==
  \A c \in Calls(contract) : Binds(member, c) /\ InPlace(member, c)

-----------------------------------------------------------------------------
(* The values of a type: those it has for certain, and with wild TRUE also *)
(* those it may have where it says Any or nothing.  The items of a         *)
(* callable are the class it takes and the class it gives.                 *)
RECURSIVE Has(_, _, _)
Has(t, v, wild) ==
  LET Atoms(u, w) == {x \in Values : x.items = <<>> /\ Has(u, x, w)}
      OfClass(c)  == {x \in Values : x.items = <<>> /\ SubClass(x.class, c)}
  IN  \/ Wildcard(t) /\ wild
      \/ t.form = "class" /\ SubClass(v.class, t.origin)
      \/ t.form = "union" /\ \E a \in Elements(t.args) : Has(a, v, wild)
      \/ /\ t.form = "generic" /\ t.origin = "Callable" /\ v.class = "Callable"
         /\ \/ Wildcard(t.args[1].args[1]) /\ wild
            \/ Atoms(t.args[1].args[1], ~wild) \subseteq OfClass(v.items[1])
         /\ OfClass(v.items[2]) \subseteq Atoms(t.args[2], wild)
      \/ /\ t.form = "generic" /\ t.origin # "Callable" /\ v.class # "Callable"
         /\ SubClass(v.class, t.origin)
         /\ IF t.args = <<>> THEN wild \/ v.items = <<>>
            ELSE IF t.origin = "tuple"
            THEN /\ Len(v.items) = Len(t.args)
                 /\ \A i \in DOMAIN t.args :
                      \E x \in Atoms(t.args[i], wild) : x.class = v.items[i]
            ELSE \A i \in DOMAIN v.items :
                   \E x \in Atoms(t.args[1], wild) : x.class = v.items[i]

Fits(given, wanted) ==
  \A v \in Values : Has(given, v, FALSE) => Has(wanted, v, TRUE)

-----------------------------------------------------------------------------
(* What the check takes for granted.  The arguments a contract passes by   *)
(* position find parameters of their own names there (its docstring, lines *)
(* 307-313, names the case where they do not).                             *)
Aligned(contract, member) ==
  LET Pos(m) == Chosen(MethodContract(m).parameters, LAMBDA p : p.positional)
  IN  \A i \in DOMAIN Pos(contract) \cap DOMAIN Pos(member) :
        Pos(contract)[i].name = Pos(member)[i].name

(* What the contract lets a caller leave out, the member does not demand.  *)
DefaultsKept(contract, member) ==
  \A p \in Elements(contract.parameters), q \in Elements(member.parameters) :
    p.name = q.name /\ p.default => q.default

(* What is absorbed is absorbed in every way it may be passed.             *)
AbsorbedBothWays(contract, member) ==
  \A p \in Elements(MethodContract(contract).parameters) :
    \/ \E q \in Elements(member.parameters) : q.name = p.name
    \/ (p.positional => member.args) /\ (p.keyword => member.kwargs)

(* A callback's parameter list is matched in the direction of the place    *)
(* the callback stands in, where it should be the other one.               *)
Callback(t) == t.form = "generic" /\ t.origin = "Callable"
SameCallback(t, u) == Callback(t) /\ Callback(u) => t.args[1] = u.args[1]

Admitted == judged /\ violations = {}
Refused  == judged /\ violations # {}

(* Nothing is refused that every caller could use as it is (302-362): a    *)
(* reported parameter breaks some call the contract permits.  And what is  *)
(* admitted takes all of them, each argument under its own name, as far as *)
(* the check can know.                                                     *)
VerdictIsCallability ==
  /\ Refused /\ violations \cap ParameterCodes # {} =>
       ~Understood(offer.contract, offer.member)
  /\ /\ Admitted
     /\ Aligned(offer.contract, offer.member)
     /\ DefaultsKept(offer.contract, offer.member)
     /\ AbsorbedBothWays(offer.contract, offer.member)
     => Understood(offer.contract, offer.member)

(* Callers hand an admitted service only values its parameters are         *)
(* declared for, and get back only values the contract declares (196-279): *)
(* parameters may be widened, results narrowed, at every depth.            *)
AdmittedValuesFit ==
  Admitted =>
    LET expected == MethodContract(offer.contract)
        actual   == MethodContract(offer.member)
    IN  /\ SameCallback(expected.returns, actual.returns)
             => Fits(actual.returns, expected.returns)
        /\ \A p \in Elements(expected.parameters) : \A q \in NamesakesOf(p, actual) :
             SameCallback(p.annotation, q.annotation) => Fits(p.annotation, q.annotation)
=============================================================================
