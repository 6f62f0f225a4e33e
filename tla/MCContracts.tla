----------------------------- MODULE MCContracts -----------------------------
(***************************************************************************)
(* Offers of two families.  Shapes: a contract of at most three parameters *)
(* against every member of at most three, which may have a name of its     *)
(* own, *args and **kwargs; contracts have no parameters that are only     *)
(* positional and no *args of their own, as none in the sources does.      *)
(* Types: a parameter or a result, every pair of annotations.              *)
(***************************************************************************)
EXTENDS Contracts

Class(c)         == [form |-> "class", origin |-> c, args |-> <<>>]
Generic(o, args) == [form |-> "generic", origin |-> o, args |-> args]
UnionOf(args)    == [form |-> "union", origin |-> "union", args |-> args]
AnyType          == [form |-> "any", origin |-> "", args |-> <<>>]
Missing          == [form |-> "missing", origin |-> "", args |-> <<>>]
CallableOf(p, r) == Generic("Callable", <<[form |-> "list", origin |-> "", args |-> <<p>>], r>>)

MCSubClasses == {<<"bool", "int">>, <<"list", "Sequence">>, <<"tuple", "Sequence">>}
Scalars      == {"bool", "int", "str"}
Scalar(t)    == t.form # "generic"

(* A value of each class, the sequences of at most two of them, and the    *)
(* functions of one argument.                                              *)
MCValues ==
  {[class |-> c, items |-> <<>>] : c \in Scalars}
    \cup {[class |-> c, items |-> s] : c \in {"list", "tuple"},
            s \in UNION {[1..n -> Scalars] : n \in 1..2}}
    \cup {[class |-> "Callable", items |-> <<c, d>>] : c \in Scalars, d \in Scalars}

Flat == {Class(c) : c \in Scalars} \cup {AnyType}
          \cup {UnionOf(<<Class("int"), Class("str")>>), UnionOf(<<Class("bool"), Class("str")>>)}
Deep == {Generic(o, <<t>>) : o \in {"list", "Sequence"}, t \in Flat}
          \cup {Generic("list", <<>>), Generic("tuple", <<Class("int")>>),
                Generic("tuple", <<Class("bool"), Class("str")>>)}
          \cup {CallableOf(p, r) : p \in Flat, r \in {Class("bool"), Class("int")}}
Types == Flat \cup Deep \cup {Missing}
          \cup {UnionOf(<<Class("str"), t>>) : t \in {Generic("list", <<u>>) : u \in Flat}}

Parameter(n, k, d, t) == [name |-> n, kind |-> k, default |-> d, annotation |-> t]
Method(ps, args, kwargs, t) ==
  [is |-> "method", parameters |-> ps, args |-> args, kwargs |-> kwargs, returns |-> t]
Self == Parameter("self", "either", FALSE, Missing)

(* What Python accepts as a parameter list: kinds in order, no demand      *)
(* behind a default among those passed by position.                        *)
Rank(k) == CASE k = "only_positional" -> 1 [] k = "either" -> 2 [] k = "only_keyword" -> 3
ParameterLists(names, kinds, max) ==
  {ps \in UNION {[1..n -> {Parameter(x, k, d, Missing) :
                             x \in names, k \in kinds, d \in BOOLEAN}] : n \in 0..max} :
     \A i, j \in DOMAIN ps : i < j =>
       /\ ps[i].name # ps[j].name
       /\ Rank(ps[i].kind) <= Rank(ps[j].kind)
       /\ ps[j].kind # "only_keyword" /\ ps[i].default => ps[j].default}

Shapes ==
  [contract : {Method(<<Self>> \o ps, FALSE, FALSE, Missing) :
                 ps \in ParameterLists({"a", "b", "c"}, {"either", "only_keyword"}, 3)},
   member : {Method(ps, x, y, Missing) : x \in BOOLEAN, y \in BOOLEAN,
               ps \in ParameterLists({"a", "b", "x"},
                        {"only_positional", "either", "only_keyword"}, 3)}]

Taking(t) == Method(<<Parameter("a", "either", FALSE, t)>>, FALSE, FALSE, Missing)
Giving(t) == Method(<<>>, FALSE, FALSE, t)
Taken == [contract : {Taking(t) : t \in Types}, member : {Taking(t) : t \in Types}]
Given == [contract : {Giving(t) : t \in Types}, member : {Giving(t) : t \in Types}]

(* Members that are not there, not callable, or cannot be read.            *)
Unusable(is) == [Giving(AnyType) EXCEPT !.is = is]
Oddities == [contract : {Giving(Missing), Unusable("unreadable")},
             member : {Unusable(is) : is \in {"absent", "data", "unreadable"}}]

MCOffers == Shapes \cup Taken \cup Given \cup Oddities
=============================================================================
