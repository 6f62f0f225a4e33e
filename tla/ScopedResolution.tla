-------------------------- MODULE ScopedResolution --------------------------
(***************************************************************************)
(* Which of the plugins offered for a requirement a consumer gets: the     *)
(* plugins of its own scope and of the scopes above it, the nearest first. *)
(*                                                                         *)
(* A chain is the sequence of visible scopes, from the consumer's own up   *)
(* to the root. A candidate is a record with the scope it is installed in, *)
(* its key (the factory, a number: only its order matters) and its ranking.*)
(***************************************************************************)
EXTENDS Integers, Sequences, FiniteSets, SequencesExt

\* Distance of a scope in a chain of visible scopes
Distance(chain, scope) == CHOOSE i \in DOMAIN chain : chain[i] = scope

\* The order in which candidates are preferred: the nearest scope, the highest
\* ranking, the first key.
Preferred(chain, a, b) ==
  LET da == Distance(chain, a.scope)
      db == Distance(chain, b.scope)
  IN  \/ da < db
      \/ da = db /\ a.ranking > b.ranking
      \/ da = db /\ a.ranking = b.ranking /\ a.key < b.key

\* The providers injected into a field are a sequence; rank is a function from
\* those with metadata to the candidate each is. Of two alike the one
\* injected first is preferred (Python's sort is stable).
Place(providers, p) == SelectInSeq(providers, LAMBDA r : r = p)

InjectedBefore(chain, providers, rank, p, q) ==
  \/ Preferred(chain, rank[p], rank[q])
  \/ ~Preferred(chain, rank[q], rank[p]) /\ Place(providers, p) < Place(providers, q)

ScopedProviders(chain, providers, rank) ==
  {p \in Range(providers) \intersect DOMAIN rank : rank[p].scope \in Range(chain)}

\* A key once: of the plugins of one key, the one that comes before the others
Unshadowed(chain, providers, rank) ==
  LET scoped == ScopedProviders(chain, providers, rank)
  IN  {p \in scoped : \A q \in scoped \ {p} :
         rank[q].key = rank[p].key => InjectedBefore(chain, providers, rank, p, q)}

\* The providers nothing is known of come last, as they are injected.
Precedes(chain, providers, rank, p, q) ==
  IF p \in DOMAIN rank
    THEN q \in DOMAIN rank => InjectedBefore(chain, providers, rank, p, q)
    ELSE q \notin DOMAIN rank /\ Place(providers, p) < Place(providers, q)

\* resolve_scoped_aggregate: sorted as a whole, a key once
ResolveRanked(chain, providers, rank) ==
  LET shown == Unshadowed(chain, providers, rank) \union (Range(providers) \ DOMAIN rank)
  IN  IF chain = <<>> THEN providers
      ELSE CHOOSE s \in [1 .. Cardinality(shown) -> shown] :
             \A i, j \in DOMAIN s : i < j => Precedes(chain, providers, rank, s[i], s[j])

\* Metadata is looked up for the providers that are injected.
ResolveInjected(chain, providers, metadata) ==
  ResolveRanked(chain, providers, Restrict(metadata, Range(providers) \intersect DOMAIN metadata))

\* resolve_scoped_best: none, or the one every other comes after
ResolveInjectedBest(chain, providers, rank) ==
  LET scoped == ScopedProviders(chain, providers, rank)
  IN  {p \in scoped : \A q \in scoped \ {p} : InjectedBefore(chain, providers, rank, p, q)}
=============================================================================
