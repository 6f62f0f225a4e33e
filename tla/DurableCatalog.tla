--------------------------- MODULE DurableCatalog ---------------------------
(***************************************************************************)
(* What the plugin manager promises of definitions and instances: a        *)
(* catalog whose entries are kept before they are shown, so that a crash   *)
(* takes nothing away that was shown and changes nothing. A removal is     *)
(* shown at once; it lasts if it could be kept, else the next start shows  *)
(* what was removed again.                                                 *)
(***************************************************************************)
CONSTANTS
  Names,    \* of definitions and instances
  Entries,
  Derived,  \* the entries that are not shown again after a start
  None      \* no entry

VARIABLES
  serving,  \* the server runs
  shown,    \* what it answers with
  kept      \* what is stored

vars == <<serving, shown, kept>>

Empty == [n \in Names |-> None]

\* The catalogs with some of the entries of this one
Remains(catalog) ==
  {rest \in [Names -> Entries \union {None}] : \A n \in Names : rest[n] \in {catalog[n], None}}

Init == serving = FALSE /\ shown = Empty /\ kept = Empty

\* An entry is new or changes, and with it what is kept.
Put ==
  /\ serving /\ UNCHANGED serving
  /\ \E n \in Names : shown'[n] \in Entries /\ shown' = [shown EXCEPT ![n] = shown'[n]]
  /\ kept' = shown'

\* Any number of entries go; what is kept may not follow.
Remove ==
  /\ serving /\ UNCHANGED serving
  /\ shown' \in Remains(shown)
  /\ kept' \in {kept, shown'}

Stop ==
  /\ serving /\ serving' = FALSE
  /\ shown' = Empty /\ UNCHANGED kept

Recover ==
  /\ ~serving /\ serving' = TRUE
  /\ shown' = [n \in Names |-> IF kept[n] \in Derived THEN None ELSE kept[n]]
  /\ kept' = shown'

Next == Put \/ Remove \/ Stop \/ Recover

Spec == Init /\ [][Next]_vars
=============================================================================
