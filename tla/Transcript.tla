----------------------------- MODULE Transcript ------------------------------
(***************************************************************************)
(* What a conversation promises the user: of one response, the screen      *)
(* shows what has come in, in its order and once, possibly a little late,  *)
(* and when the response is over it shows all of it.                       *)
(***************************************************************************)
EXTENDS Integers, Sequences

CONSTANTS Pieces   \* of text, and tool calls

VARIABLES
  said,     \* what has come in
  screen,   \* what is shown of it
  open      \* a response is coming in

vars == <<said, screen, open>>

Init == said = <<>> /\ screen = <<>> /\ open = FALSE

Begin ==
  /\ ~open /\ open' = TRUE
  /\ said' = <<>> /\ screen' = <<>>

\* Something comes in, or time passes; the screen is drawn or not.
Show ==
  /\ open /\ UNCHANGED open
  /\ said' = said \/ \E more \in UNION {[1 .. n -> Pieces] : n \in 1 .. 2} : said' = said \o more
  /\ screen' \in {screen, said'}

Finish ==
  /\ open /\ open' = FALSE
  /\ screen' = said /\ UNCHANGED said

Next == Begin \/ Show \/ Finish

Spec == Init /\ [][Next]_vars
=============================================================================
