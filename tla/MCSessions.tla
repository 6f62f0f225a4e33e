----------------------------- MODULE MCSessions ------------------------------
(* Two CLIs and two agents, two session ids, two requests at a time (three in *)
(* all) and a crash.                                                         *)
EXTENDS Sessions, TLC

Symmetric == Permutations(Clients) \union Permutations(SessionIds) \union Permutations(Requests)
=============================================================================
