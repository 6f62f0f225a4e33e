-------------------------- MODULE MCConfiguration ---------------------------
(* Two plugins of the assembly, one with a property built in and one that    *)
(* breaks with "mode"; one agent. The words the palette is given are enough  *)
(* for every form of the grammar.                                            *)
EXTENDS Configuration, TLC

MCBuilt == [p \in {"limit", "loop"} |-> IF p = "limit" THEN {"mode"} ELSE {}]
MCBroken == {<<"loop", "mode">>}
MCKeyOf == [w \in Pairs |-> IF w = "mode=1" THEN "mode" ELSE "token"]
MCNumberOf == [w \in Numbers |-> IF w = "1" THEN 1 ELSE 2]
MCWords == {"agent:x", "root", "limit", "mode=1", "1"}
MCLines == {
  <<"set", "api", "limit", "mode=1">>, <<"set", "api", "limit", "token=1">>,
  <<"set", "api", "loop", "mode=1">>, <<"set", "api", "ghost", "mode=1">>,
  <<"config", "enable", "api", "limit">>,
  <<"rollback", "api", "1">>, <<"rollback", "api", "2">>,
  <<"set", "agent:x", "ghost", "token=1">>}

Symmetry == Permutations(Clients) \union Permutations(Requests)
=============================================================================
