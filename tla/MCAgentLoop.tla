----------------------------- MODULE MCAgentLoop -----------------------------
(* Two scopes, an llm in each, a tool plugin in each with the same key, a    *)
(* tool plugin registered without metadata, and a checkpointer or a store.   *)
EXTENDS AgentLoop

Here(key, ranking) == [scope |-> "agent", key |-> key, ranking |-> ranking]
Root(key, ranking) == [scope |-> "root", key |-> key, ranking |-> ranking]

MCProviders == {"near", "far", "tool", "shadowed", "raw", "saver"}
MCFieldOf == [p \in MCProviders |->
  CASE p \in {"near", "far"} -> "llm"
    [] p = "saver" -> "checkpointer"
    [] OTHER -> "tools"]
MCRankOf == [p \in MCProviders |->
  CASE p = "near" -> Here(1, 0)
    [] p = "far" -> Root(2, 5)
    [] p = "tool" -> Here(1, 0)
    [] p = "shadowed" -> Root(1, 5)
    [] OTHER -> None]
MCChain == <<"agent", "root">>
=============================================================================
