--------------------------- MODULE MCAgentDirectory ---------------------------
(* Two agents, two model settings, and a configuration of either kind: the  *)
(* llm bound with a model, and bound without one.                            *)
EXTENDS AgentDirectory

CONSTANTS a1, a2, m1, m2

MCAgents    == {a1, a2}
MCModels    == {m1, m2}
MCProviders == {m1, None}
MCConfigs   == {[on |-> {"tools", "llm"}, model |-> m2],
                [on |-> {"llm"}, model |-> None]}
MCCopies    == 1..2
MCOne       == {1}
MCTwo       == {1, 2}
=============================================================================
