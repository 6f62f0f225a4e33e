--------------------------- MODULE MCCoordinator ---------------------------
(***************************************************************************)
(* Small instances of Coordinator: "tools", a contribution with exported   *)
(* tools in the built-in agent scope, and "own", one in a single agent's   *)
(* scope.                                                                  *)
(***************************************************************************)
EXTENDS Coordinator, TLC

CONSTANTS dt, do, da, i1, i2, i3

MCDefinitions   == {dt, do, da}
MCModuleOf      == [d \in MCDefinitions |-> d]
MCDefOf         == [c \in Contributions |-> IF c = "tools" THEN dt ELSE do]
MCScopeOf       ==
  [c \in Contributions |-> IF c = "tools" THEN "agent" ELSE "agent:x"]
MCAdapterScope  == [c \in Contributions |-> "agent"]
OnlyTools       == {"tools"} \intersect Contributions
MCScopes        == {"root", "agent", "agent:x"}
MCBuiltinScopes == {"root", "agent"}
MCAgentScopes   == {"agent:x"}
MCAncestors     == ("root" :> {"root"}) @@ ("agent" :> {"root", "agent"})
                     @@ ("agent:x" :> {"root", "agent", "agent:x"})
MCJsonSafe      == [p \in Props |-> IF p = "exports" THEN "text" ELSE p]
ThreeInstances  == {i1, i2, i3}
ThreeSymmetry   == Permutations(ThreeInstances)
=============================================================================
