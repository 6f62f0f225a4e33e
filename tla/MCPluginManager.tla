-------------------------- MODULE MCPluginManager --------------------------
(***************************************************************************)
(* Small instances of PluginManager: a module with two factories, a second *)
(* module that claims one of them, the root, a built-in scope and an agent *)
(* scope below it.                                                         *)
(***************************************************************************)
EXTENDS PluginManager, TLC

CONSTANTS d1, d2, d3, m1, m2, f1, f2, i1, i2

MCDefinitions   == {d1, d2, d3}
MCModuleOf      == d1 :> m1 @@ d2 :> m1 @@ d3 :> m2
MCFactoryOf     == d1 :> f1 @@ d2 :> f2 @@ d3 :> f1
MCBuiltin       == {d1}
TwoDefinitions   == {d1, d2}
TwoModuleOf      == d1 :> m1 @@ d2 :> m1
TwoFactoryOf     == d1 :> f1 @@ d2 :> f2
MCScopes        == {"root", "agent", "agent:x"}
MCBuiltinScopes == {"root", "agent"}
MCAgentScopes   == {"agent:x"}
MCAncestors     == ("root" :> {"root"}) @@ ("agent" :> {"root", "agent"})
                     @@ ("agent:x" :> {"root", "agent", "agent:x"})
JsonOnly        == [p \in Props |-> p]
MCInstances     == {i1, i2}
InstanceSymmetry == Permutations(MCInstances)
=============================================================================
