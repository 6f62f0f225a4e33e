---------------------------- MODULE MCScopeTrees ----------------------------
(***************************************************************************)
(* Two servers over one state file, the first with two threads; the agent  *)
(* scope, x below it, y below one of them.                                 *)
(***************************************************************************)
EXTENDS ScopeTrees, TLC

CONSTANTS p1, p2, t1, t2, t3, x, y

MCProcesses == {p1, p2}
MCThreads   == {t1, t2, t3}
MCProcessOf == t1 :> p1 @@ t2 :> p1 @@ t3 :> p2
MCScopes    == {"agent", x, y}
MCBelow     == "agent" :> {"root"} @@ x :> {"agent"} @@ y :> {"agent", x}
Symmetry    == Permutations({t1, t2})
=============================================================================
