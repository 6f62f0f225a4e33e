------------------------- MODULE MCServerLifecycle -------------------------
(* Two CLIs and two server processes. *)
EXTENDS ServerLifecycle

CONSTANTS c1, c2, s1, s2

MCClients == {c1, c2}
MCServers == {s1, s2}
MCByHand  == {s2}
=============================================================================
