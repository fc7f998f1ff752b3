------------------------------ MODULE MCRoutes ------------------------------
(* Routes on the line of MCRelayNetwork, which is used in one direction. *)
EXTENDS Routes, MCRelayNetwork

\* The game is at a: b reaches it over the hub.
MCLineUp == {<<1, h>>, <<2, b>>}

=============================================================================
