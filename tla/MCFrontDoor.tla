----------------------------- MODULE MCFrontDoor -----------------------------
(* FrontDoor with a few connections and hosts. *)
EXTENDS FrontDoor

CONSTANT own

\* Connection own is this relay's own; the others are of one other relay.
MCKeyOf == [i \in Incoming |-> IF i = own THEN "self" ELSE "other"]

=============================================================================
