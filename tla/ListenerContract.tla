--------------------------- MODULE ListenerContract ---------------------------
(***************************************************************************)
(* What the relay's main thread may expect of a game listener, whatever    *)
(* its thread does with the keepalive cell: a keepalive() answers Ok only  *)
(* if the listener is open at some instant during the call, connections    *)
(* reach the queue only before the listener's RemoveGameListener, and that *)
(* message comes once, after the listener has ended.  RelayProcess uses    *)
(* listeners as described here, with keepalive() as one step.              *)
(***************************************************************************)
EXTENDS Naturals, Sequences

VARIABLES
  st,      \* "open", "dead" (ended, not yet reported) or "reported"
  call,    \* "idle", or the answer the keepalive() in progress will give
  queue    \* what the listener has put into the relay's queue

cvars == <<st, call, queue>>

ContractInit == st = "open" /\ call = "idle" /\ queue = <<>>

Keepalive ==
  /\ call = "idle"
  /\ call' = IF st = "open" THEN "ok" ELSE "closed"
  /\ UNCHANGED <<st, queue>>

Return ==
  /\ call # "idle"
  /\ call' = "idle"
  /\ UNCHANGED <<st, queue>>

Deliver ==
  /\ st = "open"
  /\ queue' = Append(queue, "AcceptGameConnection")
  /\ UNCHANGED <<st, call>>

End ==
  /\ st = "open"
  /\ st' = "dead"
  /\ UNCHANGED <<call, queue>>

Report ==
  /\ st = "dead"
  /\ st' = "reported"
  /\ queue' = Append(queue, "RemoveGameListener")
  /\ UNCHANGED call

ContractNext == Keepalive \/ Return \/ Deliver \/ End \/ Report

ContractSpec == ContractInit /\ [][ContractNext]_cvars

=============================================================================
