----------------------------- MODULE GameListener -----------------------------
(***************************************************************************)
(* One game listener: its thread, GameListener::run with the closure       *)
(* around it, and the relay's main thread, which calls keepalive() on the  *)
(* handle it keeps.  They share an Arc<AtomicBool>: the thread owns a      *)
(* strong reference, the handle a weak one that keepalive() upgrades for   *)
(* the length of the call.  Every access to the cell is one step.          *)
(***************************************************************************)
EXTENDS Naturals, Sequences

CONSTANTS
  MaxPlayers     \* bound on the players that connect

ASSUME PlayersAssumption == MaxPlayers \in Nat

VARIABLES
  pc,        \* the thread: "accept", "accepted", "sent", "expired", "ended", "reported"
  main,      \* the main thread: "idle", "upgraded", "stored", "refused"
  handle,    \* does the relay still keep a GameListenerHandle?
  owned,     \* does the thread still own its Arc?
  flag,      \* the AtomicBool
  queue      \* what the thread has put into the relay's queue

vars == <<pc, main, handle, owned, flag, queue>>

\* The main thread's temporary reference.
Borrowed == main \in {"upgraded", "stored"}

TypeOK ==
  /\ pc \in {"accept", "accepted", "sent", "expired", "ended", "reported"}
  /\ main \in {"idle", "upgraded", "stored", "refused"}
  /\ handle \in BOOLEAN
  /\ owned \in BOOLEAN
  /\ flag \in BOOLEAN
  /\ queue \in Seq({"AcceptGameConnection", "RemoveGameListener"})

\* GameListener::new
Init ==
  /\ pc = "accept"
  /\ main = "idle"
  /\ handle = TRUE
  /\ owned = TRUE
  /\ flag = FALSE
  /\ queue = <<>>

-----------------------------------------------------------------------------
(* The listener's thread. *)

\* listener.accept() returns a player's connection.
AcceptPlayer ==
  /\ pc = "accept"
  /\ Len(queue) < MaxPlayers
  /\ pc' = "accepted"
  /\ UNCHANGED <<main, handle, owned, flag, queue>>

\* Faulty: sends the message of a connection the relay has made itself.
SendConnection_wrong ==
  /\ pc = "accepted"
  /\ pc' = "sent"
  /\ queue' = Append(queue, "AddGameConnection")
  /\ UNCHANGED <<main, handle, owned, flag>>

\* fun(connection)
SendConnection ==
  /\ pc = "accepted"
  /\ pc' = "sent"
  /\ queue' = Append(queue, "AcceptGameConnection")
  /\ UNCHANGED <<main, handle, owned, flag>>

\* keepalive.store(false): the next timeout counts from this connection.
ClearFlag ==
  /\ pc = "sent"
  /\ pc' = "accept"
  /\ flag' = FALSE
  /\ UNCHANGED <<main, handle, owned, queue>>

\* Faulty: reads the flag and leaves it set.
Expire_load ==
  /\ pc = "accept"
  /\ pc' = IF flag THEN "accept" ELSE "expired"
  /\ UNCHANGED <<main, handle, owned, flag, queue>>

\* ACCEPT_TIMEOUT is over: keepalive.swap(false).
Expire ==
  /\ pc = "accept"
  /\ pc' = IF flag THEN "accept" ELSE "expired"
  /\ flag' = FALSE
  /\ UNCHANGED <<main, handle, owned, queue>>

\* Faulty: drops its reference whoever else has one, and goes on accepting.
TryUnwrap_forgetful ==
  /\ pc = "expired"
  /\ owned' = FALSE
  /\ pc' = IF Borrowed THEN "accept" ELSE "ended"
  /\ UNCHANGED <<main, handle, flag, queue>>

\* Arc::try_unwrap fails while the main thread holds a reference.
TryUnwrap ==
  /\ pc = "expired"
  /\ pc' = IF Borrowed THEN "accept" ELSE "ended"
  /\ owned' = Borrowed
  /\ UNCHANGED <<main, handle, flag, queue>>

\* Any other error of the listener, or of a connection just accepted, ends
\* run(), which drops the thread's reference even while the main thread has one.
Fail ==
  /\ pc \in {"accept", "accepted"}
  /\ pc' = "ended"
  /\ owned' = FALSE
  /\ UNCHANGED <<main, handle, flag, queue>>

\* tx.send(RemoveGameListener) after run() has returned.
Report ==
  /\ pc = "ended"
  /\ pc' = "reported"
  /\ queue' = Append(queue, "RemoveGameListener")
  /\ UNCHANGED <<main, handle, owned, flag>>

Thread ==
  \/ AcceptPlayer \/ SendConnection \/ ClearFlag
  \/ Expire \/ TryUnwrap \/ Fail \/ Report

-----------------------------------------------------------------------------
(* The main thread. *)

\* Weak::upgrade
Upgrade ==
  /\ handle
  /\ main = "idle"
  /\ main' = IF owned THEN "upgraded" ELSE "refused"
  /\ UNCHANGED <<pc, handle, owned, flag, queue>>

\* keepalive.store(true)
Store ==
  /\ main = "upgraded"
  /\ main' = "stored"
  /\ flag' = TRUE
  /\ UNCHANGED <<pc, handle, owned, queue>>

\* keepalive() returns; the temporary reference is dropped.
KeepaliveOk ==
  /\ main = "stored"
  /\ main' = "idle"
  /\ UNCHANGED <<pc, handle, owned, flag, queue>>

\* keepalive() fails: the caller sets remote_game.listener to None.
KeepaliveErr ==
  /\ main = "refused"
  /\ main' = "idle"
  /\ handle' = FALSE
  /\ UNCHANGED <<pc, owned, flag, queue>>

\* remove_peer removes the game, and the handle with it.
RemoveGame ==
  /\ handle
  /\ main = "idle"
  /\ handle' = FALSE
  /\ UNCHANGED <<pc, main, owned, flag, queue>>

Main == Upgrade \/ Store \/ KeepaliveOk \/ KeepaliveErr \/ RemoveGame

Next == Thread \/ Main

Spec == Init /\ [][Next]_vars

\* Both threads run; a timeout fires when nothing else happens.  Neither
\* players nor advertisements need to come.
Fairness ==
  /\ WF_vars(SendConnection \/ ClearFlag \/ Expire \/ TryUnwrap \/ Report)
  /\ WF_vars(Store \/ KeepaliveOk \/ KeepaliveErr)

FairSpec == Spec /\ Fairness

-----------------------------------------------------------------------------
(* Properties. *)

\* The states of the contract, read off the two threads.
ContractSt ==
  CASE owned -> "open"
    [] pc = "reported" -> "reported"
    [] OTHER -> "dead"

ContractCall ==
  CASE main = "idle" -> "idle"
    [] main = "refused" -> "closed"
    [] OTHER -> "ok"

Contract == INSTANCE ListenerContract WITH st <- ContractSt, call <- ContractCall, queue <- queue

\* The races on the cell do not show: a keepalive() counts as answered at the
\* instant of the upgrade, and after it has been refused no connection of the
\* listener reaches the queue any more.  So RelayProcess may take keepalive()
\* for one step and a listener for open until it has ended.
KeepsContract == Contract!ContractSpec

\* A listener whose game is gone does not stay open for ever: once players
\* stop coming, two timeouts end it.
AbandonedListenerEnds == ~ handle ~> pc = "reported"

=============================================================================
