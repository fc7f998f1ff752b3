--------------------------- MODULE SessionContract ---------------------------
(***************************************************************************)
(* What RelayNetwork takes a session between two relays for: once both     *)
(* ends know each other, two streams of messages, each in order, without   *)
(* gaps or repetitions, which lose what is under way when an end goes.     *)
(***************************************************************************)
EXTENDS Naturals, Sequences

CONSTANTS End, Other(_), Initiator, Message

VARIABLES
  phase,   \* of each end: "new", "up" or "dropped"
  wire,    \* handed over at an end and not yet received at the other
  got      \* received at an end

svars == <<phase, wire, got>>

SessionInit ==
  /\ phase = [e \in End |-> "new"]
  /\ wire = [e \in End |-> <<>>]
  /\ got = [e \in End |-> <<>>]

\* The end that did not begin is the first to know that the handshake is over.
Establish(e) ==
  /\ phase[e] = "new"
  /\ e = Initiator => phase[Other(e)] # "new"
  /\ phase' = [phase EXCEPT ![e] = "up"]
  /\ UNCHANGED <<wire, got>>

Send(e, m) ==
  /\ phase[e] = "up"
  /\ wire' = [wire EXCEPT ![e] = Append(@, m)]
  /\ UNCHANGED <<phase, got>>

Receive(e) ==
  /\ phase[e] = "up"
  /\ wire[Other(e)] # <<>>
  /\ wire' = [wire EXCEPT ![Other(e)] = Tail(@)]
  /\ got' = [got EXCEPT ![e] = Append(@, Head(wire[Other(e)]))]
  /\ UNCHANGED phase

\* The connection ends, established or not, for one end first.
Drop(e) ==
  /\ phase[e] # "dropped"
  /\ phase' = [phase EXCEPT ![e] = "dropped"]
  /\ \E n \in 0..Len(wire[e]) :
       wire' = [wire EXCEPT ![e] = SubSeq(@, 1, n), ![Other(e)] = <<>>]
  /\ UNCHANGED got

SessionNext ==
  \E e \in End : Establish(e) \/ Receive(e) \/ Drop(e) \/ \E m \in Message : Send(e, m)

SessionSpec == SessionInit /\ [][SessionNext]_svars

=============================================================================
