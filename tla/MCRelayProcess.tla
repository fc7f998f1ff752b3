--------------------------- MODULE MCRelayProcess ---------------------------
(* RelayProcess on small instances. *)
EXTENDS RelayProcess, TLC

CONSTANTS lan, own

\* Peers, handles, listeners and game connections are interchangeable.
Symmetry ==
  Permutations(PeerId) \cup Permutations(Handle) \cup Permutations(ListenerId)
    \cup Permutations(Conn)

\* One game of another host of the LAN, whose ports happen to be the numbers of
\* this relay's discovery port and of its listeners.
MCLanPackets == {[from |-> [ip |-> lan, port |-> DiscoveryPort], port |-> 1]}

\* No game of the LAN but those the relay makes of its own multicasts.
MCNoPackets == {}

\* Advertisements of one game, to be forwarded.
MCGame == {RelayGame(0, 0)}

\* The traffic of one connection of a peer to the game with id 0 or 1, relayed
\* or of the LAN, a ping, and an advertisement at the hop limit.
MCTraffic ==
  {RelayPing, RelayGame(0, MAX_FORWARDING_HOPS), RelayConnect(0, 0, 0), RelayConnect(1, 0, 0),
   RelayData([id |-> 0, local |-> FALSE], NoData),
   RelayCloseConnection([id |-> 0, local |-> FALSE])}

=============================================================================
