--------------------------- MODULE MCRelayNetwork ---------------------------
(* RelayNetwork on small topologies. *)
EXTENDS RelayNetwork, TLC

CONSTANTS a, b, h

Symmetry == Permutations(Player) \cup Permutations(Dialed)

\* a hosts a game, b connects to a.
MCPairInitiator == [s \in {1} |-> b]
MCPairResponder == [s \in {1} |-> a]
MCOneGame == {[ip |-> a, port |-> 7]}
MCTwoGames == {[ip |-> a, port |-> 7], [ip |-> a, port |-> 8]}
MCBothHost == {[ip |-> a, port |-> 7], [ip |-> b, port |-> 7]}

\* a and b connect to a hub.
MCLineInitiator == [s \in {1, 2} |-> IF s = 1 THEN a ELSE b]
MCLineResponder == [s \in {1, 2} |-> h]

=============================================================================
