----------------------------- MODULE RelayTables -----------------------------
(***************************************************************************)
(* The tables of one relay (struct Relay) and the methods of its main      *)
(* thread, as operators on them.  A method that takes &mut self becomes an *)
(* operator from the tables s to an Effect: the new tables, the messages   *)
(* handed to peer handles, the data handed to game connections and the     *)
(* threads it starts.                                                      *)
(*                                                                         *)
(* HashMap<PeerId, Peer> is flattened: peers maps a peer to its handle and *)
(* the maps inside Peer are keyed by <<peer, key>>, so that dropping a Peer *)
(* drops every key whose first component is that peer.  An Option is a set *)
(* with at most one member.  Message texts (the MOTD) are left out: nothing*)
(* here depends on them.                                                   *)
(***************************************************************************)
EXTENDS Naturals, FiniteSets, Functions

CONSTANTS
  PeerId,              \* static keys of relays
  Handle,              \* RelayConnectionHandle: one per relay connection
  Ip, Port,            \* the two halves of a SocketAddr
  ListenerId,          \* game listeners (their keepalive cells)
  Conn,                \* game connections, and the handles that feed them
  Data,                \* payloads
  NoData,              \* the empty payload
  DiscoveryPort,       \* source port of this relay's DiscoverySender
  MAX_FORWARDING_HOPS

ASSUME HopsAssumption == MAX_FORWARDING_HOPS \in Nat
ASSUME PortAssumption == DiscoveryPort \in Port
ASSUME DataAssumption == NoData \in Data

-----------------------------------------------------------------------------
(* Maps. *)

IsMap(f, D, R) == DOMAIN f \subseteq D /\ f \in [DOMAIN f -> R]

EmptyMap == [k \in {} |-> k]

Insert(f, k, v) == [x \in DOMAIN f \cup {k} |-> IF x = k THEN v ELSE f[x]]

Remove(f, k) == Restrict(f, DOMAIN f \ {k})

ForgetPeers(f, P) == RestrictDomain(f, LAMBDA k : k[1] \notin P)

-----------------------------------------------------------------------------
(* Values. *)

SocketAddr == [ip : Ip, port : Port]

ConnectionId == [id : Nat, local : BOOLEAN]

Listener == [id : ListenerId, port : Port]

LocalGame == [kind : {"local"}, addr : SocketAddr]
RemoteGame == [kind : {"remote"}, peer_id : PeerId, remote_game_id : Nat,
               listener : SUBSET Listener]

Local(addr) == [kind |-> "local", addr |-> addr]
Remote(p, rid, x) ==
  [kind |-> "remote", peer_id |-> p, remote_game_id |-> rid, listener |-> x]

\* The messages relays exchange.
RelayGame(id, hops) == [type |-> "Game", id |-> id, hops |-> hops]
RelayConnect(game, id, hops) ==
  [type |-> "Connect", game_id |-> game, connection_id |-> id, hops |-> hops]
RelayData(c, data) ==
  [type |-> "Data", connection_id |-> c.id, connection_local |-> c.local, data |-> data]
RelayCloseConnection(c) ==
  [type |-> "CloseConnection", connection_id |-> c.id, connection_local |-> c.local]

\* A message without an inner part, which an empty frame decodes to.
RelayPing == [type |-> "Ping"]

RelayMessage ==
  {RelayPing}
    \cup [type : {"Game"}, id : Nat, hops : Nat]
    \cup [type : {"Connect"}, game_id : Nat, connection_id : Nat, hops : Nat]
    \cup [type : {"Data"}, connection_id : Nat, connection_local : BOOLEAN, data : Data]
    \cup [type : {"CloseConnection"}, connection_id : Nat, connection_local : BOOLEAN]

PeerKey == PeerId \X ConnectionId

\* The messages of the main thread's queue (enum Message).
AddPeer(p, h) == [msg |-> "AddPeer", peer |-> p, handle |-> h]
RemovePeer(p) == [msg |-> "RemovePeer", peer |-> p]
Recv(p, m) == [msg |-> "Recv", peer |-> p, message |-> m]
AddLocalGame(from, port) == [msg |-> "AddLocalGame", from |-> from, port |-> port]
RemoveGameListener(l) == [msg |-> "RemoveGameListener", game |-> l]
AcceptGameConnection(l, c) == [msg |-> "AcceptGameConnection", game |-> l, conn |-> c]
AddGameConnection(p, cid, c) ==
  [msg |-> "AddGameConnection", peer |-> p, cid |-> cid, conn |-> c]

Message ==
  [msg : {"AddPeer"}, peer : PeerId, handle : Handle]
    \cup [msg : {"RemovePeer"}, peer : PeerId]
    \cup [msg : {"Recv"}, peer : PeerId, message : RelayMessage]
    \cup [msg : {"AddLocalGame"}, from : SocketAddr, port : Port]
    \cup [msg : {"RemoveGameListener"}, game : Nat]
    \cup [msg : {"AcceptGameConnection"}, game : Nat, conn : Conn]
    \cup [msg : {"AddGameConnection"}, peer : PeerId, cid : ConnectionId, conn : Conn]

RelayFields ==
  {"peers", "peer_games", "local_connections", "relayed_connections",
   "next_connection_id", "games", "next_key", "local_games", "listen_ports"}

\* The type of struct Relay.
RelayType(s) ==
  /\ DOMAIN s = RelayFields
  /\ IsMap(s.peers, PeerId, Handle)
  /\ IsMap(s.peer_games, PeerId \X Nat, Nat)
  /\ IsMap(s.local_connections, PeerKey, Conn)
  /\ IsMap(s.relayed_connections, PeerKey, PeerKey)
  /\ IsMap(s.next_connection_id, PeerId, ConnectionId)
  /\ IsMap(s.games, Nat, LocalGame \cup RemoteGame)
  /\ s.next_key \in Nat
  /\ IsMap(s.local_games, SocketAddr, Nat)
  /\ s.listen_ports \in SUBSET Port

\* Relay::new
NewRelay ==
  [peers |-> EmptyMap, peer_games |-> EmptyMap, local_connections |-> EmptyMap,
   relayed_connections |-> EmptyMap, next_connection_id |-> EmptyMap,
   games |-> EmptyMap, next_key |-> 0, local_games |-> EmptyMap, listen_ports |-> {}]

\* What a method does: out is a set of [to, msg] for peer handles, deliver a
\* set of [tx, data] for game connections, spawn the threads it starts, advert
\* the ports it multicasts.
Effect(s) ==
  [relay |-> s, out |-> {}, deliver |-> {}, spawn |-> {}, advert |-> {}]

PortsOf(listeners) == {x.port : x \in listeners}

-----------------------------------------------------------------------------
(* Peers. *)

\* ConnectionId::default()
FirstConnectionId == [id |-> 0, local |-> FALSE]

\* Relay::add_peer with Peer::new: HashMap::insert replaces the whole Peer.
add_peer(s, p, h) ==
  [s EXCEPT !.peers = Insert(@, p, h),
            !.peer_games = ForgetPeers(@, {p}),
            !.local_connections = ForgetPeers(@, {p}),
            !.relayed_connections = ForgetPeers(@, {p}),
            !.next_connection_id = Insert(@, p, FirstConnectionId)]

\* Faulty: takes the peer's ids of its games for this relay's own.
games_of_remote_ids(s, P) == {k[2] : k \in {x \in DOMAIN s.peer_games : x[1] \in P}}

\* The games that the peers of P have advertised.
games_of(s, P) == {s.peer_games[k] : k \in {x \in DOMAIN s.peer_games : x[1] \in P}}

\* Relay::remove_peer and cleanup_removed_game, for every peer of P: the
\* games the peer advertised and their ports go with it; what other peers'
\* relayed connections say about it stays.
remove_peers(s, P) ==
  LET gone == games_of(s, P)
      remote == {l \in gone \cap DOMAIN s.games : s.games[l].kind = "remote"}
      listeners == UNION {s.games[l].listener : l \in remote}
  IN [s EXCEPT !.peers = Restrict(@, DOMAIN @ \ P),
               !.peer_games = ForgetPeers(@, P),
               !.local_connections = ForgetPeers(@, P),
               !.relayed_connections = ForgetPeers(@, P),
               !.next_connection_id = Restrict(@, DOMAIN @ \ P),
               !.games = Restrict(@, DOMAIN @ \ gone),
               !.listen_ports = @ \ PortsOf(listeners)]

remove_peer(s, p) == remove_peers(s, {p})

\* Faulty: removes the peers that were reached.
send_all_inverted(s, live, to, msg) ==
  LET reached == {p \in to : s.peers[p] \in live}
  IN [Effect(remove_peers(s, reached)) EXCEPT
        !.out = {[to |-> s.peers[p], msg |-> msg] : p \in reached}]

\* The loops that send one message to several peers, then remove the peers
\* whose connection is closed.  live: the handles whose connection still runs.
send_all(s, live, to, msg) ==
  LET errors == {p \in to : s.peers[p] \notin live}
  IN [Effect(remove_peers(s, errors)) EXCEPT
        !.out = {[to |-> s.peers[p], msg |-> msg] : p \in to \ errors}]

-----------------------------------------------------------------------------
(* Games. *)

\* Faulty: the number of games, which falls again.
next_id_by_len(s) == Cardinality(DOMAIN s.games)

\* Faulty: the id given out last.
next_id_last(s) == s.next_key - 1

\* IdMap::next_id, which also counts next_key up.
next_id(s) == s.next_key

\* Relay::add_local_game
add_local_game(s, live, from, port) ==
  LET addr == [ip |-> from.ip, port |-> port]
      known == addr \in DOMAIN s.local_games
      id == IF known THEN s.local_games[addr] ELSE next_id(s)
      t == IF known THEN s
           ELSE [s EXCEPT !.local_games = Insert(@, addr, id),
                          !.games = Insert(@, id, Local(addr)),
                          !.next_key = @ + 1]
  IN IF from.port = DiscoveryPort /\ port \in s.listen_ports
     THEN Effect(s)
     ELSE send_all(t, live, DOMAIN t.peers, RelayGame(id, 0))

\* The listener of a game, if its keepalive() succeeds.
Kept(game, alive) == {x \in game.listener : x.id \in alive}

\* Faulty: forgotten.
ReleasedPorts_none(game, alive) == {}

\* The port of a listener that has ended.
ReleasedPorts(game, alive) == PortsOf(game.listener \ Kept(game, alive))

\* Faulty: one id for all games of the peer.
LocalId_peer(s, from, rid) ==
  LET of_peer == {k \in DOMAIN s.peer_games : k[1] = from}
  IN IF of_peer # {} THEN s.peer_games[CHOOSE k \in of_peer : TRUE] ELSE next_id(s)

\* What this relay calls the game that the peer calls rid: its id so far, or a
\* new one.
LocalId(s, from, rid) ==
  IF <<from, rid>> \in DOMAIN s.peer_games THEN s.peer_games[<<from, rid>>] ELSE next_id(s)

\* Relay::add_game.  alive: the listeners whose keepalive() succeeds; fresh:
\* what GameListener::new() returns (empty when it fails).
add_game(s, from, rid, alive, fresh) ==
  LET known == <<from, rid>> \in DOMAIN s.peer_games
      l == LocalId(s, from, rid)
      game == IF l \in DOMAIN s.games THEN s.games[l] ELSE Remote(from, rid, {})
      t == [s EXCEPT !.peer_games = Insert(@, <<from, rid>>, l),
                     !.next_key = IF known THEN @ ELSE @ + 1]
      kept == Kept(game, alive)
      opened == IF kept = {} THEN fresh ELSE {}
  IN IF game.kind = "local"
     THEN Effect(t)
     ELSE [Effect([t EXCEPT
             !.games = Insert(@, l, Remote(game.peer_id, game.remote_game_id, kept \cup opened)),
             !.listen_ports = (@ \ ReleasedPorts(game, alive)) \cup PortsOf(opened)])
           EXCEPT
             !.spawn = {[kind |-> "listener", id |-> x.id, port |-> x.port, game |-> l]
                          : x \in opened},
             !.advert = PortsOf(kept \cup opened)]

\* Relay::forward_game
forward_game(s, live, from, l, hops) ==
  IF hops >= MAX_FORWARDING_HOPS
  THEN Effect(s)
  ELSE send_all(s, live, DOMAIN s.peers \ {from}, RelayGame(l, hops + 1))

\* Relay::handle_game
handle_game(s, live, from, m, alive, fresh) ==
  LET added == add_game(s, from, m.id, alive, fresh)
      l == added.relay.peer_games[<<from, m.id>>]
      sent == forward_game(added.relay, live, from, l, m.hops)
  IN IF from \notin DOMAIN s.peers
     THEN Effect(s)
     ELSE IF added.relay.games[l].kind = "local"
          THEN added
          ELSE [added EXCEPT !.relay = sent.relay, !.out = sent.out]

\* Faulty: the keepalive is only sent, its result not looked at.
remove_game_listener_unchecked(s, l, alive) == Effect(s)

\* Relay::remove_game_listener
remove_game_listener(s, l, alive) ==
  IF l \in DOMAIN s.games /\ s.games[l].kind = "remote"
  THEN LET game == s.games[l]
       IN Effect([s EXCEPT
            !.games = Insert(@, l, Remote(game.peer_id, game.remote_game_id, Kept(game, alive))),
            !.listen_ports = @ \ ReleasedPorts(game, alive)])
  ELSE Effect(s)

-----------------------------------------------------------------------------
(* Connections. *)

\* Faulty: the id given out last.
NewConnectionId_last(s, p) == [s.next_connection_id[p] EXCEPT !.id = @ - 1]

\* The id of the next connection to p ...
NewConnectionId(s, p) == s.next_connection_id[p]

\* Faulty: stays the same.
After_same(cid) == cid

\* ... and the one after it.
After(cid) == [cid EXCEPT !.id = @ + 1]

\* Faulty: this relay's own id.
RemoteId_own(s, l) == l

\* What the peer that advertised game l calls it.
RemoteId(s, l) == s.games[l].remote_game_id

\* Relay::accept_game_connection, up to the thread it starts.
accept_game_connection(s, live, l, c) ==
  IF /\ l \in DOMAIN s.games
     /\ s.games[l].kind = "remote"
     /\ s.games[l].peer_id \in DOMAIN s.peers
  THEN LET p == s.games[l].peer_id
           cid == NewConnectionId(s, p)
           t == [s EXCEPT
                   !.next_connection_id = Insert(@, p, After(cid)),
                   !.local_connections = Insert(@, <<p, cid>>, c)]
       IN IF s.peers[p] \in live
          THEN [Effect(t) EXCEPT
                  !.out = {[to |-> s.peers[p],
                            msg |-> RelayConnect(RemoteId(s, l), cid.id, 0)]},
                  !.spawn = {[kind |-> "accepted", conn |-> c, cid |-> cid,
                              peer_tx |-> s.peers[p]]}]
          ELSE Effect(t)
  ELSE Effect(s)

\* Relay::add_game_connection
add_game_connection(s, live, from, cid, tx) ==
  LET t == [s EXCEPT !.local_connections = Insert(@, <<from, cid>>, tx)]
  IN IF from \notin DOMAIN s.peers
     THEN Effect(s)
     ELSE send_all(t, live, {from}, RelayData(cid, NoData))

\* Relay::connect_local, up to the thread it starts.
connect_local(s, from, l, cid) ==
  IF from \in DOMAIN s.peers
  THEN [Effect(s) EXCEPT
          !.spawn = {[kind |-> "connect", from |-> from, cid |-> cid, game |-> l,
                      addr |-> s.games[l].addr, peer_tx |-> s.peers[from]]}]
  ELSE Effect(s)

\* Relay::forward_connect
forward_connect(s, live, from, to, rid, m) ==
  LET from_cid == [id |-> m.connection_id, local |-> FALSE]
      to_cid == NewConnectionId(s, to)
      t == [s EXCEPT
              !.next_connection_id = Insert(@, to, After(to_cid)),
              !.relayed_connections = Insert(@, <<to, to_cid>>, <<from, from_cid>>)]
  IN IF \/ m.hops >= MAX_FORWARDING_HOPS
        \/ from \notin DOMAIN s.peers
        \/ <<from, from_cid>> \in DOMAIN s.relayed_connections
        \/ to \notin DOMAIN s.peers
     THEN Effect(s)
     ELSE IF s.peers[to] \notin live
          THEN Effect(remove_peer(t, to))
          ELSE [Effect([t EXCEPT !.relayed_connections =
                          Insert(@, <<from, from_cid>>, <<to, to_cid>>)])
                EXCEPT !.out = {[to |-> s.peers[to],
                                 msg |-> RelayConnect(rid, to_cid.id, m.hops + 1)]}]

\* Relay::handle_connect
handle_connect(s, live, from, m) ==
  LET l == m.game_id
  IN IF l \notin DOMAIN s.games
     THEN Effect(s)
     ELSE IF s.games[l].kind = "local"
          THEN connect_local(s, from, l, [id |-> m.connection_id, local |-> FALSE])
          ELSE forward_connect(s, live, from, s.games[l].peer_id, RemoteId(s, l), m)

\* Relay::handle_data.  open: the game connections that still receive.
handle_data(s, live, open, from, m) ==
  LET key == <<from, [id |-> m.connection_id, local |-> m.connection_local]>>
  IN IF from \notin DOMAIN s.peers
     THEN Effect(s)
     ELSE IF key \in DOMAIN s.local_connections
          THEN IF s.local_connections[key] \in open
               THEN [Effect(s) EXCEPT
                       !.deliver = {[tx |-> s.local_connections[key], data |-> m.data]}]
               ELSE Effect([s EXCEPT !.local_connections = Remove(@, key)])
          ELSE IF /\ key \in DOMAIN s.relayed_connections
                  /\ s.relayed_connections[key][1] \in DOMAIN s.peers
               THEN LET to == s.relayed_connections[key]
                    IN send_all(s, live, {to[1]}, RelayData(to[2], m.data))
               ELSE Effect(s)

\* Faulty: takes nothing out.
handle_close_connection_ignored(s, from, m) == Effect(s)

\* Relay::handle_close_connection
handle_close_connection(s, from, m) ==
  LET key == <<from, [id |-> m.connection_id, local |-> m.connection_local]>>
      t == [s EXCEPT !.local_connections = Remove(@, key),
                     !.relayed_connections = Remove(@, key)]
  IN IF from \notin DOMAIN s.peers
     THEN Effect(s)
     ELSE IF key \in DOMAIN s.relayed_connections
          THEN Effect([t EXCEPT !.relayed_connections =
                         Remove(@, s.relayed_connections[key])])
          ELSE Effect(t)

-----------------------------------------------------------------------------
(* What the tables say about each other. *)

\* The games the peers have advertised, and the remote games.
PeerGamesAgree(s) ==
  \A k \in DOMAIN s.peer_games :
    LET l == s.peer_games[k]
    IN /\ k[1] \in DOMAIN s.peers
       /\ l \in DOMAIN s.games
       /\ s.games[l].kind = "remote"
       /\ s.games[l].peer_id = k[1]
       /\ s.games[l].remote_game_id = k[2]

\* The games found on the LAN, and the local games.
LanGamesAgree(s) ==
  \A a \in DOMAIN s.local_games :
    LET l == s.local_games[a]
    IN l \in DOMAIN s.games /\ s.games[l] = Local(a)

\* g and f are the same game, whatever listener it has.
SameGame(g, f) ==
  /\ g.kind = f.kind
  /\ g.kind = "local" => g.addr = f.addr
  /\ g.kind = "remote" => g.peer_id = f.peer_id /\ g.remote_game_id = f.remote_game_id

\* From s to t no id that has been given out gets another meaning.
KeepsIds(s, t) ==
  /\ s.next_key <= t.next_key
  /\ \A l \in DOMAIN t.games :
       \/ l >= s.next_key
       \/ l \in DOMAIN s.games /\ SameGame(s.games[l], t.games[l])

\* What every method of the main thread may rely on and has to restore.
TablesInv(s) ==
  /\ RelayType(s)
  /\ DOMAIN s.next_connection_id = DOMAIN s.peers
  /\ PeerGamesAgree(s)
  /\ LanGamesAgree(s)
  /\ \A l \in DOMAIN s.games : l < s.next_key

=============================================================================
