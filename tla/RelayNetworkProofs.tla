------------------------- MODULE RelayNetworkProofs -------------------------
(***************************************************************************)
(* Whatever happens between the relays, on any topology: the tables stay   *)
(* consistent, and an id of a game means the same game wherever it is used.*)
(***************************************************************************)
EXTENDS RelayNetwork, TLAPS

\* The lemmas about the tables of one relay.
T == INSTANCE RelayTablesProofs WITH
  PeerId <- Relay, Ip <- Relay, Port <- Nat, ListenerId <- Nat, DiscoveryPort <- 0

-----------------------------------------------------------------------------
(* The inductive invariant. *)

\* The messages of relay p, which name games by ids that p has given out.
NamedBy(p) == {m \in RelayMessage : m.type = "Game" => m.id \in DOMAIN names[p]}

\* The messages that may be in the queue of r: a new peer comes with a handle
\* that leads to it, what comes from a peer is named by it, what comes from the
\* LAN is an advertisement of one of its games, and a connection that waits to
\* be accepted is there.
Sound(r, m) ==
  /\ m.msg = "AddPeer" => Leads(r, m.peer, m.handle)
  /\ m.msg = "Recv" => m.message \in NamedBy(m.peer)
  /\ m.msg = "AddLocalGame" => m.from.port # 0 /\ [ip |-> m.from.ip, port |-> m.port] \in LanGame
  /\ m.msg = "AcceptGameConnection" => conn[m.conn].st # "free"

\* No id has a name before it is given out.
NamesGiven == \A r \in Relay : \A l \in DOMAIN names[r] : l < tables[r].next_key

\* What a relay sends to a peer goes there.
HandlesLead == \A r \in Relay : \A p \in DOMAIN tables[r].peers : Leads(r, p, tables[r].peers[p])

QueuesSound == \A r \in Relay : inbox[r] \in Seq({m \in Message : Sound(r, m)})

WiresSound == \A h \in Handle : wire[h] \in Seq(NamedBy(h[2]))

Inv == TypeOK /\ GameIdsAgree /\ NamesGiven /\ HandlesLead /\ QueuesSound /\ WiresSound

-----------------------------------------------------------------------------
(* The tables of one relay. *)

\* The assumptions of RelayTables hold here.
LEMMA TablesAssumptions == NoData \in Data /\ 0 \in Nat /\ MAX_FORWARDING_HOPS \in Nat
BY NetworkAssumption DEF Data

\* What the lemmas say of consistent tables and of ids, they say of the tables
\* here.
LEMMA SameTables ==
  ASSUME NEW s, NEW t
  PROVE  (TablesInv(s) <=> T!TablesInv(s)) /\ (KeepsIds(s, t) <=> T!KeepsIds(s, t))
BY DEF TablesInv, RelayType, IsMap, PeerGamesAgree, LanGamesAgree, RelayFields, ConnectionId,
       PeerKey, LocalGame, RemoteGame, SocketAddr, Listener, Local, KeepsIds, SameGame,
       T!TablesInv, T!RelayType, T!IsMap, T!PeerGamesAgree, T!LanGamesAgree, T!RelayFields,
       T!ConnectionId, T!PeerKey, T!LocalGame, T!RemoteGame, T!SocketAddr, T!Listener, T!Local,
       T!KeepsIds, T!SameGame

\* The same of the methods.
LEMMA SamePeers ==
  ASSUME NEW s, NEW p, NEW h, NEW P
  PROVE  add_peer(s, p, h) = T!add_peer(s, p, h) /\ remove_peers(s, P) = T!remove_peers(s, P)
<1>1. add_peer(s, p, h) = T!add_peer(s, p, h)
  BY SMT DEF add_peer, Insert, ForgetPeers, FirstConnectionId, RestrictDomain, Restrict,
         T!add_peer, T!Insert, T!ForgetPeers, T!FirstConnectionId, T!RestrictDomain, T!Restrict
<1>2. remove_peers(s, P) = T!remove_peers(s, P)
  BY SMT DEF remove_peers, games_of, PortsOf, ForgetPeers, RestrictDomain, Restrict,
         T!remove_peers, T!games_of, T!PortsOf, T!ForgetPeers, T!RestrictDomain, T!Restrict
<1>3. QED
  BY <1>1, <1>2

LEMMA SameSends ==
  ASSUME NEW s, NEW live, NEW to, NEW msg
  PROVE  send_all(s, live, to, msg) = T!send_all(s, live, to, msg)
BY SamePeers DEF send_all, Effect, T!send_all, T!Effect

LEMMA SameAddLocalGame ==
  ASSUME NEW s, NEW live, NEW from, NEW port
  PROVE  add_local_game(s, live, from, port) = T!add_local_game(s, live, from, port)
BY SameSends DEF add_local_game, next_id, Insert, Local, RelayGame, Effect,
     T!add_local_game, T!next_id, T!Insert, T!Local, T!RelayGame, T!Effect

LEMMA SameAddGame ==
  ASSUME NEW s, NEW from, NEW rid, NEW alive, NEW fresh
  PROVE  add_game(s, from, rid, alive, fresh) = T!add_game(s, from, rid, alive, fresh)
BY DEF add_game, LocalId, next_id, Insert, Remote, Kept, ReleasedPorts, PortsOf, Effect,
     T!add_game, T!LocalId, T!next_id, T!Insert, T!Remote, T!Kept, T!ReleasedPorts, T!PortsOf,
     T!Effect

LEMMA SameHandleGame ==
  ASSUME NEW s, NEW live, NEW from, NEW m, NEW alive, NEW fresh
  PROVE  handle_game(s, live, from, m, alive, fresh) = T!handle_game(s, live, from, m, alive, fresh)
BY SameAddGame, SameSends DEF handle_game, forward_game, RelayGame, Effect,
     T!handle_game, T!forward_game, T!RelayGame, T!Effect

LEMMA SameConnections ==
  ASSUME NEW s, NEW live, NEW l, NEW c, NEW from, NEW cid
  PROVE  /\ accept_game_connection(s, live, l, c) = T!accept_game_connection(s, live, l, c)
         /\ add_game_connection(s, live, from, cid, c) = T!add_game_connection(s, live, from, cid, c)
<1>1. accept_game_connection(s, live, l, c) = T!accept_game_connection(s, live, l, c)
  BY DEF accept_game_connection, NewConnectionId, After, Insert, RemoteId, RelayConnect, Effect,
       T!accept_game_connection, T!NewConnectionId, T!After, T!Insert, T!RemoteId,
       T!RelayConnect, T!Effect
<1>2. add_game_connection(s, live, from, cid, c) = T!add_game_connection(s, live, from, cid, c)
  BY SameSends DEF add_game_connection, Insert, RelayData, Effect,
       T!add_game_connection, T!Insert, T!RelayData, T!Effect
<1>3. QED
  BY <1>1, <1>2

LEMMA SameHandlers ==
  ASSUME NEW s, NEW live, NEW open, NEW from, NEW m
  PROVE  /\ handle_connect(s, live, from, m) = T!handle_connect(s, live, from, m)
         /\ handle_data(s, live, open, from, m) = T!handle_data(s, live, open, from, m)
         /\ handle_close_connection(s, from, m) = T!handle_close_connection(s, from, m)
<1>1. handle_connect(s, live, from, m) = T!handle_connect(s, live, from, m)
  <2>1. \A x, p : remove_peer(x, p) = T!remove_peer(x, p)
    BY SamePeers DEF remove_peer, T!remove_peer
  <2>2. ASSUME NEW to, NEW rid
        PROVE  forward_connect(s, live, from, to, rid, m) = T!forward_connect(s, live, from, to, rid, m)
    <3> DEFINE fc == [id |-> m.connection_id, local |-> FALSE]
               tc == s.next_connection_id[to]
               A == Insert(s.next_connection_id, to, [tc EXCEPT !.id = @ + 1])
               B == Insert(s.relayed_connections, <<to, tc>>, <<from, fc>>)
               t == [s EXCEPT !.next_connection_id = A, !.relayed_connections = B]
               C == Insert(t.relayed_connections, <<from, fc>>, <<to, tc>>)
               u == [t EXCEPT !.relayed_connections = C]
               no == \/ m.hops >= MAX_FORWARDING_HOPS
                     \/ from \notin DOMAIN s.peers
                     \/ <<from, fc>> \in DOMAIN s.relayed_connections
                     \/ to \notin DOMAIN s.peers
               out == {[to |-> s.peers[to], msg |-> RelayConnect(rid, tc.id, m.hops + 1)]}
               eff(x) == [relay |-> x, out |-> {}, deliver |-> {}, spawn |-> {}, advert |-> {}]
    <3>1. forward_connect(s, live, from, to, rid, m)
            = IF no THEN eff(s)
              ELSE IF s.peers[to] \notin live THEN eff(remove_peer(t, to))
              ELSE [eff(u) EXCEPT !.out = out]
      BY DEF forward_connect, NewConnectionId, After, Effect
    <3>2. T!forward_connect(s, live, from, to, rid, m)
            = IF no THEN eff(s)
              ELSE IF s.peers[to] \notin live THEN eff(T!remove_peer(t, to))
              ELSE [eff(u) EXCEPT !.out = out]
      BY DEF T!forward_connect, T!NewConnectionId, T!After, T!Effect, T!Insert, Insert,
           RelayConnect, T!RelayConnect
    <3>3. remove_peer(t, to) = T!remove_peer(t, to)
      BY <2>1
    <3> HIDE DEF t, u, no, out
    <3>4. QED
      BY <3>1, <3>2, <3>3
  <2>3. QED
    BY <2>2 DEF handle_connect, connect_local, RemoteId, Effect,
         T!handle_connect, T!connect_local, T!RemoteId, T!Effect
<1>2. handle_data(s, live, open, from, m) = T!handle_data(s, live, open, from, m)
  BY SameSends DEF handle_data, Remove, Restrict, RelayData, Effect,
       T!handle_data, T!Remove, T!Restrict, T!RelayData, T!Effect
<1>3. handle_close_connection(s, from, m) = T!handle_close_connection(s, from, m)
  BY DEF handle_close_connection, Remove, Restrict, Effect,
       T!handle_close_connection, T!Remove, T!Restrict, T!Effect
<1>4. QED
  BY <1>1, <1>2, <1>3

-----------------------------------------------------------------------------
(* What the methods do. *)

\* What a method sends goes to peers it knew, and it knows no others afterwards.
ToPeers(s, e) == \A o \in e.out : \E p \in DOMAIN s.peers : o.to = s.peers[p]
FewerPeers(s, t) == \A p \in DOMAIN t.peers : p \in DOMAIN s.peers /\ t.peers[p] = s.peers[p]

\* A method that names no game: it gives out no id, sends no advertisement,
\* and keeps the tables consistent.
Quiet(s, e) ==
  /\ TablesInv(e.relay) /\ KeepsIds(s, e.relay) /\ e.relay.next_key = s.next_key
  /\ ToPeers(s, e)
  /\ \A o \in e.out : o.msg \in RelayMessage /\ o.msg.type # "Game"
  /\ \A d \in e.deliver : d.data \in Data

\* What a method sends opens a connection: it says which.
Opens(e) == \A o \in e.out : o.to \in Handle /\ o.msg.connection_id \in Nat

\* The messages a relay makes.
LEMMA MessagesMade ==
  /\ \A l, n \in Nat : RelayGame(l, n) \in RelayMessage /\ RelayGame(l, n).type = "Game"
                       /\ RelayGame(l, n).id = l
  /\ \A l, n, k \in Nat : RelayConnect(l, n, k) \in RelayMessage
                          /\ RelayConnect(l, n, k).type # "Game"
  /\ \A cid \in ConnectionId, d \in Data : RelayData(cid, d) \in RelayMessage
                                            /\ RelayData(cid, d).type # "Game"
  /\ \A cid \in ConnectionId : RelayCloseConnection(cid) \in RelayMessage
                               /\ RelayCloseConnection(cid).type # "Game"
BY DEF RelayMessage, RelayGame, RelayConnect, RelayData, RelayCloseConnection, ConnectionId

\* The methods without a message of their own.
LEMMA AddPeerQuiet ==
  ASSUME NEW s, TablesInv(s), NEW p \in Relay, NEW h \in Handle
  PROVE  /\ Quiet(s, Effect(add_peer(s, p, h)))
         /\ add_peer(s, p, h).peers = Insert(s.peers, p, h)
<1>1. TablesInv(add_peer(s, p, h)) /\ KeepsIds(s, add_peer(s, p, h))
  <2>1. T!TablesInv(T!add_peer(s, p, h)) /\ T!KeepsIds(s, T!add_peer(s, p, h))
    BY TablesAssumptions, SameTables, T!AddPeerInv
  <2>2. QED
    BY <2>1, SameTables, SamePeers
<1>2. add_peer(s, p, h).next_key = s.next_key /\ add_peer(s, p, h).peers = Insert(s.peers, p, h)
  BY DEF add_peer, TablesInv, RelayType, RelayFields
<1>3. QED
  BY <1>1, <1>2 DEF Quiet, ToPeers, Effect

LEMMA RemovePeerQuiet ==
  ASSUME NEW s, TablesInv(s), NEW p \in Relay
  PROVE  Quiet(s, Effect(remove_peer(s, p))) /\ FewerPeers(s, remove_peer(s, p))
<1>1. /\ TablesInv(remove_peer(s, p)) /\ KeepsIds(s, remove_peer(s, p))
      /\ remove_peer(s, p).next_key = s.next_key
  BY TablesAssumptions, SameTables, SamePeers, T!RemovePeersInv DEF remove_peer
<1>2. FewerPeers(s, remove_peer(s, p))
  <2>1. remove_peer(s, p).peers = Restrict(s.peers, DOMAIN s.peers \ {p})
    BY DEF remove_peer, remove_peers, TablesInv, RelayType, RelayFields
  <2>2. QED
    BY <2>1 DEF FewerPeers, Restrict
<1>3. QED
  BY <1>1, <1>2 DEF Quiet, ToPeers, Effect

\* The loops over peers, whatever the tables are.
LEMMA SendAllIs ==
  ASSUME NEW s, DOMAIN s = RelayFields, NEW live, NEW to, NEW msg
  PROVE  LET e == send_all(s, live, to, msg)
         IN /\ e.relay.next_key = s.next_key /\ e.relay.local_games = s.local_games
            /\ \A k \in DOMAIN s.peer_games :
                 k[1] \notin to => k \in DOMAIN e.relay.peer_games
                                  /\ e.relay.peer_games[k] = s.peer_games[k]
            /\ FewerPeers(s, e.relay)
            /\ to \subseteq DOMAIN s.peers => ToPeers(s, e)
            /\ \A o \in e.out : o.msg = msg
            /\ e.deliver = {}
<1> DEFINE P == {p \in to : s.peers[p] \notin live}
           t == remove_peers(s, P)
           e == send_all(s, live, to, msg)
<1>1. /\ t.local_games = s.local_games /\ t.peer_games = ForgetPeers(s.peer_games, P)
      /\ t.next_key = s.next_key /\ t.peers = Restrict(s.peers, DOMAIN s.peers \ P)
  BY DEF remove_peers, RelayFields
<1>2. \A k \in DOMAIN s.peer_games :
        k[1] \notin to => k \in DOMAIN t.peer_games /\ t.peer_games[k] = s.peer_games[k]
  BY <1>1 DEF ForgetPeers, RestrictDomain, Restrict
<1>3. FewerPeers(s, t)
  BY <1>1 DEF FewerPeers, Restrict
<1>4. e.relay = t /\ e.deliver = {} /\ e.out = {[to |-> s.peers[p], msg |-> msg] : p \in to \ P}
  BY DEF send_all, Effect
<1>5. to \subseteq DOMAIN s.peers => ToPeers(s, e)
  BY <1>4 DEF ToPeers
<1>6. \A o \in e.out : o.msg = msg
  BY <1>4
<1> HIDE DEF t, P, e
<1>7. QED
  BY <1>1, <1>2, <1>3, <1>4, <1>5, <1>6 DEF e

LEMMA SendQuiet ==
  ASSUME NEW s, TablesInv(s), NEW live, NEW to, to \subseteq DOMAIN s.peers,
         NEW msg \in RelayMessage, msg.type # "Game"
  PROVE  Quiet(s, send_all(s, live, to, msg))
<1> DEFINE e == send_all(s, live, to, msg)
<1>1. TablesInv(e.relay) /\ KeepsIds(s, e.relay)
  <2>1. T!TablesInv(T!send_all(s, live, to, msg).relay) /\ T!KeepsIds(s, T!send_all(s, live, to, msg).relay)
    BY TablesAssumptions, SameTables, T!SendAllInv
  <2>2. QED
    BY <2>1, SameSends, SameTables
<1>2. DOMAIN s = RelayFields
  BY DEF TablesInv, RelayType
<1>3. /\ e.relay.next_key = s.next_key /\ ToPeers(s, e) /\ e.deliver = {}
      /\ \A o \in e.out : o.msg = msg
  BY <1>2, SendAllIs
<1> HIDE DEF e
<1>4. QED
  BY <1>1, <1>3 DEF Quiet, e

LEMMA SelfQuiet ==
  ASSUME NEW s, TablesInv(s)
  PROVE  Quiet(s, Effect(s)) /\ FewerPeers(s, Effect(s).relay)
BY TablesAssumptions, SameTables, T!KeepsIdsRefl DEF Quiet, ToPeers, FewerPeers, Effect

\* The ids of a connection that the tables hold.
LEMMA TablesHold ==
  ASSUME NEW s, TablesInv(s)
  PROVE  /\ \A p \in DOMAIN s.peers : p \in Relay /\ s.peers[p] \in Handle
         /\ \A p \in DOMAIN s.peers : s.next_connection_id[p] \in ConnectionId
         /\ \A k \in DOMAIN s.relayed_connections : s.relayed_connections[k] \in PeerKey
         /\ \A l \in DOMAIN s.games : l \in Nat /\ s.games[l] \in LocalGame \cup RemoteGame
BY DEF TablesInv, RelayType, IsMap

\* accept_game_connection and the thread it starts.
LEMMA AcceptQuiet ==
  ASSUME NEW s, TablesInv(s), NEW live, NEW l, NEW c \in Conn
  PROVE  LET e == accept_game_connection(s, live, l, c)
         IN /\ Quiet(s, e) /\ FewerPeers(s, e.relay) /\ Opens(e)
            /\ \A t \in e.spawn : t.cid \in ConnectionId /\ t.peer_tx \in Handle
<1> DEFINE e == accept_game_connection(s, live, l, c)
           p == s.games[l].peer_id
           cid == s.next_connection_id[p]
<1>1. TablesInv(e.relay) /\ KeepsIds(s, e.relay)
  <2>1. T!TablesInv(T!accept_game_connection(s, live, l, c).relay)
        /\ T!KeepsIds(s, T!accept_game_connection(s, live, l, c).relay)
    BY TablesAssumptions, SameTables, T!AcceptGameConnectionInv
  <2>2. e = T!accept_game_connection(s, live, l, c)
    BY SameConnections
  <2>3. QED
    BY <2>1, <2>2, SameTables
<1>2. CASE ~ (l \in DOMAIN s.games /\ s.games[l].kind = "remote" /\ p \in DOMAIN s.peers)
  <2>1. e = Effect(s)
    BY <1>2 DEF accept_game_connection
  <2>2. QED
    BY <2>1, SelfQuiet DEF Effect, Opens
<1>3. CASE l \in DOMAIN s.games /\ s.games[l].kind = "remote" /\ p \in DOMAIN s.peers
  <2>1. s.games[l].remote_game_id \in Nat /\ cid \in ConnectionId /\ s.peers[p] \in Handle
    <3>1. s.games[l] \in LocalGame \cup RemoteGame
      BY <1>3, TablesHold
    <3>2. s.games[l].remote_game_id \in Nat
      BY <1>3, <3>1 DEF LocalGame, RemoteGame
    <3>3. QED
      BY <1>3, <3>2, TablesHold
  <2>2. cid.id \in Nat /\ 0 \in Nat
    BY <2>1 DEF ConnectionId
  <2>3. e.relay.next_key = s.next_key /\ e.relay.peers = s.peers /\ e.deliver = {}
    BY <1>3 DEF accept_game_connection, Effect, TablesInv, RelayType, RelayFields
  <2>4. \A o \in e.out : /\ o.msg = RelayConnect(s.games[l].remote_game_id, cid.id, 0)
                         /\ o.to = s.peers[p]
    BY <1>3 DEF accept_game_connection, NewConnectionId, RemoteId, Effect
  <2>5. \A t \in e.spawn : t.cid = cid /\ t.peer_tx = s.peers[p]
    BY <1>3 DEF accept_game_connection, NewConnectionId, Effect
  <2> HIDE DEF e, cid, p
  <2>6. \A o \in e.out : o.msg \in RelayMessage /\ o.msg.type # "Game"
    BY <2>1, <2>2, <2>4, MessagesMade
  <2>7. Opens(e)
    BY <2>1, <2>2, <2>4 DEF Opens, RelayConnect
  <2>8. QED
    BY <1>1, <1>3, <2>1, <2>3, <2>4, <2>5, <2>6, <2>7 DEF Quiet, ToPeers, FewerPeers, e
<1>4. QED
  BY <1>2, <1>3

LEMMA AddGameConnectionQuiet ==
  ASSUME NEW s, TablesInv(s), NEW live, NEW from \in Relay, NEW cid \in ConnectionId, NEW c \in Conn
  PROVE  LET e == add_game_connection(s, live, from, cid, c)
         IN Quiet(s, e) /\ FewerPeers(s, e.relay)
<1> DEFINE e == add_game_connection(s, live, from, cid, c)
           t == [s EXCEPT !.local_connections = Insert(@, <<from, cid>>, c)]
<1>1. TablesInv(e.relay) /\ KeepsIds(s, e.relay)
  <2>1. T!TablesInv(T!add_game_connection(s, live, from, cid, c).relay)
        /\ T!KeepsIds(s, T!add_game_connection(s, live, from, cid, c).relay)
    <3>1. cid \in T!ConnectionId
      BY DEF ConnectionId, T!ConnectionId
    <3>2. QED
      BY <3>1, TablesAssumptions, SameTables, T!AddGameConnectionInv
  <2>2. e = T!add_game_connection(s, live, from, cid, c)
    BY SameConnections
  <2>3. QED
    BY <2>1, <2>2, SameTables
<1>2. CASE from \notin DOMAIN s.peers
  BY <1>2, SelfQuiet DEF add_game_connection
<1>3. CASE from \in DOMAIN s.peers
  <2>1. e = send_all(t, live, {from}, RelayData(cid, NoData))
    BY <1>3 DEF add_game_connection
  <2>2. t.next_key = s.next_key /\ t.peers = s.peers /\ DOMAIN t = RelayFields
    BY DEF TablesInv, RelayType, RelayFields
  <2> HIDE DEF t
  <2>3. e.relay.next_key = t.next_key /\ FewerPeers(t, e.relay) /\ ToPeers(t, e)
    BY <1>3, <2>1, <2>2, SendAllIs
  <2>4. e.deliver = {} /\ \A o \in e.out : o.msg = RelayData(cid, NoData)
    BY <2>1, <2>2, SendAllIs
  <2> HIDE DEF e
  <2>5. \A o \in e.out : o.msg \in RelayMessage /\ o.msg.type # "Game"
    BY <2>4, MessagesMade, TablesAssumptions
  <2>6. QED
    BY <1>1, <2>2, <2>3, <2>4, <2>5 DEF Quiet, ToPeers, FewerPeers, e
<1>4. QED
  BY <1>2, <1>3

\* handle_connect and the thread it starts: it dials the address of the game.
LEMMA ConnectQuiet ==
  ASSUME NEW s, TablesInv(s), NEW live, NEW from \in Relay, NEW m,
         m.connection_id \in Nat, m.hops \in Nat
  PROVE  LET e == handle_connect(s, live, from, m)
         IN /\ Quiet(s, e) /\ FewerPeers(s, e.relay) /\ Opens(e)
            /\ \A t \in e.spawn :
                 /\ t.cid \in ConnectionId /\ t.peer_tx \in Handle
                 /\ m.game_id \in DOMAIN s.games /\ s.games[m.game_id].kind = "local"
                 /\ t.addr = s.games[m.game_id].addr
<1> DEFINE e == handle_connect(s, live, from, m)
           l == m.game_id
           fc == [id |-> m.connection_id, local |-> FALSE]
<1>1. TablesInv(e.relay) /\ KeepsIds(s, e.relay)
  <2>1. T!TablesInv(T!handle_connect(s, live, from, m).relay)
        /\ T!KeepsIds(s, T!handle_connect(s, live, from, m).relay)
    BY TablesAssumptions, SameTables, T!HandleConnectInv
  <2>2. e = T!handle_connect(s, live, from, m)
    BY SameHandlers
  <2>3. QED
    BY <2>1, <2>2, SameTables
<1>2. CASE l \notin DOMAIN s.games
  <2>1. e = Effect(s)
    BY <1>2 DEF handle_connect
  <2>2. QED
    BY <2>1, SelfQuiet DEF Effect, Opens
<1>3. CASE l \in DOMAIN s.games /\ s.games[l].kind = "local"
  <2>1. e = connect_local(s, from, l, fc)
    BY <1>3 DEF handle_connect
  <2>2. e.relay = s /\ e.out = {} /\ e.deliver = {}
    BY <2>1 DEF connect_local, Effect
  <2>3. \A t \in e.spawn : /\ from \in DOMAIN s.peers /\ t.cid = fc
                           /\ t.peer_tx = s.peers[from] /\ t.addr = s.games[l].addr
    <3>1. CASE from \in DOMAIN s.peers
      <4>1. e.spawn = {[kind |-> "connect", from |-> from, cid |-> fc, game |-> l,
                        addr |-> s.games[l].addr, peer_tx |-> s.peers[from]]}
        BY <2>1, <3>1 DEF connect_local, Effect
      <4>2. QED
        BY <3>1, <4>1
    <3>2. CASE from \notin DOMAIN s.peers
      BY <2>1, <3>2 DEF connect_local, Effect
    <3>3. QED
      BY <3>1, <3>2
  <2>4. fc \in ConnectionId
    BY DEF ConnectionId
  <2> HIDE DEF e, fc
  <2>5. \A t \in e.spawn : t.cid \in ConnectionId /\ t.peer_tx \in Handle
    BY <2>3, <2>4, TablesHold
  <2>6. QED
    BY <1>1, <1>3, <2>2, <2>3, <2>5 DEF Quiet, ToPeers, FewerPeers, Opens, e
<1>4. CASE l \in DOMAIN s.games /\ s.games[l].kind # "local"
  <2> DEFINE to == s.games[l].peer_id
             rid == s.games[l].remote_game_id
             tc == s.next_connection_id[to]
             t == [s EXCEPT !.next_connection_id = Insert(@, to, After(tc)),
                            !.relayed_connections = Insert(@, <<to, tc>>, <<from, fc>>)]
             u == [t EXCEPT !.relayed_connections = Insert(@, <<from, fc>>, <<to, tc>>)]
  <2>1. e = forward_connect(s, live, from, to, rid, m)
    BY <1>4 DEF handle_connect, RemoteId
  <2>2. /\ e.relay \in {s, remove_peer(t, to), u} /\ e.deliver = {} /\ e.spawn = {}
        /\ \A o \in e.out : /\ to \in DOMAIN s.peers /\ o.to = s.peers[to]
                            /\ o.msg = RelayConnect(rid, tc.id, m.hops + 1)
    <3> DEFINE no == \/ m.hops >= MAX_FORWARDING_HOPS
                     \/ from \notin DOMAIN s.peers
                     \/ <<from, fc>> \in DOMAIN s.relayed_connections
                     \/ to \notin DOMAIN s.peers
               out == {[to |-> s.peers[to], msg |-> RelayConnect(rid, tc.id, m.hops + 1)]}
    <3>1. forward_connect(s, live, from, to, rid, m)
            = IF no THEN Effect(s)
              ELSE IF s.peers[to] \notin live THEN Effect(remove_peer(t, to))
              ELSE [Effect(u) EXCEPT !.out = out]
      BY DEF forward_connect, NewConnectionId
    <3>2. no \/ to \in DOMAIN s.peers
      OBVIOUS
    <3>3. \A o \in out : o.to = s.peers[to] /\ o.msg = RelayConnect(rid, tc.id, m.hops + 1)
      OBVIOUS
    <3> HIDE DEF no, out, t, u, e, to, rid, tc
    <3>4. QED
      BY <2>1, <3>1, <3>2, <3>3 DEF Effect
  <2>3. /\ DOMAIN t = RelayFields /\ t.next_key = s.next_key /\ u.next_key = s.next_key
        /\ t.peers = s.peers /\ u.peers = s.peers
    BY DEF TablesInv, RelayType, RelayFields
  <2> HIDE DEF e, t, u
  <2>4. /\ remove_peer(t, to).next_key = t.next_key
        /\ remove_peer(t, to).peers = Restrict(t.peers, DOMAIN t.peers \ {to})
    BY <2>3 DEF remove_peer, remove_peers, RelayFields
  <2>5. e.relay.next_key = s.next_key /\ FewerPeers(s, e.relay)
    BY <2>2, <2>3, <2>4 DEF FewerPeers, Restrict
  <2>6. rid \in Nat
    <3>1. s.games[l] \in LocalGame \cup RemoteGame
      BY <1>4, TablesHold
    <3>2. QED
      BY <1>4, <3>1 DEF LocalGame, RemoteGame
  <2>7. to \in DOMAIN s.peers => tc.id \in Nat
    BY TablesHold DEF ConnectionId
  <2>8. m.hops + 1 \in Nat
    OBVIOUS
  <2> HIDE DEF to, rid, tc
  <2>9. \A o \in e.out : o.msg \in RelayMessage /\ o.msg.type # "Game"
    <3>1. \A k \in Nat : to \in DOMAIN s.peers =>
            RelayConnect(rid, tc.id, k) \in RelayMessage /\ RelayConnect(rid, tc.id, k).type # "Game"
      BY <2>6, <2>7, MessagesMade
    <3>2. QED
      BY <2>2, <2>8, <3>1
  <2>10. Opens(e)
    BY <2>2, <2>7, TablesHold DEF Opens, RelayConnect
  <2>11. QED
    BY <1>1, <2>2, <2>5, <2>9, <2>10 DEF Quiet, ToPeers, e
<1>5. QED
  BY <1>2, <1>3, <1>4

LEMMA DataQuiet ==
  ASSUME NEW s, TablesInv(s), NEW live, NEW open, NEW from, NEW m, m.data \in Data
  PROVE  LET e == handle_data(s, live, open, from, m)
         IN Quiet(s, e) /\ FewerPeers(s, e.relay)
<1> DEFINE e == handle_data(s, live, open, from, m)
           key == <<from, [id |-> m.connection_id, local |-> m.connection_local]>>
           t == [s EXCEPT !.local_connections = Remove(@, key)]
           to == s.relayed_connections[key]
<1>1. TablesInv(e.relay) /\ KeepsIds(s, e.relay)
  <2>1. T!TablesInv(T!handle_data(s, live, open, from, m).relay)
        /\ T!KeepsIds(s, T!handle_data(s, live, open, from, m).relay)
    BY TablesAssumptions, SameTables, T!HandleDataInv
  <2>2. e = T!handle_data(s, live, open, from, m)
    BY SameHandlers
  <2>3. QED
    BY <2>1, <2>2, SameTables
<1>2. CASE from \in DOMAIN s.peers /\ key \notin DOMAIN s.local_connections
           /\ key \in DOMAIN s.relayed_connections /\ to[1] \in DOMAIN s.peers
  <2>1. e = send_all(s, live, {to[1]}, RelayData(to[2], m.data))
    BY <1>2 DEF handle_data
  <2>2. to[2] \in ConnectionId
    BY <1>2, TablesHold DEF PeerKey
  <2>3. RelayData(to[2], m.data) \in RelayMessage /\ RelayData(to[2], m.data).type # "Game"
    BY <2>2, MessagesMade
  <2>4. DOMAIN s = RelayFields /\ {to[1]} \subseteq DOMAIN s.peers
    BY <1>2 DEF TablesInv, RelayType
  <2> HIDE DEF to, e
  <2>5. Quiet(s, e)
    BY <2>1, <2>3, <2>4, SendQuiet
  <2>6. FewerPeers(s, e.relay)
    BY <2>1, <2>4, SendAllIs
  <2>7. QED
    BY <2>5, <2>6 DEF e
<1>3. CASE ~ (from \in DOMAIN s.peers /\ key \notin DOMAIN s.local_connections
              /\ key \in DOMAIN s.relayed_connections /\ to[1] \in DOMAIN s.peers)
  <2>1. e.relay \in {s, t} /\ e.out = {} /\ \A d \in e.deliver : d.data = m.data
    BY <1>3 DEF handle_data, Effect
  <2>2. t.next_key = s.next_key /\ t.peers = s.peers
    BY DEF TablesInv, RelayType, RelayFields
  <2> HIDE DEF e, t
  <2>3. QED
    BY <1>1, <2>1, <2>2 DEF Quiet, ToPeers, FewerPeers, e
<1>4. QED
  BY <1>2, <1>3

LEMMA CloseQuiet ==
  ASSUME NEW s, TablesInv(s), NEW from, NEW m
  PROVE  LET e == handle_close_connection(s, from, m)
         IN Quiet(s, e) /\ FewerPeers(s, e.relay)
<1> DEFINE e == handle_close_connection(s, from, m)
<1>1. TablesInv(e.relay) /\ KeepsIds(s, e.relay)
  <2>1. T!TablesInv(T!handle_close_connection(s, from, m).relay)
        /\ T!KeepsIds(s, T!handle_close_connection(s, from, m).relay)
    BY TablesAssumptions, SameTables, T!HandleCloseConnectionInv
  <2>2. e = T!handle_close_connection(s, from, m)
    BY SameHandlers
  <2>3. QED
    BY <2>1, <2>2, SameTables
<1>2. e.relay.next_key = s.next_key /\ e.relay.peers = s.peers /\ e.out = {} /\ e.deliver = {}
  BY DEF handle_close_connection, Effect, TablesInv, RelayType, RelayFields
<1> HIDE DEF e
<1>3. QED
  BY <1>1, <1>2 DEF Quiet, ToPeers, FewerPeers, e

\* The key that comes after the next one.
KeyAfter(s) == s.next_key + 1

\* add_local_game names one game, by the id that local_games has for it.
LEMMA AddLocalGameIs ==
  ASSUME NEW s, TablesInv(s), NEW live, NEW from \in SocketAddr, from.port # 0, NEW port \in Nat
  PROVE  LET e == add_local_game(s, live, from, port)
             addr == [ip |-> from.ip, port |-> port]
             id == e.relay.local_games[addr]
         IN /\ TablesInv(e.relay) /\ KeepsIds(s, e.relay)
            /\ addr \in DOMAIN e.relay.local_games /\ id \in Nat
            /\ \/ id = s.next_key /\ e.relay.next_key = KeyAfter(s)
               \/ /\ e.relay.next_key = s.next_key
                  /\ addr \in DOMAIN s.local_games /\ id = s.local_games[addr]
            /\ FewerPeers(s, e.relay) /\ ToPeers(s, e)
            /\ e.deliver = {} /\ \A o \in e.out : o.msg = RelayGame(id, 0)
<1> DEFINE e == add_local_game(s, live, from, port)
           addr == [ip |-> from.ip, port |-> port]
           known == addr \in DOMAIN s.local_games
           id == IF known THEN s.local_games[addr] ELSE s.next_key
           t == IF known THEN s
                ELSE [s EXCEPT !.local_games = Insert(@, addr, id),
                               !.games = Insert(@, id, Local(addr)),
                               !.next_key = @ + 1]
           msg == RelayGame(id, 0)
<1>1. TablesInv(e.relay) /\ KeepsIds(s, e.relay)
  <2>1. T!TablesInv(T!add_local_game(s, live, from, port).relay)
        /\ T!KeepsIds(s, T!add_local_game(s, live, from, port).relay)
    <3>1. from \in T!SocketAddr
      BY DEF SocketAddr, T!SocketAddr
    <3>2. QED
      BY <3>1, TablesAssumptions, SameTables, T!AddLocalGameInv
  <2>2. e = T!add_local_game(s, live, from, port)
    BY SameAddLocalGame
  <2>3. QED
    BY <2>1, <2>2, SameTables
<1>2. e = send_all(t, live, DOMAIN t.peers, msg)
  BY DEF add_local_game, next_id
<1>3. /\ DOMAIN t = RelayFields /\ t.peers = s.peers
      /\ addr \in DOMAIN t.local_games /\ t.local_games[addr] = id
      /\ t.next_key = IF known THEN s.next_key ELSE s.next_key + 1
  BY DEF TablesInv, RelayType, RelayFields, Insert
<1>4. id \in Nat
  BY DEF TablesInv, RelayType, IsMap
<1> HIDE DEF t, msg, id
<1>5. /\ e.relay.next_key = t.next_key /\ e.relay.local_games = t.local_games
      /\ FewerPeers(t, e.relay) /\ ToPeers(t, e)
      /\ e.deliver = {} /\ \A o \in e.out : o.msg = msg
  BY <1>2, <1>3, SendAllIs
<1> HIDE DEF e
<1>6. FewerPeers(s, e.relay) /\ ToPeers(s, e)
  BY <1>3, <1>5 DEF FewerPeers, ToPeers
<1>7. e.relay.local_games[addr] = id /\ addr \in DOMAIN e.relay.local_games
  BY <1>3, <1>5
<1>8. \/ id = s.next_key /\ e.relay.next_key = KeyAfter(s)
      \/ e.relay.next_key = s.next_key /\ known /\ id = s.local_games[addr]
  BY <1>3, <1>5 DEF id, KeyAfter
<1>9. QED
  BY <1>1, <1>4, <1>5, <1>6, <1>7, <1>8 DEF e, msg

\* The effect e on the tables s names one game, by the id that peer_games has
\* for it.
NamesPeerGame(s, e, key) ==
  LET l == e.relay.peer_games[key]
  IN /\ TablesInv(e.relay) /\ KeepsIds(s, e.relay)
     /\ key \in DOMAIN e.relay.peer_games /\ l \in Nat
     /\ \/ l = s.next_key /\ e.relay.next_key = KeyAfter(s)
        \/ e.relay.next_key = s.next_key /\ key \in DOMAIN s.peer_games /\ l = s.peer_games[key]
     /\ FewerPeers(s, e.relay) /\ ToPeers(s, e)
     /\ e.deliver = {} /\ \A o \in e.out : \E n \in Nat : o.msg = RelayGame(l, n)

LEMMA HandleGameIs ==
  ASSUME NEW s, TablesInv(s), NEW live, NEW from \in DOMAIN s.peers,
         NEW m, m.id \in Nat, m.hops \in Nat, NEW alive, NEW fresh \in SUBSET Listener
  PROVE  NamesPeerGame(s, handle_game(s, live, from, m, alive, fresh), <<from, m.id>>)
<1>0. PICK e, key, l : /\ e = handle_game(s, live, from, m, alive, fresh)
                       /\ key = <<from, m.id>> /\ l = e.relay.peer_games[key]
  OBVIOUS
<1> SUFFICES NamesPeerGame(s, e, key)
  BY <1>0
<1> USE <1>0
<1> DEFINE added == add_game(s, from, m.id, alive, fresh)
           a == added.relay
           k == a.peer_games[key]
           passed == forward_game(a, live, from, k, m.hops)
<1>1. from \in Relay /\ fresh \in SUBSET T!Listener
  BY TablesHold DEF Listener, T!Listener
<1>2. TablesInv(e.relay) /\ KeepsIds(s, e.relay)
  <2>1. T!TablesInv(T!handle_game(s, live, from, m, alive, fresh).relay)
        /\ T!KeepsIds(s, T!handle_game(s, live, from, m, alive, fresh).relay)
    BY <1>1, TablesAssumptions, SameTables, T!HandleGameInv
  <2>2. e = T!handle_game(s, live, from, m, alive, fresh)
    BY SameHandleGame
  <2>3. QED
    BY <2>1, <2>2, SameTables
<1>3. TablesInv(a) /\ key \in DOMAIN a.peer_games /\ a.games[k].kind = "remote"
  <2> DEFINE b == T!add_game(s, from, m.id, alive, fresh).relay
  <2>1. T!TablesInv(s) /\ m.id \in Nat
    BY SameTables
  <2>2. /\ T!TablesInv(b) /\ <<from, m.id>> \in DOMAIN b.peer_games
        /\ b.games[b.peer_games[<<from, m.id>>]].kind = "remote"
    BY ONLY <1>1, <2>1, TablesAssumptions, T!AddGameInv
  <2>3. a = b
    BY SameAddGame
  <2> HIDE DEF a, b
  <2>4. QED
    BY <2>2, <2>3, SameTables
<1>4. /\ a.peer_games = Insert(s.peer_games, key, LocalId(s, from, m.id))
      /\ a.next_key = IF key \in DOMAIN s.peer_games THEN s.next_key ELSE s.next_key + 1
      /\ a.peers = s.peers
      /\ added.deliver = {} /\ "relay" \in DOMAIN added /\ "out" \in DOMAIN added
  BY DEF add_game, Effect, TablesInv, RelayType, RelayFields
<1>5. k = LocalId(s, from, m.id)
  BY <1>4 DEF Insert
<1>6. \/ k = s.next_key /\ a.next_key = KeyAfter(s)
      \/ a.next_key = s.next_key /\ key \in DOMAIN s.peer_games /\ k = s.peer_games[key]
  BY <1>4, <1>5 DEF LocalId, next_id, KeyAfter
<1>7. k \in Nat
  BY <1>3 DEF TablesInv, RelayType, IsMap
<1>8. e = [added EXCEPT !.relay = passed.relay, !.out = passed.out]
  BY <1>3 DEF handle_game
<1> HIDE DEF added
<1>9. e.relay = passed.relay /\ e.out = passed.out /\ e.deliver = {}
  BY <1>4, <1>8
<1>10. CASE m.hops >= MAX_FORWARDING_HOPS
  <2>1. passed.relay = a /\ passed.out = {}
    BY <1>10 DEF forward_game, Effect
  <2> HIDE DEF a
  <2>2. QED
    BY <1>2, <1>3, <1>4, <1>6, <1>7, <1>9, <2>1 DEF ToPeers, FewerPeers, NamesPeerGame
<1>11. CASE ~ (m.hops >= MAX_FORWARDING_HOPS)
  <2> DEFINE to == DOMAIN a.peers \ {from}
             msg == RelayGame(k, m.hops + 1)
  <2>1. passed = send_all(a, live, to, msg)
    BY <1>11 DEF forward_game
  <2>2. key[1] \notin to /\ to \subseteq DOMAIN a.peers /\ DOMAIN a = RelayFields
    BY <1>3 DEF TablesInv, RelayType
  <2> HIDE DEF a, passed, to, msg
  <2>3. /\ passed.relay.next_key = a.next_key /\ \A o \in passed.out : o.msg = msg
        /\ key \in DOMAIN passed.relay.peer_games /\ passed.relay.peer_games[key] = a.peer_games[key]
        /\ FewerPeers(a, passed.relay) /\ ToPeers(a, passed)
    BY <1>3, <2>1, <2>2, SendAllIs
  <2>4. FewerPeers(s, e.relay) /\ ToPeers(s, e)
    BY <1>4, <1>9, <2>3 DEF FewerPeers, ToPeers
  <2>5. \A o \in e.out : \E n \in Nat : o.msg = RelayGame(l, n)
    <3>1. m.hops + 1 \in Nat
      OBVIOUS
    <3>2. QED
      BY <1>9, <2>3, <3>1 DEF msg
  <2>6. QED
    BY <1>2, <1>3, <1>6, <1>7, <1>9, <2>3, <2>4, <2>5 DEF k, NamesPeerGame
<1>12. QED
  BY <1>10, <1>11

-----------------------------------------------------------------------------
(* Sequences. *)

\* Sequences of some set are sequences of a larger one.
LEMMA LargerSeq ==
  ASSUME NEW S, NEW U, S \subseteq U, NEW s \in Seq(S)
  PROVE  s \in Seq(U)
OBVIOUS

LEMMA EmptySeq == \A S : <<>> \in Seq(S)
OBVIOUS

LEMMA SeqSteps ==
  ASSUME NEW S, NEW s \in Seq(S)
  PROVE  /\ \A x \in S : Append(s, x) \in Seq(S)
         /\ s # <<>> => Head(s) \in S /\ Tail(s) \in Seq(S)
         /\ \A n \in 0..Len(s) : SubSeq(s, 1, n) \in Seq(S)
         /\ <<>> \in Seq(S)
OBVIOUS

-----------------------------------------------------------------------------
(* Steps. *)

\* What an id stands for does not change, and no thread is taken back.
Grows ==
  /\ \A r \in Relay : \A l \in DOMAIN names[r] : l \in DOMAIN names'[r] /\ names'[r][l] = names[r][l]
  /\ \A c \in Conn : conn[c].st # "free" => conn'[c].st # "free"

LEMMA Handles ==
  ASSUME NEW h \in Handle
  PROVE  /\ h[2] \in Relay /\ Peer(h) \in Relay
         /\ Other(h) \in Handle /\ Other(h) # h /\ Peer(Other(h)) = h[2] /\ Other(h)[2] = Peer(h)
<1>1. PICK s \in Session : h = <<s, Initiator[s]>> \/ h = <<s, Responder[s]>>
  BY DEF Handle
<1>2. Initiator[s] \in Relay /\ Responder[s] \in Relay /\ Initiator[s] # Responder[s]
  BY NetworkAssumption
<1>3. QED
  BY <1>1, <1>2 DEF Handle, Peer, Other

\* What was sound stays so.
LEMMA StaysSound ==
  ASSUME TypeOK, Grows
  PROVE  /\ \A p \in Relay : NamedBy(p) \subseteq NamedBy(p)'
         /\ \A r \in Relay, m \in Message : Sound(r, m) => Sound(r, m)'
<1>1. \A p \in Relay : NamedBy(p) \subseteq NamedBy(p)'
  BY DEF NamedBy, Grows
<1>2. ASSUME NEW r \in Relay, NEW m \in Message, Sound(r, m) PROVE Sound(r, m)'
  <2>1. /\ m.msg = "Recv" => m.peer \in Relay
        /\ m.msg = "AcceptGameConnection" => m.conn \in Conn
    BY DEF Message
  <2>2. m.msg = "Recv" => m.message \in NamedBy(m.peer)'
    BY <1>1, <1>2, <2>1 DEF Sound
  <2>3. m.msg = "AcceptGameConnection" => conn'[m.conn].st # "free"
    BY <1>2, <2>1 DEF Sound, Grows
  <2>4. QED
    BY <1>2, <2>2, <2>3 DEF Sound
<1>3. QED
  BY <1>1, <1>2

\* What may happen to a queue.
QueueMoves ==
  /\ inbox' = [r \in Relay |-> inbox'[r]]
  /\ \A r \in Relay : \/ inbox'[r] = inbox[r]
                      \/ inbox[r] # <<>> /\ inbox'[r] = Tail(inbox[r])
                      \/ \E m \in Message : Sound(r, m)' /\ inbox'[r] = Append(inbox[r], m)

LEMMA QueuesStaySound ==
  ASSUME TypeOK, Grows, QueuesSound, QueueMoves
  PROVE  QueuesSound' /\ inbox' \in [Relay -> Seq(Message)]
<1>1. ASSUME NEW r \in Relay PROVE inbox'[r] \in Seq({m \in Message : Sound(r, m)'})
  <2> DEFINE S == {m \in Message : Sound(r, m)}
             U == {m \in Message : Sound(r, m)'}
  <2>1. inbox[r] \in Seq(S)
    BY DEF QueuesSound
  <2>2. S \subseteq U
    BY StaysSound
  <2>3. inbox[r] \in Seq(U)
    BY <2>1, <2>2, LargerSeq
  <2>4. \A m \in Message : Sound(r, m)' => m \in U
    OBVIOUS
  <2> HIDE DEF S, U
  <2>5. inbox'[r] \in Seq(U)
    BY <2>3, <2>4, SeqSteps DEF QueueMoves
  <2>6. QED
    BY <2>5 DEF U
<1>2. QueuesSound'
  BY <1>1 DEF QueuesSound
<1>3. \A r \in Relay : inbox'[r] \in Seq(Message)
  BY <1>1, LargerSeq
<1>4. QED
  BY <1>2, <1>3 DEF QueueMoves

\* What may happen to a stream.
WireMoves ==
  /\ wire' = [h \in Handle |-> wire'[h]]
  /\ \A h \in Handle : \/ wire'[h] = wire[h] \/ wire'[h] = <<>>
                       \/ wire[h] # <<>> /\ wire'[h] = Tail(wire[h])
                       \/ \E n \in 0..Len(wire[h]) : wire'[h] = SubSeq(wire[h], 1, n)
                       \/ \E m \in NamedBy(h[2])' : wire'[h] = Append(wire[h], m)

LEMMA WiresStaySound ==
  ASSUME TypeOK, Grows, WiresSound, WireMoves
  PROVE  WiresSound' /\ wire' \in [Handle -> Seq(RelayMessage)]
<1>1. ASSUME NEW h \in Handle PROVE wire'[h] \in Seq(NamedBy(h[2])')
  <2>1. wire[h] \in Seq(NamedBy(h[2])) /\ NamedBy(h[2]) \subseteq NamedBy(h[2])'
    BY Handles, StaysSound DEF WiresSound
  <2>2. wire[h] \in Seq(NamedBy(h[2])')
    BY <2>1, LargerSeq
  <2>3. QED
    BY <2>2, SeqSteps DEF WireMoves
<1>2. WiresSound'
  BY <1>1 DEF WiresSound
<1>3. \A h \in Handle : NamedBy(h[2])' \subseteq RelayMessage
  BY DEF NamedBy
<1>4. \A h \in Handle : wire'[h] \in Seq(RelayMessage)
  BY <1>1, <1>3, LargerSeq
<1>5. QED
  BY <1>2, <1>4 DEF WireMoves

\* Steps that leave tables and names alone.
LEMMA SameNames ==
  ASSUME Inv, UNCHANGED <<tables, names>>
  PROVE  /\ GameIdsAgree' /\ NamesGiven' /\ HandlesLead'
         /\ DOMAIN tables' = Relay /\ \A r \in Relay : TablesInv(tables[r])'
         /\ DOMAIN names' = Relay /\ \A r \in Relay : IsMap(names[r], Nat, LanGame)'
<1>1. tables' = tables /\ names' = names
  OBVIOUS
<1>2. GameIdsAgree' /\ NamesGiven' /\ HandlesLead'
  BY <1>1 DEF Inv, GameIdsAgree, NamesGiven, HandlesLead
<1>3. QED
  BY <1>1, <1>2 DEF Inv, TypeOK

RouteType == route \in [Player -> Seq(Session \X Nat)]

\* The parts of the type that need no invariant.
EndsType ==
  /\ ends \in [Handle -> {"new", "up", "dropped", "closed"}]
  /\ adverts \in [LanGame -> 0..MaxAdverts]
  /\ RouteType

ThreadsType ==
  /\ conn \in [Conn -> Thread]
  /\ mail \in [Conn -> Seq(Data)]
  /\ sent \in [Conn -> 0..MaxChunks]
  /\ heard \in [Conn -> Seq(Data)]

\* Steps that leave tables and names alone.
LEMMA OutsideStep ==
  ASSUME Inv, UNCHANGED <<tables, names>>, Grows, QueueMoves, WireMoves, EndsType', ThreadsType'
  PROVE  Inv'
<1>1. /\ GameIdsAgree' /\ NamesGiven' /\ HandlesLead'
      /\ DOMAIN tables' = Relay /\ \A r \in Relay : TablesInv(tables[r])'
      /\ DOMAIN names' = Relay /\ \A r \in Relay : IsMap(names[r], Nat, LanGame)'
  BY SameNames
<1>2. QueuesSound' /\ inbox' \in [Relay -> Seq(Message)]
  BY QueuesStaySound DEF Inv
<1>3. WiresSound' /\ wire' \in [Handle -> Seq(RelayMessage)]
  BY WiresStaySound DEF Inv
<1>4. TypeOK'
  BY <1>1, <1>2, <1>3 DEF TypeOK, EndsType, RouteType, ThreadsType
<1>5. QED
  BY <1>1, <1>2, <1>3, <1>4 DEF Inv

\* Parts of the state that a step does not touch.
LEMMA Untouched ==
  ASSUME TypeOK
  PROVE  /\ inbox' = inbox => QueueMoves
         /\ wire' = wire => WireMoves
         /\ UNCHANGED <<ends, adverts, route>> => EndsType'
         /\ UNCHANGED threads => ThreadsType'
         /\ UNCHANGED <<names, conn>> => Grows
<1>1. inbox' = inbox => QueueMoves
  BY DEF TypeOK, QueueMoves
<1>2. wire' = wire => WireMoves
  BY DEF TypeOK, WireMoves
<1>3. UNCHANGED <<ends, adverts, route>> => EndsType'
  BY DEF TypeOK, EndsType, RouteType
<1>4. UNCHANGED threads => ThreadsType'
  BY DEF TypeOK, ThreadsType, threads
<1>5. UNCHANGED <<names, conn>> => Grows
  BY DEF Grows
<1>6. QED
  BY <1>1, <1>2, <1>3, <1>4, <1>5

\* Something is put into a queue.
LEMMA Queued ==
  ASSUME TypeOK, NEW r \in Relay, NEW m \in Message, Sound(r, m)',
         inbox' = [inbox EXCEPT ![r] = Append(@, m)]
  PROVE  QueueMoves
<1>1. inbox' = [x \in Relay |-> inbox'[x]] /\ inbox'[r] = Append(inbox[r], m)
      /\ \A x \in Relay : x # r => inbox'[x] = inbox[x]
  BY DEF TypeOK
<1>2. QED
  BY <1>1 DEF QueueMoves

\* Something is written to a stream, or lost.
LEMMA Pushes ==
  ASSUME TypeOK, NEW h \in Handle, NEW m \in NamedBy(h[2])', wire' = [wire EXCEPT ![h] = Pushed(h, m)]
  PROVE  WireMoves
<1>1. wire' = [x \in Handle |-> wire'[x]]
      /\ \A x \in Handle : x # h => wire'[x] = wire[x]
  BY DEF TypeOK
<1>2. wire'[h] = wire[h] \/ wire'[h] = Append(wire[h], m)
  BY DEF TypeOK, Pushed
<1>3. QED
  BY <1>1, <1>2 DEF WireMoves

-----------------------------------------------------------------------------
(* Sessions, games and players. *)

\* The messages of the main thread's queue.
LEMMA QueueMessages ==
  /\ \A p \in Relay, h \in Handle : AddPeer(p, h) \in Message
  /\ \A p \in Relay : RemovePeer(p) \in Message
  /\ \A p \in Relay, m \in RelayMessage : Recv(p, m) \in Message
  /\ \A a \in SocketAddr, n \in Nat : AddLocalGame(a, n) \in Message
  /\ \A l \in Nat, c \in Conn : AcceptGameConnection(l, c) \in Message
  /\ \A p \in Relay, cid \in ConnectionId, c \in Conn : AddGameConnection(p, cid, c) \in Message
BY DEF Message, AddPeer, RemovePeer, Recv, AddLocalGame, AcceptGameConnection, AddGameConnection

LEMMA EstablishInv ==
  ASSUME Inv, NEW h \in Handle, Establish(h)
  PROVE  Inv'
<1> DEFINE m == AddPeer(Peer(h), h)
<1>1. /\ ends' = [ends EXCEPT ![h] = "up"] /\ inbox' = [inbox EXCEPT ![h[2]] = Append(@, m)]
      /\ UNCHANGED <<tables, wire, adverts, names, route>> /\ UNCHANGED threads /\ conn' = conn
  BY DEF Establish, threads, history
<1>2. TypeOK
  BY DEF Inv
<1>3. h[2] \in Relay /\ m \in Message
  BY Handles, QueueMessages
<1>4. Sound(h[2], m)'
  BY DEF Sound, AddPeer, Leads
<1>5. QueueMoves
  BY <1>1, <1>2, <1>3, <1>4, Queued
<1>6. EndsType'
  BY <1>1, <1>2 DEF TypeOK, EndsType, RouteType
<1>7. QED
  BY <1>1, <1>2, <1>5, <1>6, OutsideStep, Untouched

LEMMA ReceiveInv ==
  ASSUME Inv, NEW h \in Handle, Receive(h)
  PROVE  Inv'
<1>0. PICK x : x = Head(wire[h])
  OBVIOUS
<1> DEFINE m == Recv(h[2], x)
<1>1. /\ wire[h] # <<>> /\ wire' = [wire EXCEPT ![h] = Tail(@)]
      /\ inbox' = [inbox EXCEPT ![Peer(h)] = Append(@, m)]
      /\ UNCHANGED <<tables, ends, adverts, names, route>> /\ UNCHANGED threads /\ conn' = conn
  BY <1>0 DEF Receive, threads, history
<1>2. TypeOK
  BY DEF Inv
<1>3. x \in NamedBy(h[2])
  BY <1>0, <1>1, SeqSteps DEF Inv, WiresSound
<1>4. h[2] \in Relay /\ Peer(h) \in Relay /\ m \in Message
  BY <1>3, Handles, QueueMessages DEF NamedBy
<1>5. Sound(Peer(h), m)'
  BY <1>1, <1>3 DEF Sound, Recv, NamedBy
<1>6. QueueMoves
  BY <1>1, <1>2, <1>4, <1>5, Queued
<1>7. WireMoves
  BY <1>1, <1>2 DEF TypeOK, WireMoves
<1>8. QED
  BY <1>1, <1>2, <1>6, <1>7, OutsideStep, Untouched

LEMMA DropInv ==
  ASSUME Inv, NEW h \in Handle, Drop(h)
  PROVE  Inv'
<1> DEFINE m == RemovePeer(Peer(h))
<1>1. PICK n \in 0..Len(wire[h]) :
        wire' = [wire EXCEPT ![h] = SubSeq(@, 1, n), ![Other(h)] = <<>>]
  BY DEF Drop
<1>2. /\ ends' = [ends EXCEPT ![h] = "dropped"]
      /\ inbox' = [inbox EXCEPT ![h[2]] = Append(@, m)]
      /\ UNCHANGED <<tables, adverts, names, route>> /\ UNCHANGED threads /\ conn' = conn
  BY DEF Drop, threads, history
<1>3. TypeOK
  BY DEF Inv
<1>4. h[2] \in Relay /\ m \in Message
  BY Handles, QueueMessages
<1>5. Sound(h[2], m)'
  BY DEF Sound, RemovePeer
<1>6. QueueMoves
  BY <1>2, <1>3, <1>4, <1>5, Queued
<1>7. WireMoves
  <2>1. wire' = [x \in Handle |-> wire'[x]] /\ wire'[Other(h)] = <<>>
        /\ wire'[h] = SubSeq(wire[h], 1, n)
        /\ \A x \in Handle : x # h /\ x # Other(h) => wire'[x] = wire[x]
    BY <1>1, <1>3, Handles DEF TypeOK
  <2>2. QED
    BY <2>1 DEF WireMoves
<1>8. EndsType'
  BY <1>2, <1>3 DEF TypeOK, EndsType, RouteType
<1>9. QED
  BY <1>2, <1>3, <1>6, <1>7, <1>8, OutsideStep, Untouched

LEMMA ReleaseInv ==
  ASSUME Inv, NEW h \in Handle, Release(h)
  PROVE  Inv'
<1>1. /\ ends' = [ends EXCEPT ![h] = "closed"]
      /\ UNCHANGED <<tables, inbox, wire, adverts, names, route>> /\ UNCHANGED threads /\ conn' = conn
  BY DEF Release, threads, history
<1>2. TypeOK
  BY DEF Inv
<1>3. EndsType'
  BY <1>1, <1>2 DEF TypeOK, EndsType, RouteType
<1>4. QED
  BY <1>1, <1>2, <1>3, OutsideStep, Untouched

LEMMA AdvertiseInv ==
  ASSUME Inv, NEW g \in LanGame, Advertise(g)
  PROVE  Inv'
<1> DEFINE a == [ip |-> g.ip, port |-> 1]
           m == AddLocalGame(a, g.port)
<1>1. /\ adverts[g] < MaxAdverts /\ adverts' = [adverts EXCEPT ![g] = @ + 1]
      /\ inbox' = [inbox EXCEPT ![g.ip] = Append(@, m)]
      /\ UNCHANGED <<tables, ends, wire, names, route>> /\ UNCHANGED threads /\ conn' = conn
  BY DEF Advertise, threads, history
<1>2. TypeOK
  BY DEF Inv
<1>3. g \in [ip : Relay, port : Nat]
  BY NetworkAssumption
<1>4. /\ g.ip \in Relay /\ a \in SocketAddr /\ g.port \in Nat
      /\ [ip |-> g.ip, port |-> g.port] = g
  BY <1>3 DEF SocketAddr
<1>5. m \in Message
  BY <1>4, QueueMessages
<1>6. Sound(g.ip, m)'
  BY <1>4 DEF Sound, AddLocalGame
<1>7. QueueMoves
  BY <1>1, <1>2, <1>4, <1>5, <1>6, Queued
<1>8. EndsType'
  <2>1. adverts[g] \in 0..MaxAdverts /\ MaxAdverts \in Nat
    BY <1>2, NetworkAssumption DEF TypeOK
  <2>2. adverts[g] + 1 \in 0..MaxAdverts
    BY <1>1, <2>1
  <2>3. QED
    BY <1>1, <1>2, <2>2 DEF TypeOK, EndsType, RouteType
<1>9. QED
  BY <1>1, <1>2, <1>7, <1>8, OutsideStep, Untouched

\* What a thread knows of its connection.
LEMMA ThreadParts ==
  ASSUME NEW t \in Thread
  PROVE  /\ t.st \in {"free", "queued", "waiting", "dialing", "running", "closed"}
         /\ t.st # "free" => /\ t.relay \in Relay /\ t.game \in LanGame
                             /\ [t EXCEPT !.st = "closed"] \in Thread
         /\ t.st \in {"waiting", "dialing", "running"} =>
              /\ t.cid \in ConnectionId /\ t.tx \in Handle
              /\ [t EXCEPT !.st = "running"] \in Thread
         /\ t.st # "free" => [t EXCEPT !.st = "closed"].st # "free"
         /\ [t EXCEPT !.st = "running"].st # "free"
BY DEF Thread

LEMMA ThreadsMade ==
  ASSUME NEW r \in Relay, NEW g \in LanGame
  PROVE  /\ [st |-> "queued", relay |-> r, game |-> g] \in Thread
         /\ \A x \in {"waiting", "dialing"}, cid \in ConnectionId, h \in Handle :
              [st |-> x, relay |-> r, game |-> g, cid |-> cid, tx |-> h] \in Thread
BY DEF Thread

LEMMA ConnectInv ==
  ASSUME Inv, NEW c \in Player, NEW r \in Relay, NEW l \in DOMAIN tables[r].games, Connect(c, r, l)
  PROVE  Inv'
<1>0. PICK n : n = l
  OBVIOUS
<1> DEFINE m == AcceptGameConnection(n, c)
           t == [st |-> "queued", relay |-> r, game |-> names[r][l]]
<1>1. /\ conn' = [conn EXCEPT ![c] = t] /\ inbox' = [inbox EXCEPT ![r] = Append(@, m)]
      /\ UNCHANGED <<tables, names>> /\ UNCHANGED <<ends, adverts, route>>
      /\ UNCHANGED <<wire, mail, sent, heard>>
  BY <1>0 DEF Connect, history
<1>2. TypeOK /\ c \in Conn
  BY DEF Inv, Conn
<1>3. n \in Nat /\ names[r][l] \in LanGame
  <2>1. l \in Nat
    BY <1>2, TablesHold DEF TypeOK
  <2>2. l \in DOMAIN names[r]
    BY DEF Inv, GameIdsAgree
  <2>3. QED
    BY <1>0, <1>2, <2>1, <2>2 DEF TypeOK, IsMap
<1>4. t \in Thread /\ t.st # "free"
  BY <1>3, ThreadsMade
<1> HIDE DEF t
<1>5. conn' \in [Conn -> Thread] /\ conn'[c] = t /\ \A x \in Conn : x # c => conn'[x] = conn[x]
  BY <1>1, <1>2, <1>4 DEF TypeOK
<1>6. Grows
  BY <1>1, <1>4, <1>5 DEF Grows
<1>7. m \in Message
  BY <1>2, <1>3, QueueMessages
<1>8. Sound(r, m)'
  BY <1>4, <1>5 DEF Sound, AcceptGameConnection
<1>9. QueueMoves
  BY <1>1, <1>2, <1>7, <1>8, Queued
<1>10. ThreadsType'
  BY <1>1, <1>2, <1>5 DEF ThreadsType, TypeOK
<1>11. EndsType' /\ WireMoves
  BY <1>1, <1>2, Untouched
<1>12. QED
  BY <1>1, <1>6, <1>9, <1>10, <1>11, OutsideStep

\* The thread of a connection ends.
LEMMA EndInv ==
  ASSUME Inv, NEW c \in Conn, conn[c].st \in {"waiting", "dialing", "running"}, End(c)
  PROVE  Inv'
<1> DEFINE t == conn[c]
<1>1. PICK m, h : m = RelayCloseConnection(conn[c].cid) /\ h = conn[c].tx
  OBVIOUS
<1>2. /\ conn' = [conn EXCEPT ![c].st = "closed"] /\ mail' = [mail EXCEPT ![c] = <<>>]
      /\ wire' = [wire EXCEPT ![h] = Pushed(h, m)]
      /\ UNCHANGED <<tables, names>> /\ UNCHANGED <<ends, adverts, route>>
      /\ UNCHANGED <<inbox, sent, heard>>
  BY <1>1 DEF End, history
<1>3. TypeOK /\ conn[c] \in Thread
  BY DEF Inv, TypeOK
<1>4. /\ conn[c].cid \in ConnectionId /\ h \in Handle
      /\ [conn[c] EXCEPT !.st = "closed"] \in Thread
      /\ [conn[c] EXCEPT !.st = "closed"].st # "free"
  BY <1>1, <1>3, ThreadParts
<1>5. m \in RelayMessage /\ m.type # "Game"
  BY <1>1, <1>4, MessagesMade
<1>6. m \in NamedBy(h[2])'
  BY <1>5 DEF NamedBy
<1>7. WireMoves
  BY <1>2, <1>3, <1>4, <1>6, Pushes
<1>8. /\ conn' \in [Conn -> Thread] /\ conn'[c] = [conn[c] EXCEPT !.st = "closed"]
      /\ \A x \in Conn : x # c => conn'[x] = conn[x]
  BY <1>2, <1>3, <1>4 DEF TypeOK
<1>9. Grows
  BY <1>2, <1>4, <1>8 DEF Grows
<1>10. mail' \in [Conn -> Seq(Data)]
  BY <1>2, <1>3, SeqSteps DEF TypeOK
<1>11. ThreadsType'
  BY <1>2, <1>3, <1>8, <1>10 DEF ThreadsType, TypeOK
<1>12. EndsType' /\ QueueMoves
  BY <1>2, <1>3, Untouched
<1>13. QED
  BY <1>2, <1>7, <1>9, <1>11, <1>12, OutsideStep

LEMMA DialOkInv ==
  ASSUME Inv, NEW c \in Conn, DialOk(c)
  PROVE  Inv'
<1>1. PICK r, m : r = conn[c].relay /\ m = AddGameConnection(Peer(conn[c].tx), conn[c].cid, c)
  OBVIOUS
<1>2. /\ conn[c].st = "dialing" /\ conn' = [conn EXCEPT ![c].st = "running"]
      /\ inbox' = [inbox EXCEPT ![r] = Append(@, m)]
      /\ UNCHANGED <<tables, names>> /\ UNCHANGED <<ends, adverts, route>>
      /\ UNCHANGED <<wire, mail, sent, heard>>
  BY <1>1 DEF DialOk, history
<1>3. TypeOK /\ conn[c] \in Thread
  BY DEF Inv, TypeOK
<1>4. /\ conn[c].cid \in ConnectionId /\ conn[c].tx \in Handle /\ r \in Relay
      /\ [conn[c] EXCEPT !.st = "running"] \in Thread
      /\ [conn[c] EXCEPT !.st = "running"].st # "free"
  BY <1>1, <1>2, <1>3, ThreadParts
<1>5. m \in Message
  BY <1>1, <1>4, Handles, QueueMessages
<1>6. Sound(r, m)'
  BY <1>1 DEF Sound, AddGameConnection
<1>7. QueueMoves
  BY <1>2, <1>3, <1>4, <1>5, <1>6, Queued
<1>8. /\ conn' \in [Conn -> Thread] /\ conn'[c] = [conn[c] EXCEPT !.st = "running"]
      /\ \A x \in Conn : x # c => conn'[x] = conn[x]
  BY <1>2, <1>3, <1>4 DEF TypeOK
<1>9. Grows
  BY <1>2, <1>4, <1>8 DEF Grows
<1>10. ThreadsType'
  BY <1>2, <1>3, <1>8 DEF ThreadsType, TypeOK
<1>11. EndsType' /\ WireMoves
  BY <1>2, <1>3, Untouched
<1>12. QED
  BY <1>2, <1>7, <1>9, <1>10, <1>11, OutsideStep

LEMMA WriteInv ==
  ASSUME Inv, NEW c \in Conn, Write(c)
  PROVE  Inv'
<1>1. /\ conn[c].st \in {"waiting", "running"} /\ mail[c] # <<>>
      /\ conn' = [conn EXCEPT ![c].st = "running"] /\ mail' = [mail EXCEPT ![c] = Tail(@)]
      /\ heard' = [heard EXCEPT ![c] = IF Head(mail[c]) = NoData THEN @ ELSE Append(@, Head(mail[c]))]
      /\ UNCHANGED <<tables, names>> /\ UNCHANGED <<ends, adverts, route>>
      /\ UNCHANGED <<inbox, wire, sent>>
  BY DEF Write, net, history
<1>2. TypeOK /\ conn[c] \in Thread
  BY DEF Inv, TypeOK
<1>3. /\ [conn[c] EXCEPT !.st = "running"] \in Thread
      /\ [conn[c] EXCEPT !.st = "running"].st # "free"
  BY <1>1, <1>2, ThreadParts
<1>4. /\ conn' \in [Conn -> Thread] /\ conn'[c] = [conn[c] EXCEPT !.st = "running"]
      /\ \A x \in Conn : x # c => conn'[x] = conn[x]
  BY <1>1, <1>2, <1>3 DEF TypeOK
<1>5. Grows
  BY <1>1, <1>3, <1>4 DEF Grows
<1>6. Tail(mail[c]) \in Seq(Data) /\ Head(mail[c]) \in Data /\ heard[c] \in Seq(Data)
  BY <1>1, <1>2, SeqSteps DEF TypeOK
<1>7. Append(heard[c], Head(mail[c])) \in Seq(Data)
  BY <1>6, SeqSteps
<1>8. mail' \in [Conn -> Seq(Data)] /\ heard' \in [Conn -> Seq(Data)]
  BY <1>1, <1>2, <1>6, <1>7 DEF TypeOK
<1>9. ThreadsType'
  BY <1>1, <1>2, <1>4, <1>8 DEF ThreadsType, TypeOK
<1>10. EndsType' /\ WireMoves /\ QueueMoves
  BY <1>1, <1>2, Untouched
<1>11. QED
  BY <1>1, <1>5, <1>9, <1>10, OutsideStep

LEMMA ReadInv ==
  ASSUME Inv, NEW c \in Conn, Read(c)
  PROVE  Inv'
<1>1. conn[c].st = "running" /\ sent[c] < MaxChunks
  BY DEF Read
<1>2. CASE conn[c].tx \notin Live
  <2>1. End(c)
    BY <1>2 DEF Read
  <2>2. QED
    BY <1>1, <2>1, EndInv
<1>3. CASE conn[c].tx \in Live
  <2>1. PICK m, h : m = RelayData(conn[c].cid, <<c, sent[c] + 1>>) /\ h = conn[c].tx
    OBVIOUS
  <2>2. /\ sent' = [sent EXCEPT ![c] = @ + 1] /\ wire' = [wire EXCEPT ![h] = Pushed(h, m)]
        /\ UNCHANGED <<tables, names>> /\ UNCHANGED <<ends, adverts, route>>
        /\ UNCHANGED <<inbox, conn, mail, heard>>
    BY <1>3, <2>1 DEF Read, history
  <2>3. TypeOK /\ conn[c] \in Thread
    BY DEF Inv, TypeOK
  <2>4. conn[c].cid \in ConnectionId /\ h \in Handle
    BY <1>1, <2>1, <2>3, ThreadParts
  <2>5. sent[c] \in 0..MaxChunks /\ MaxChunks \in Nat
    BY <2>3, NetworkAssumption DEF TypeOK
  <2>6. sent[c] + 1 \in 0..MaxChunks /\ sent[c] + 1 \in 1..MaxChunks
    BY <1>1, <2>5
  <2>7. <<c, sent[c] + 1>> \in Data
    BY <2>6 DEF Data
  <2>8. m \in RelayMessage /\ m.type # "Game"
    BY <2>1, <2>4, <2>7, MessagesMade
  <2>9. m \in NamedBy(h[2])'
    BY <2>8 DEF NamedBy
  <2>10. WireMoves
    BY <2>2, <2>3, <2>4, <2>9, Pushes
  <2>11. ThreadsType'
    BY <2>2, <2>3, <2>6 DEF ThreadsType, TypeOK
  <2>12. EndsType' /\ QueueMoves /\ Grows
    BY <2>2, <2>3, Untouched
  <2>13. QED
    BY <2>2, <2>10, <2>11, <2>12, OutsideStep
<1>4. QED
  BY <1>2, <1>3

-----------------------------------------------------------------------------
(* The main threads. *)

\* What game l of r stands for, and what the game's entry leads to.
GameAgrees(r, l, g) ==
  /\ l \in DOMAIN names[r]
  /\ g.kind = "local" => names[r][l] = g.addr
  /\ g.kind = "remote" => /\ g.remote_game_id \in DOMAIN names[g.peer_id]
                          /\ names[r][l] = names[g.peer_id][g.remote_game_id]

LEMMA AgreeIs ==
  GameIdsAgree <=> \A r \in Relay : \A l \in DOMAIN tables[r].games : GameAgrees(r, l, tables[r].games[l])
BY DEF GameIdsAgree, GameAgrees

LEMMA AgreeStays ==
  ASSUME NEW r \in Relay, NEW l, NEW g, NEW f, GameAgrees(r, l, g), Grows,
         g.kind = "remote" => g.peer_id \in Relay, SameGame(g, f)
  PROVE  GameAgrees(r, l, f)'
BY DEF GameAgrees, Grows, SameGame

\* The tables, streams and channels after an effect.
LEMMA ApplyMoves ==
  ASSUME Inv, NEW r \in Relay, NEW e, Apply(r, e), ToPeers(tables[r], e),
         \A o \in e.out : o.msg \in NamedBy(r)',
         \A d \in e.deliver : d.data \in Data
  PROVE  /\ WireMoves /\ mail' \in [Conn -> Seq(Data)]
         /\ DOMAIN tables' = Relay /\ tables'[r] = e.relay
         /\ \A x \in Relay : x # r => tables'[x] = tables[x]
<1>1. TypeOK
  BY DEF Inv
<1>2. \A o \in e.out : o.to[2] = r
  BY DEF Inv, HandlesLead, Leads, ToPeers
<1>3. WireMoves
  <2>1. wire' = [h \in Handle |->
                   IF \E o \in e.out : o.to = h
                   THEN Pushed(h, (CHOOSE o \in e.out : o.to = h).msg) ELSE wire[h]]
    BY DEF Apply
  <2>2. wire' = [h \in Handle |-> wire'[h]]
    BY <2>1
  <2>3. ASSUME NEW h \in Handle
        PROVE  wire'[h] = wire[h] \/ \E m \in NamedBy(h[2])' : wire'[h] = Append(wire[h], m)
    <3>1. CASE ~ \E o \in e.out : o.to = h
      BY <2>1, <3>1
    <3>2. CASE \E o \in e.out : o.to = h
      <4>1. PICK o : o = (CHOOSE x \in e.out : x.to = h)
        OBVIOUS
      <4>2. o \in e.out /\ o.to = h
        BY <3>2, <4>1
      <4>3. wire'[h] = Pushed(h, o.msg)
        BY <2>1, <3>2, <4>1
      <4>4. o.msg \in NamedBy(h[2])'
        BY <1>2, <4>2
      <4>5. QED
        BY <4>3, <4>4 DEF Pushed
    <3>3. QED
      BY <3>1, <3>2
  <2>4. QED
    BY <2>2, <2>3 DEF WireMoves
<1>4. mail' \in [Conn -> Seq(Data)]
  <2>1. mail' = [c \in Conn |->
                   IF \E d \in e.deliver : d.tx = c
                   THEN Append(mail[c], (CHOOSE d \in e.deliver : d.tx = c).data) ELSE mail[c]]
    BY DEF Apply
  <2>2. ASSUME NEW c \in Conn PROVE mail'[c] \in Seq(Data)
    <3>1. mail[c] \in Seq(Data)
      BY <1>1 DEF TypeOK
    <3>2. CASE ~ \E d \in e.deliver : d.tx = c
      BY <2>1, <3>1, <3>2
    <3>3. CASE \E d \in e.deliver : d.tx = c
      <4>1. PICK d : d = (CHOOSE x \in e.deliver : x.tx = c)
        OBVIOUS
      <4>2. d \in e.deliver
        BY <3>3, <4>1
      <4>3. mail'[c] = Append(mail[c], d.data) /\ d.data \in Data
        BY <2>1, <3>3, <4>1, <4>2
      <4>4. QED
        BY <3>1, <4>3, SeqSteps
    <3>4. QED
      BY <3>2, <3>3
  <2>3. QED
    BY <2>1, <2>2
<1>5. /\ DOMAIN tables' = Relay /\ tables'[r] = e.relay
      /\ \A x \in Relay : x # r => tables'[x] = tables[x]
  BY <1>1 DEF Apply, TypeOK
<1>6. QED
  BY <1>3, <1>4, <1>5

\* A step of the main thread: what its effect has to satisfy.
LEMMA MainStep ==
  ASSUME Inv, NEW r \in Relay, NEW e, Apply(r, e),
         inbox[r] # <<>>, inbox' = [inbox EXCEPT ![r] = Tail(@)],
         UNCHANGED <<ends, adverts>>, RouteType', UNCHANGED <<sent, heard>>,
         conn' \in [Conn -> Thread], Grows,
         DOMAIN names' = Relay, \A x \in Relay : IsMap(names'[x], Nat, LanGame),
         \A x \in Relay : x # r => names'[x] = names[x],
         \A l \in DOMAIN names'[r] : l < e.relay.next_key,
         TablesInv(e.relay), KeepsIds(tables[r], e.relay), ToPeers(tables[r], e),
         \A p \in DOMAIN e.relay.peers : Leads(r, p, e.relay.peers[p]),
         \A o \in e.out : o.msg \in NamedBy(r)',
         \A d \in e.deliver : d.data \in Data,
         \A l \in DOMAIN e.relay.games :
           l >= tables[r].next_key => GameAgrees(r, l, e.relay.games[l])'
  PROVE  Inv'
<1>1. TypeOK
  BY DEF Inv
<1>2. /\ WireMoves /\ mail' \in [Conn -> Seq(Data)]
      /\ DOMAIN tables' = Relay /\ tables'[r] = e.relay
      /\ \A x \in Relay : x # r => tables'[x] = tables[x]
  BY ApplyMoves
<1>3. QueueMoves
  BY <1>1 DEF TypeOK, QueueMoves
<1>4. QueuesSound' /\ inbox' \in [Relay -> Seq(Message)]
  BY <1>1, <1>3, QueuesStaySound DEF Inv
<1>5. WiresSound' /\ wire' \in [Handle -> Seq(RelayMessage)]
  BY <1>1, <1>2, WiresStaySound DEF Inv
<1>6. \A x \in Relay : TablesInv(tables'[x])
  BY <1>1, <1>2 DEF TypeOK
<1>7. NamesGiven'
  BY <1>2 DEF NamesGiven, Inv
<1>8. HandlesLead'
  BY <1>2 DEF HandlesLead, Inv, Leads
<1>9. GameIdsAgree'
  <2>1. ASSUME NEW x \in Relay, NEW l, NEW g, l \in DOMAIN tables'[x].games, g = tables'[x].games[l]
        PROVE  GameAgrees(x, l, g)'
    <3>1. CASE x = r /\ l >= tables[r].next_key
      BY <1>2, <2>1, <3>1
    <3>2. CASE x # r \/ ~ (l >= tables[r].next_key)
      <4>1. PICK f : l \in DOMAIN tables[x].games /\ f = tables[x].games[l] /\ SameGame(f, g)
        <5>1. CASE x # r
          BY <1>2, <2>1, <5>1 DEF SameGame
        <5>2. CASE x = r
          <6>1. l \in DOMAIN e.relay.games /\ g = e.relay.games[l] /\ ~ (l >= tables[r].next_key)
            BY <1>2, <2>1, <3>2, <5>2
          <6>2. l \in DOMAIN tables[r].games /\ SameGame(tables[r].games[l], e.relay.games[l])
            BY <6>1 DEF KeepsIds
          <6>3. QED
            BY <5>2, <6>1, <6>2
        <5>3. QED
          BY <5>1, <5>2
      <4>2. GameAgrees(x, l, f)
        BY <4>1, AgreeIs DEF Inv
      <4>3. f.kind = "remote" => f.peer_id \in Relay
        <5>1. f \in LocalGame \cup RemoteGame
          BY <1>1, <4>1, TablesHold DEF TypeOK
        <5>2. QED
          BY <5>1 DEF LocalGame, RemoteGame
      <4>4. QED
        BY <4>1, <4>2, <4>3, AgreeStays
    <3>3. QED
      BY <3>1, <3>2
  <2>2. QED
    BY <2>1 DEF GameIdsAgree, GameAgrees
<1>10. TypeOK'
  BY <1>1, <1>2, <1>4, <1>5, <1>6 DEF TypeOK, RouteType
<1>11. QED
  BY <1>4, <1>5, <1>7, <1>8, <1>9, <1>10 DEF Inv

\* The head of a queue and what follows it.
LEMMA Taken ==
  ASSUME Inv, NEW r \in Relay, NEW type, Take(r, type)
  PROVE  /\ inbox[r] # <<>> /\ inbox' = [inbox EXCEPT ![r] = Tail(@)]
         /\ Head(inbox[r]) \in Message /\ Sound(r, Head(inbox[r])) /\ Head(inbox[r]).msg = type
<1>1. inbox[r] # <<>> /\ inbox' = [inbox EXCEPT ![r] = Tail(@)] /\ Head(inbox[r]).msg = type
  BY DEF Take
<1>2. inbox[r] \in Seq({m \in Message : Sound(r, m)})
  BY DEF Inv, QueuesSound
<1>3. Head(inbox[r]) \in {m \in Message : Sound(r, m)}
  BY <1>1, <1>2, SeqSteps
<1>4. QED
  BY <1>1, <1>3

\* A handler that names no game.
LEMMA QuietStep ==
  ASSUME Inv, NEW r \in Relay, NEW e, Apply(r, e),
         inbox[r] # <<>>, inbox' = [inbox EXCEPT ![r] = Tail(@)],
         UNCHANGED <<ends, adverts>>, RouteType', UNCHANGED <<sent, heard>>, names' = names,
         conn' \in [Conn -> Thread], \A c \in Conn : conn[c].st # "free" => conn'[c].st # "free",
         Quiet(tables[r], e),
         \A p \in DOMAIN e.relay.peers : Leads(r, p, e.relay.peers[p])
  PROVE  Inv'
<1>1. TypeOK /\ NamesGiven
  BY DEF Inv
<1>2. Grows
  BY DEF Grows
<1>3. DOMAIN names' = Relay /\ \A x \in Relay : IsMap(names'[x], Nat, LanGame)
  BY <1>1 DEF TypeOK
<1>4. /\ TablesInv(e.relay) /\ KeepsIds(tables[r], e.relay) /\ ToPeers(tables[r], e)
      /\ \A d \in e.deliver : d.data \in Data
      /\ e.relay.next_key = tables[r].next_key
  BY DEF Quiet
<1>5. \A l \in DOMAIN names'[r] : l < e.relay.next_key
  BY <1>1, <1>4 DEF NamesGiven
<1>6. \A o \in e.out : o.msg \in NamedBy(r)'
  BY DEF Quiet, NamedBy
<1>7. \A l \in DOMAIN e.relay.games : ~ (l >= tables[r].next_key)
  <2>1. ASSUME NEW l \in DOMAIN e.relay.games PROVE ~ (l >= tables[r].next_key)
    <3>1. l \in Nat /\ e.relay.next_key \in Nat /\ l < e.relay.next_key
      BY <1>4, TablesHold DEF TablesInv, RelayType
    <3>2. QED
      BY <1>4, <3>1
  <2>2. QED
    BY <2>1
<1>8. QED
  BY <1>2, <1>3, <1>4, <1>5, <1>6, <1>7, MainStep

\* The peers that are left are still where they were.
LEMMA FewerLead ==
  ASSUME Inv, NEW r \in Relay, NEW t, FewerPeers(tables[r], t)
  PROVE  \A p \in DOMAIN t.peers : Leads(r, p, t.peers[p])
BY DEF Inv, HandlesLead, FewerPeers

LEMMA RunPeerInv ==
  ASSUME Inv, NEW r \in Relay, RunPeer(r)
  PROVE  Inv'
<1>1. PICK m, s : m = Head(inbox[r]) /\ s = tables[r]
  OBVIOUS
<1>2. /\ UNCHANGED <<ends, adverts>> /\ RouteType' /\ UNCHANGED <<sent, heard>> /\ names' = names
      /\ conn' \in [Conn -> Thread] /\ conn' = conn /\ TablesInv(s)
  BY <1>1 DEF RunPeer, Inv, TypeOK, RouteType, history
<1>3. CASE /\ Take(r, "AddPeer")
           /\ Apply(r, Effect(add_peer(tables[r], Head(inbox[r]).peer, Head(inbox[r]).handle)))
  <2> DEFINE t == add_peer(s, m.peer, m.handle)
             e == Effect(t)
  <2>1. /\ inbox[r] # <<>> /\ inbox' = [inbox EXCEPT ![r] = Tail(@)]
        /\ m \in Message /\ Sound(r, m) /\ m.msg = "AddPeer"
    BY <1>1, <1>3, Taken
  <2>2. m.peer \in Relay /\ m.handle \in Handle /\ Leads(r, m.peer, m.handle)
    BY <2>1 DEF Sound, Message
  <2>3. Quiet(s, e) /\ t.peers = Insert(s.peers, m.peer, m.handle)
    BY <1>2, <2>2, AddPeerQuiet
  <2>4. Apply(r, e)
    BY <1>1, <1>3
  <2>5. e.relay = t
    BY DEF Effect
  <2> HIDE DEF t, e
  <2>6. \A p \in DOMAIN e.relay.peers : Leads(r, p, e.relay.peers[p])
    BY <1>1, <2>2, <2>3, <2>5 DEF Insert, Inv, HandlesLead
  <2>7. QED
    BY <1>1, <1>2, <2>1, <2>3, <2>4, <2>6, QuietStep
<1>4. CASE /\ Take(r, "RemovePeer")
           /\ Apply(r, Effect(remove_peer(tables[r], Head(inbox[r]).peer)))
  <2> DEFINE t == remove_peer(s, m.peer)
             e == Effect(t)
  <2>1. /\ inbox[r] # <<>> /\ inbox' = [inbox EXCEPT ![r] = Tail(@)]
        /\ m \in Message /\ m.msg = "RemovePeer"
    BY <1>1, <1>4, Taken
  <2>2. m.peer \in Relay
    BY <2>1 DEF Message
  <2>3. Quiet(s, e) /\ FewerPeers(s, t)
    BY <1>2, <2>2, RemovePeerQuiet
  <2>4. Apply(r, e)
    BY <1>1, <1>4
  <2>5. e.relay = t
    BY DEF Effect
  <2> HIDE DEF t, e
  <2>6. \A p \in DOMAIN e.relay.peers : Leads(r, p, e.relay.peers[p])
    BY <1>1, <2>3, <2>5, FewerLead
  <2>7. QED
    BY <1>1, <1>2, <2>1, <2>3, <2>4, <2>6, QuietStep
<1>5. QED
  BY <1>3, <1>4 DEF RunPeer

LEMMA RunAddGameConnectionInv ==
  ASSUME Inv, NEW r \in Relay, RunAddGameConnection(r)
  PROVE  Inv'
<1>1. PICK m, s, e : /\ m = Head(inbox[r]) /\ s = tables[r]
                     /\ e = add_game_connection(s, Live, m.peer, m.cid, m.conn)
  OBVIOUS
<1>2. /\ UNCHANGED <<ends, adverts>> /\ RouteType' /\ UNCHANGED <<sent, heard>> /\ names' = names
      /\ conn' \in [Conn -> Thread] /\ conn' = conn /\ TablesInv(s)
      /\ Take(r, "AddGameConnection") /\ Apply(r, e)
  BY <1>1 DEF RunAddGameConnection, Inv, TypeOK, RouteType, history
<1>3. /\ inbox[r] # <<>> /\ inbox' = [inbox EXCEPT ![r] = Tail(@)]
      /\ m \in Message /\ m.msg = "AddGameConnection"
  BY <1>1, <1>2, Taken
<1>4. m.peer \in Relay /\ m.cid \in ConnectionId /\ m.conn \in Conn
  BY <1>3 DEF Message
<1>5. Quiet(s, e) /\ FewerPeers(s, e.relay)
  BY <1>1, <1>2, <1>4, AddGameConnectionQuiet
<1>6. QED
  BY <1>1, <1>2, <1>3, <1>5, FewerLead, QuietStep

LEMMA RunCloseConnectionInv ==
  ASSUME Inv, NEW r \in Relay, RunCloseConnection(r)
  PROVE  Inv'
<1>1. PICK m, s, e : /\ m = Head(inbox[r]) /\ s = tables[r]
                     /\ e = handle_close_connection(s, m.peer, m.message)
  OBVIOUS
<1>2. /\ UNCHANGED <<ends, adverts>> /\ RouteType' /\ UNCHANGED <<sent, heard>> /\ names' = names
      /\ conn' \in [Conn -> Thread] /\ conn' = conn /\ TablesInv(s)
      /\ Take(r, "Recv") /\ Apply(r, e)
  BY <1>1 DEF RunCloseConnection, TakeRecv, Inv, TypeOK, RouteType, history
<1>3. inbox[r] # <<>> /\ inbox' = [inbox EXCEPT ![r] = Tail(@)]
  BY <1>2, Taken
<1>4. Quiet(s, e) /\ FewerPeers(s, e.relay)
  BY <1>1, <1>2, CloseQuiet
<1>5. QED
  BY <1>1, <1>2, <1>3, <1>4, FewerLead, QuietStep

LEMMA RunDataInv ==
  ASSUME Inv, NEW r \in Relay, RunData(r)
  PROVE  Inv'
<1>1. PICK m, s, e : /\ m = Head(inbox[r]) /\ s = tables[r]
                     /\ e = handle_data(s, Live, Open, m.peer, m.message)
  OBVIOUS
<1>2. /\ UNCHANGED <<ends, adverts>> /\ RouteType' /\ UNCHANGED <<sent, heard>> /\ names' = names
      /\ conn' \in [Conn -> Thread] /\ conn' = conn /\ TablesInv(s)
      /\ Take(r, "Recv") /\ Apply(r, e) /\ m.message.type = "Data"
  BY <1>1 DEF RunData, TakeRecv, Inv, TypeOK, RouteType, history
<1>3. /\ inbox[r] # <<>> /\ inbox' = [inbox EXCEPT ![r] = Tail(@)]
      /\ m \in Message /\ m.msg = "Recv"
  BY <1>1, <1>2, Taken
<1>4. m.message \in RelayMessage
  BY <1>3 DEF Message
<1>5. m.message.data \in Data
  BY <1>2, <1>4 DEF RelayMessage, RelayPing
<1>6. Quiet(s, e) /\ FewerPeers(s, e.relay)
  BY <1>1, <1>2, <1>5, DataQuiet
<1>7. QED
  BY <1>1, <1>2, <1>3, <1>6, FewerLead, QuietStep

\* The ways of players that a Connect continues.
LEMMA GoesType ==
  ASSUME TypeOK, NEW C, NEW e, Goes(C, e), Opens(e)
  PROVE  RouteType'
<1>1. \A h \in Handle : h[1] \in Session
  BY DEF Handle
<1>2. PICK o : o = (CHOOSE x \in e.out : TRUE)
  OBVIOUS
<1>3. e.out # {} => o.to[1] \in Session /\ o.msg.connection_id \in Nat
  BY <1>1, <1>2 DEF Opens
<1>4. route' = [c \in Player |->
                  IF e.out # {} /\ c \in C
                  THEN Append(route[c], <<o.to[1], o.msg.connection_id>>) ELSE route[c]]
  BY <1>2 DEF Goes
<1>5. \A c \in Player : route[c] \in Seq(Session \X Nat)
  BY DEF TypeOK
<1>6. ASSUME NEW c \in Player PROVE route'[c] \in Seq(Session \X Nat)
  <2>1. CASE e.out # {} /\ c \in C
    <3>1. PICK x : x = <<o.to[1], o.msg.connection_id>>
      OBVIOUS
    <3>2. x \in Session \X Nat /\ route'[c] = Append(route[c], x)
      BY <1>3, <1>4, <2>1, <3>1
    <3>3. QED
      BY <1>5, <3>2
  <2>2. CASE ~ (e.out # {} /\ c \in C)
    BY <1>4, <1>5, <2>2
  <2>3. QED
    BY <2>1, <2>2
<1>7. QED
  BY <1>4, <1>6 DEF RouteType

\* The thread that is started dials a game of this relay's LAN.
LEMMA RunConnectInv ==
  ASSUME Inv, NEW r \in Relay, RunConnect(r)
  PROVE  Inv'
<1>1. PICK m, s, e : /\ m = Head(inbox[r]) /\ s = tables[r]
                     /\ e = handle_connect(s, Live, m.peer, m.message)
  OBVIOUS
<1>2. /\ UNCHANGED <<ends, adverts>> /\ UNCHANGED <<sent, heard>> /\ names' = names
      /\ Take(r, "Recv") /\ Apply(r, e) /\ m.message.type = "Connect"
      /\ Goes(Come(s.peers[m.peer][1], m.message.connection_id), e)
  BY <1>1 DEF RunConnect, TakeRecv
<1>3. TypeOK /\ TablesInv(s)
  BY <1>1 DEF Inv, TypeOK
<1>4. /\ inbox[r] # <<>> /\ inbox' = [inbox EXCEPT ![r] = Tail(@)]
      /\ m \in Message /\ m.msg = "Recv"
  BY <1>1, <1>2, Taken
<1>5. m.peer \in Relay /\ m.message \in RelayMessage
  BY <1>4 DEF Message
<1>6. m.message.connection_id \in Nat /\ m.message.hops \in Nat
  BY <1>2, <1>5 DEF RelayMessage, RelayPing
<1>7. /\ Quiet(s, e) /\ FewerPeers(s, e.relay) /\ Opens(e)
      /\ \A t \in e.spawn :
           /\ t.cid \in ConnectionId /\ t.peer_tx \in Handle
           /\ m.message.game_id \in DOMAIN s.games /\ s.games[m.message.game_id].kind = "local"
           /\ t.addr = s.games[m.message.game_id].addr
  <2>1. PICK f, p, live : f = m.message /\ p = m.peer /\ live = Live
    OBVIOUS
  <2>2. p \in Relay /\ f.connection_id \in Nat /\ f.hops \in Nat
    BY <1>5, <1>6, <2>1
  <2>3. e = handle_connect(s, live, p, f)
    BY <1>1, <2>1
  <2>4. QED
    BY <1>3, <2>1, <2>2, <2>3, ConnectQuiet
<1>8. \A t \in e.spawn : t.addr \in LanGame
  <2>1. ASSUME NEW t \in e.spawn PROVE t.addr \in LanGame
    <3> DEFINE l == m.message.game_id
    <3>1. l \in DOMAIN names[r] /\ names[r][l] = t.addr
      BY <1>1, <1>7, <2>1 DEF Inv, GameIdsAgree
    <3>2. QED
      BY <1>3, <3>1 DEF TypeOK, IsMap
  <2>2. QED
    BY <2>1
<1>9. conn' \in [Conn -> Thread] /\ \A c \in Conn : conn[c].st # "free" => conn'[c].st # "free"
  <2>1. CASE conn' = conn
    BY <1>3, <2>1 DEF TypeOK
  <2>2. CASE conn' # conn
    <3>1. PICK c \in Dialed, t \in e.spawn :
            conn' = [conn EXCEPT ![c] =
              [st |-> "dialing", relay |-> r, game |-> t.addr, cid |-> t.cid, tx |-> t.peer_tx]]
      BY <1>1, <2>2 DEF RunConnect
    <3> DEFINE x == [st |-> "dialing", relay |-> r, game |-> t.addr, cid |-> t.cid, tx |-> t.peer_tx]
    <3>2. x \in Thread /\ x.st # "free"
      BY <1>7, <1>8, ThreadsMade
    <3> HIDE DEF x
    <3>3. conn' = [conn EXCEPT ![c] = x]
      BY <3>1 DEF x
    <3>4. QED
      BY <1>3, <3>2, <3>3 DEF TypeOK
  <2>3. QED
    BY <2>1, <2>2
<1>10. RouteType'
  BY <1>2, <1>3, <1>7, GoesType
<1>11. QED
  BY <1>1, <1>2, <1>4, <1>7, <1>9, <1>10, FewerLead, QuietStep

LEMMA RunAcceptGameConnectionInv ==
  ASSUME Inv, NEW r \in Relay, RunAcceptGameConnection(r)
  PROVE  Inv'
<1>1. PICK m, s, e : /\ m = Head(inbox[r]) /\ s = tables[r]
                     /\ e = accept_game_connection(s, Live, m.game, m.conn)
  OBVIOUS
<1>2. PICK c, old, t : c = m.conn /\ old = conn[c] /\ t = (CHOOSE x \in e.spawn : TRUE)
  OBVIOUS
<1> DEFINE new == [st |-> "waiting", relay |-> r, game |-> old.game, cid |-> t.cid, tx |-> t.peer_tx]
           x == IF e.spawn = {} THEN [old EXCEPT !.st = "closed"] ELSE new
<1>3. /\ UNCHANGED <<ends, adverts>> /\ UNCHANGED <<sent, heard>> /\ names' = names
      /\ Take(r, "AcceptGameConnection") /\ Apply(r, e) /\ Goes({c}, e)
  BY <1>1, <1>2 DEF RunAcceptGameConnection
<1>4. TypeOK /\ TablesInv(s)
  BY <1>1 DEF Inv, TypeOK
<1>5. /\ inbox[r] # <<>> /\ inbox' = [inbox EXCEPT ![r] = Tail(@)]
      /\ m \in Message /\ m.msg = "AcceptGameConnection" /\ Sound(r, m)
  BY <1>1, <1>3, Taken
<1>6. c \in Conn /\ old \in Thread /\ old.st # "free"
  <2>1. c \in Conn
    BY <1>2, <1>5 DEF Message
  <2>2. QED
    BY <1>2, <1>4, <1>5, <2>1 DEF Sound, TypeOK
<1>7. conn' = [conn EXCEPT ![c] = x]
  <2>1. conn' = [conn EXCEPT ![c] =
             IF e.spawn = {} THEN [@ EXCEPT !.st = "closed"]
             ELSE LET y == CHOOSE y \in e.spawn : TRUE
                  IN [st |-> "waiting", relay |-> r, game |-> @.game, cid |-> y.cid,
                      tx |-> y.peer_tx]]
    BY <1>1, <1>2 DEF RunAcceptGameConnection, FirstState
  <2>2. QED
    BY <1>2, <1>4, <1>6, <2>1 DEF TypeOK
<1>8. /\ Quiet(s, e) /\ FewerPeers(s, e.relay) /\ Opens(e)
      /\ \A y \in e.spawn : y.cid \in ConnectionId /\ y.peer_tx \in Handle
  BY <1>1, <1>2, <1>4, <1>6, AcceptQuiet
<1>9. x \in Thread /\ x.st # "free"
  <2>1. old.game \in LanGame /\ [old EXCEPT !.st = "closed"] \in Thread
        /\ [old EXCEPT !.st = "closed"].st # "free"
    BY <1>6, ThreadParts
  <2>2. e.spawn # {} => new \in Thread /\ new.st # "free"
    BY <1>2, <1>8, <2>1, ThreadsMade
  <2> HIDE DEF new
  <2>3. QED
    BY <2>1, <2>2
<1> HIDE DEF x
<1>10. conn' \in [Conn -> Thread] /\ \A y \in Conn : conn[y].st # "free" => conn'[y].st # "free"
  BY <1>4, <1>6, <1>7, <1>9 DEF TypeOK
<1>11. RouteType'
  BY <1>3, <1>4, <1>8, GoesType
<1>12. QED
  BY <1>1, <1>3, <1>5, <1>8, <1>10, <1>11, FewerLead, QuietStep

\* A relay names a game: by a new id, or again what the id stands for already.
LEMMA Named ==
  ASSUME TypeOK, NEW r \in Relay, NEW l \in Nat, NEW g \in LanGame, conn' = conn,
         names' = [names EXCEPT ![r] = Insert(@, l, g)],
         l \in DOMAIN names[r] => names[r][l] = g
  PROVE  /\ Grows /\ DOMAIN names' = Relay /\ \A x \in Relay : IsMap(names'[x], Nat, LanGame)
         /\ \A x \in Relay : x # r => names'[x] = names[x]
         /\ DOMAIN names'[r] = DOMAIN names[r] \cup {l} /\ names'[r][l] = g
<1>1. /\ DOMAIN names' = Relay /\ names'[r] = Insert(names[r], l, g)
      /\ \A x \in Relay : x # r => names'[x] = names[x]
  BY DEF TypeOK
<1>2. /\ DOMAIN names'[r] = DOMAIN names[r] \cup {l} /\ names'[r][l] = g
      /\ \A k \in DOMAIN names[r] : names'[r][k] = names[r][k]
  BY <1>1 DEF Insert
<1>3. Grows
  BY <1>1, <1>2 DEF Grows
<1>4. IsMap(names'[r], Nat, LanGame)
  <2>1. IsMap(names[r], Nat, LanGame)
    BY DEF TypeOK
  <2>2. QED
    BY <1>1, <2>1 DEF IsMap, Insert
<1>5. \A x \in Relay : IsMap(names'[x], Nat, LanGame)
  BY <1>1, <1>4 DEF TypeOK
<1>6. QED
  BY <1>1, <1>2, <1>3, <1>5

\* A handler that names one game.
LEMMA NamingStep ==
  ASSUME Inv, NEW r \in Relay, NEW e, Apply(r, e), NEW l \in Nat, NEW g \in LanGame,
         inbox[r] # <<>>, inbox' = [inbox EXCEPT ![r] = Tail(@)],
         UNCHANGED <<ends, adverts>>, RouteType', UNCHANGED <<sent, heard>>, conn' = conn,
         names' = [names EXCEPT ![r] = Insert(@, l, g)],
         TablesInv(e.relay), KeepsIds(tables[r], e.relay), ToPeers(tables[r], e),
         FewerPeers(tables[r], e.relay), e.deliver = {},
         \A o \in e.out : \E n \in Nat : o.msg = RelayGame(l, n),
         \/ l = tables[r].next_key /\ e.relay.next_key = KeyAfter(tables[r])
         \/ /\ e.relay.next_key = tables[r].next_key
            /\ l \in DOMAIN tables[r].games /\ names[r][l] = g,
         Grows => GameAgrees(r, l, e.relay.games[l])'
  PROVE  Inv' /\ Grows
<1> DEFINE k == tables[r].next_key
<1>1. TypeOK /\ NamesGiven /\ TablesInv(tables[r])
  BY DEF Inv, TypeOK
<1>2. k \in Nat
  BY <1>1 DEF TablesInv, RelayType
<1>3. \A x \in DOMAIN names[r] : x \in Nat /\ x < k
  BY <1>1 DEF NamesGiven, TypeOK, IsMap
<1>4. e.relay.next_key \in Nat /\ k <= e.relay.next_key /\ l < e.relay.next_key
  <2>1. l \in DOMAIN tables[r].games => l < k
    BY <1>1 DEF TablesInv
  <2>2. QED
    BY <1>2, <2>1 DEF KeyAfter
<1> HIDE DEF k
<1>5. l \in DOMAIN names[r] => names[r][l] = g
  <2>1. l = k => l \notin DOMAIN names[r]
    BY <1>2, <1>3
  <2>2. QED
    BY <2>1 DEF k
<1>6. /\ Grows /\ DOMAIN names' = Relay /\ \A x \in Relay : IsMap(names'[x], Nat, LanGame)
      /\ \A x \in Relay : x # r => names'[x] = names[x]
      /\ DOMAIN names'[r] = DOMAIN names[r] \cup {l} /\ names'[r][l] = g
  <2>1. /\ r \in Relay /\ l \in Nat /\ g \in LanGame /\ conn' = conn
        /\ names' = [names EXCEPT ![r] = Insert(@, l, g)]
    OBVIOUS
  <2>2. QED
    BY ONLY <1>1, <1>5, <2>1, Named
<1>7. \A x \in DOMAIN names'[r] : x < e.relay.next_key
  <2>1. ASSUME NEW x \in DOMAIN names[r] PROVE x < e.relay.next_key
    <3>1. x \in Nat /\ x < k
      BY <1>3
    <3>2. QED
      BY <1>2, <1>4, <3>1
  <2>2. QED
    BY <1>4, <1>6, <2>1
<1>8. \A o \in e.out : o.msg \in NamedBy(r)'
  BY <1>6, MessagesMade DEF NamedBy
<1>9. ASSUME NEW x \in DOMAIN e.relay.games, x >= k
      PROVE  x = l
  <2>1. x \in Nat /\ x < e.relay.next_key
    BY TablesHold DEF TablesInv
  <2>2. CASE e.relay.next_key = k
    BY <1>2, <1>9, <2>1, <2>2
  <2>3. CASE l = k /\ e.relay.next_key = k + 1
    BY <1>2, <1>9, <2>1, <2>3
  <2>4. QED
    BY <2>2, <2>3 DEF k, KeyAfter
<1>10. \A x \in DOMAIN e.relay.games :
         x >= tables[r].next_key => GameAgrees(r, x, e.relay.games[x])'
  BY <1>6, <1>9 DEF k
<1>11. conn' \in [Conn -> Thread]
  BY <1>1 DEF TypeOK
<1>12. \A d \in e.deliver : d.data \in Data
  OBVIOUS
<1>13. QED
  BY <1>6, <1>7, <1>8, <1>10, <1>11, <1>12, FewerLead, MainStep

LEMMA RunAddLocalGameInv ==
  ASSUME Inv, NEW r \in Relay, RunAddLocalGame(r)
  PROVE  Inv' /\ Grows
<1>1. PICK m, s, e : /\ m = Head(inbox[r]) /\ s = tables[r]
                     /\ e = add_local_game(s, Live, m.from, m.port)
  OBVIOUS
<1> DEFINE addr == [ip |-> m.from.ip, port |-> m.port]
           l == e.relay.local_games[addr]
<1>2. /\ UNCHANGED <<ends, adverts>> /\ RouteType' /\ UNCHANGED <<sent, heard>> /\ conn' = conn
      /\ Take(r, "AddLocalGame") /\ Apply(r, e)
      /\ names' = [names EXCEPT ![r] = Insert(@, l, addr)]
  BY <1>1 DEF RunAddLocalGame, Inv, TypeOK, RouteType
<1>3. TypeOK /\ TablesInv(s)
  BY <1>1 DEF Inv, TypeOK
<1>4. /\ inbox[r] # <<>> /\ inbox' = [inbox EXCEPT ![r] = Tail(@)]
      /\ m \in Message /\ m.msg = "AddLocalGame" /\ Sound(r, m)
  BY <1>1, <1>2, Taken
<1>5. m.from \in SocketAddr /\ m.port \in Nat /\ m.from.port # 0 /\ addr \in LanGame
  <2>1. m.from \in SocketAddr /\ m.port \in Nat
    BY <1>4 DEF Message
  <2>2. QED
    BY <1>4, <2>1 DEF Sound
<1>6. /\ TablesInv(e.relay) /\ KeepsIds(s, e.relay)
      /\ addr \in DOMAIN e.relay.local_games /\ l \in Nat
      /\ \/ l = s.next_key /\ e.relay.next_key = KeyAfter(s)
         \/ /\ e.relay.next_key = s.next_key
            /\ addr \in DOMAIN s.local_games /\ l = s.local_games[addr]
      /\ FewerPeers(s, e.relay) /\ ToPeers(s, e)
      /\ e.deliver = {} /\ \A o \in e.out : o.msg = RelayGame(l, 0)
  <2>1. PICK from, port, live : from = m.from /\ port = m.port /\ live = Live
    OBVIOUS
  <2>2. /\ TablesInv(s) /\ from \in SocketAddr /\ from.port # 0 /\ port \in Nat
        /\ e = add_local_game(s, live, from, port) /\ addr = [ip |-> from.ip, port |-> port]
    BY <1>1, <1>3, <1>5, <2>1
  <2> HIDE DEF addr
  <2>3. TablesInv(e.relay) /\ KeepsIds(s, e.relay) /\ addr \in DOMAIN e.relay.local_games /\ l \in Nat
    BY ONLY <2>2, AddLocalGameIs
  <2>4. \/ l = s.next_key /\ e.relay.next_key = KeyAfter(s)
        \/ /\ e.relay.next_key = s.next_key
           /\ addr \in DOMAIN s.local_games /\ l = s.local_games[addr]
    BY ONLY <2>2, AddLocalGameIs
  <2>5. /\ FewerPeers(s, e.relay) /\ ToPeers(s, e)
        /\ e.deliver = {} /\ \A o \in e.out : o.msg = RelayGame(l, 0)
    BY ONLY <2>2, AddLocalGameIs
  <2>6. QED
    BY <2>3, <2>4, <2>5
<1>7. addr \in DOMAIN s.local_games /\ l = s.local_games[addr] =>
        l \in DOMAIN s.games /\ names[r][l] = addr
  <2>1. ASSUME addr \in DOMAIN s.local_games, l = s.local_games[addr]
        PROVE  l \in DOMAIN s.games /\ s.games[l] = Local(addr)
    BY <1>3, <2>1 DEF TablesInv, LanGamesAgree
  <2>2. ASSUME l \in DOMAIN s.games, s.games[l] = Local(addr)
        PROVE  names[r][l] = addr
    <3>1. s.games[l].kind = "local" /\ s.games[l].addr = addr
      BY <2>2 DEF Local
    <3> HIDE DEF l, addr
    <3>2. QED
      BY <1>1, <2>2, <3>1 DEF Inv, GameIdsAgree
  <2>3. QED
    BY <2>1, <2>2
<1>8. e.relay.games[l] = Local(addr)
  BY <1>6 DEF TablesInv, LanGamesAgree
<1>9. \A o \in e.out : \E n \in Nat : o.msg = RelayGame(l, n)
  BY <1>6
<1> HIDE DEF addr, l
<1>10. l \in DOMAIN names'[r] /\ names'[r][l] = addr
  BY <1>2, <1>3 DEF TypeOK, Insert
<1>11. PICK a, k : a = addr /\ k = l
  OBVIOUS
<1>12. GameAgrees(r, k, e.relay.games[k])'
  BY <1>8, <1>10, <1>11 DEF GameAgrees, Local
<1>13. QED
  BY <1>1, <1>2, <1>4, <1>5, <1>6, <1>7, <1>9, <1>11, <1>12, NamingStep

LEMMA RunGameInv ==
  ASSUME Inv, NEW r \in Relay, RunGame(r)
  PROVE  Inv' /\ Grows
<1>1. PICK p, m, s, x : /\ p = Head(inbox[r]).peer /\ m = Head(inbox[r]).message /\ s = tables[r]
                        /\ x = {[id |-> s.next_key, port |-> s.next_key]}
  OBVIOUS
<1>2. PICK e : e = handle_game(s, Live, p, m, Nat, x)
  OBVIOUS
<1>3. PICK g : g = names[p][m.id]
  OBVIOUS
<1> DEFINE l == e.relay.peer_games[<<p, m.id>>]
<1>4. /\ UNCHANGED <<ends, adverts>> /\ RouteType' /\ UNCHANGED <<sent, heard>> /\ conn' = conn
      /\ Take(r, "Recv") /\ Apply(r, e) /\ m.type = "Game"
      /\ names' = IF p \in DOMAIN s.peers THEN [names EXCEPT ![r] = Insert(@, l, g)] ELSE names
  BY <1>1, <1>2, <1>3 DEF RunGame, TakeRecv, Inv, TypeOK, RouteType
<1>5. TypeOK /\ TablesInv(s)
  BY <1>1 DEF Inv, TypeOK
<1>6. /\ inbox[r] # <<>> /\ inbox' = [inbox EXCEPT ![r] = Tail(@)]
      /\ Head(inbox[r]) \in Message /\ Head(inbox[r]).msg = "Recv" /\ Sound(r, Head(inbox[r]))
  BY <1>4, Taken
<1>7. p \in Relay /\ m \in RelayMessage /\ m.id \in DOMAIN names[p]
  <2>1. p \in Relay /\ m \in RelayMessage
    BY <1>1, <1>6 DEF Message
  <2>2. QED
    BY <1>1, <1>4, <1>6, <2>1 DEF Sound, NamedBy
<1>8. m.id \in Nat /\ m.hops \in Nat
  BY <1>4, <1>7 DEF RelayMessage, RelayPing
<1>9. g \in LanGame
  BY <1>3, <1>5, <1>7 DEF TypeOK, IsMap
<1>10. CASE p \notin DOMAIN s.peers
  <2>1. e = Effect(s) /\ names' = names
    BY <1>2, <1>4, <1>10 DEF handle_game
  <2>2. Quiet(s, e) /\ FewerPeers(s, e.relay)
    BY <1>5, <2>1, SelfQuiet
  <2>3. conn' \in [Conn -> Thread]
    BY <1>4, <1>5 DEF TypeOK
  <2>4. Grows
    BY <1>4, <2>1 DEF Grows
  <2>5. QED
    BY <1>1, <1>4, <1>6, <2>1, <2>2, <2>3, <2>4, FewerLead, QuietStep
<1>11. CASE p \in DOMAIN s.peers
  <2>1. x \in SUBSET Listener
    BY <1>1, <1>5 DEF TablesInv, RelayType, Listener
  <2>2. /\ TablesInv(e.relay) /\ KeepsIds(s, e.relay)
        /\ <<p, m.id>> \in DOMAIN e.relay.peer_games /\ l \in Nat
        /\ \/ l = s.next_key /\ e.relay.next_key = KeyAfter(s)
           \/ /\ e.relay.next_key = s.next_key
              /\ <<p, m.id>> \in DOMAIN s.peer_games /\ l = s.peer_games[<<p, m.id>>]
        /\ FewerPeers(s, e.relay) /\ ToPeers(s, e)
        /\ e.deliver = {} /\ \A o \in e.out : \E n \in Nat : o.msg = RelayGame(l, n)
    <3>1. PICK live, alive : live = Live /\ alive = Nat
      OBVIOUS
    <3>2. /\ TablesInv(s) /\ p \in DOMAIN s.peers /\ m.id \in Nat /\ m.hops \in Nat
          /\ x \in SUBSET Listener /\ e = handle_game(s, live, p, m, alive, x)
      BY <1>2, <1>5, <1>8, <1>11, <2>1, <3>1
    <3>3. NamesPeerGame(s, e, <<p, m.id>>)
      BY <3>2, HandleGameIs
    <3>4. QED
      BY <3>3 DEF NamesPeerGame
  <2>3. <<p, m.id>> \in DOMAIN s.peer_games /\ l = s.peer_games[<<p, m.id>>] =>
          l \in DOMAIN s.games /\ names[r][l] = g
    <3>1. ASSUME <<p, m.id>> \in DOMAIN s.peer_games, l = s.peer_games[<<p, m.id>>]
          PROVE  /\ l \in DOMAIN s.games /\ s.games[l].kind = "remote"
                 /\ s.games[l].peer_id = p /\ s.games[l].remote_game_id = m.id
      BY <1>5, <3>1 DEF TablesInv, PeerGamesAgree
    <3>2. QED
      BY <1>1, <1>3, <3>1 DEF Inv, GameIdsAgree
  <2>4. /\ e.relay.games[l].kind = "remote" /\ e.relay.games[l].peer_id = p
        /\ e.relay.games[l].remote_game_id = m.id
    BY <2>2 DEF TablesInv, PeerGamesAgree
  <2> HIDE DEF l
  <2>7. l \in DOMAIN names'[r] /\ names'[r][l] = g
    BY <1>4, <1>5, <1>11 DEF TypeOK, Insert
  <2>8. PICK k : k = l
    OBVIOUS
  <2>9. Grows => GameAgrees(r, k, e.relay.games[k])'
    <3>1. Grows => m.id \in DOMAIN names'[p] /\ names'[p][m.id] = g
      BY <1>3, <1>7 DEF Grows
    <3>2. QED
      BY <2>4, <2>7, <2>8, <3>1 DEF GameAgrees
  <2>10. names' = [names EXCEPT ![r] = Insert(@, k, g)]
    BY <1>4, <1>11, <2>8
  <2>11. QED
    <3>1. /\ k \in Nat /\ \A o \in e.out : \E n \in Nat : o.msg = RelayGame(k, n)
          /\ \/ k = s.next_key /\ e.relay.next_key = KeyAfter(s)
             \/ /\ e.relay.next_key = s.next_key
                /\ k \in DOMAIN s.games /\ names[r][k] = g
      BY <2>2, <2>3, <2>8
    <3>2. QED
      BY <1>1, <1>4, <1>6, <1>9, <2>2, <2>9, <2>10, <3>1, NamingStep
<1>12. QED
  BY <1>10, <1>11

-----------------------------------------------------------------------------
(* The theorems. *)

LEMMA InitInv == Init => Inv
<1> SUFFICES ASSUME Init PROVE Inv
  OBVIOUS
<1>1. TablesInv(NewRelay)
  <2>1. NewRelay = T!NewRelay
    BY DEF NewRelay, EmptyMap, T!NewRelay, T!EmptyMap
  <2>2. QED
    BY <2>1, TablesAssumptions, SameTables, T!NewRelayInv
<1>2. /\ DOMAIN tables = Relay /\ DOMAIN names = Relay
      /\ \A r \in Relay : tables[r] = NewRelay /\ names[r] = EmptyMap /\ inbox[r] = <<>>
      /\ \A h \in Handle : wire[h] = <<>>
  BY DEF Init
<1>3. DOMAIN EmptyMap = {} /\ NewRelay.games = EmptyMap /\ NewRelay.peers = EmptyMap
  BY DEF NewRelay, EmptyMap
<1>4. IsMap(EmptyMap, Nat, LanGame)
  BY DEF IsMap, EmptyMap
<1>5. [st |-> "free"] \in Thread
  BY DEF Thread
<1>6. 0 \in 0..MaxChunks /\ 0 \in 0..MaxAdverts
  BY NetworkAssumption
<1>7. TypeOK
  <2>1. conn \in [Conn -> Thread] /\ sent \in [Conn -> 0..MaxChunks] /\ adverts \in [LanGame -> 0..MaxAdverts]
    BY <1>5, <1>6 DEF Init
  <2>2. mail \in [Conn -> Seq(Data)] /\ heard \in [Conn -> Seq(Data)]
    BY DEF Init
  <2>3. inbox \in [Relay -> Seq(Message)] /\ wire \in [Handle -> Seq(RelayMessage)]
    BY DEF Init
  <2>4. ends \in [Handle -> {"new", "up", "dropped", "closed"}]
    BY DEF Init
  <2>5. route \in [Player -> Seq(Session \X Nat)]
    BY DEF Init
  <2>6. QED
    BY <1>1, <1>2, <1>4, <2>1, <2>2, <2>3, <2>4, <2>5 DEF TypeOK
<1>8. GameIdsAgree /\ NamesGiven /\ HandlesLead
  BY <1>2, <1>3 DEF GameIdsAgree, NamesGiven, HandlesLead
<1>9. QueuesSound
  BY <1>2, EmptySeq DEF QueuesSound
<1>10. WiresSound
  BY <1>2, EmptySeq DEF WiresSound
<1>11. QED
  BY <1>7, <1>8, <1>9, <1>10 DEF Inv

LEMMA RunInv ==
  ASSUME Inv, NEW r \in Relay, Run(r)
  PROVE  Inv'
BY RunPeerInv, RunAddLocalGameInv, RunGameInv, RunConnectInv, RunDataInv, RunCloseConnectionInv,
   RunAcceptGameConnectionInv, RunAddGameConnectionInv DEF Run

LEMMA NextInv == Inv /\ [Next]_vars => Inv'
<1> SUFFICES ASSUME Inv, [Next]_vars PROVE Inv'
  OBVIOUS
<1>1. CASE \E h \in Handle : Establish(h) \/ Receive(h) \/ Drop(h) \/ Release(h)
  BY <1>1, EstablishInv, ReceiveInv, DropInv, ReleaseInv
<1>2. CASE \E r \in Relay : Run(r)
  BY <1>2, RunInv
<1>3. CASE \E g \in LanGame : Advertise(g)
  BY <1>3, AdvertiseInv
<1>4. CASE \E c \in Player, r \in Relay : \E l \in DOMAIN tables[r].games : Connect(c, r, l)
  BY <1>4, ConnectInv
<1>5. CASE \E c \in Dialed : DialOk(c) \/ DialFail(c)
  <2>1. PICK c \in Dialed : DialOk(c) \/ DialFail(c)
    BY <1>5
  <2>2. c \in Conn
    BY DEF Conn
  <2>3. DialFail(c) => conn[c].st = "dialing" /\ End(c)
    BY DEF DialFail
  <2>4. QED
    BY <2>1, <2>2, <2>3, DialOkInv, EndInv
<1>6. CASE \E c \in Conn : Write(c) \/ Read(c) \/ Eof(c) \/ Disconnected(c)
  <2>1. PICK c \in Conn : Write(c) \/ Read(c) \/ Eof(c) \/ Disconnected(c)
    BY <1>6
  <2>2. Eof(c) \/ Disconnected(c) => conn[c].st \in {"waiting", "running"} /\ End(c)
    BY DEF Eof, Disconnected
  <2>3. QED
    BY <2>1, <2>2, WriteInv, ReadInv, EndInv
<1>7. CASE UNCHANGED vars
  <2>1. /\ UNCHANGED <<tables, names>> /\ UNCHANGED <<ends, adverts, route>> /\ UNCHANGED threads
        /\ inbox' = inbox /\ wire' = wire /\ conn' = conn
    BY <1>7 DEF vars, threads
  <2>2. TypeOK
    BY DEF Inv
  <2>3. QED
    BY <2>1, <2>2, OutsideStep, Untouched
<1>8. QED
  BY <1>1, <1>2, <1>3, <1>4, <1>5, <1>6, <1>7 DEF Next

\* The state has its type in every behaviour, on every topology: in particular
\* the tables of every relay stay consistent (TablesInv) whatever order the
\* sessions deliver in, and connect_local only ever dials games of a LAN.
THEOREM TypeCorrect == Spec => []TypeOK
<1>1. Inv => TypeOK
  BY DEF Inv
<1>2. QED
  BY <1>1, InitInv, NextInv, PTL DEF Spec

\* What a relay calls a game leads, peer by peer, to that game, for any number
\* of relays, sessions and advertisements and however sessions break and come
\* back (Relay::add_game, add_local_game, remove_peer).
THEOREM GamesEverywhere == Spec => []GameIdsAgree
<1>1. Inv => GameIdsAgree
  BY DEF Inv
<1>2. QED
  BY <1>1, InitInv, NextInv, PTL DEF Spec

=============================================================================
