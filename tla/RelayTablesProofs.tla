-------------------------- MODULE RelayTablesProofs --------------------------
(***************************************************************************)
(* Every method of the main thread keeps the tables consistent (TablesInv) *)
(* and never gives an id that it has handed out another meaning (KeepsIds).*)
(***************************************************************************)
EXTENDS RelayTables, TLAPS

-----------------------------------------------------------------------------
(* Maps. *)

\* Insert puts one value of the range under one key of the domain.
LEMMA InsertMap ==
  ASSUME NEW f, NEW D, NEW R, IsMap(f, D, R), NEW k \in D, NEW v \in R
  PROVE  IsMap(Insert(f, k, v), D, R)
BY DEF IsMap, Insert

\* Taking keys away leaves a map.
LEMMA RestrictMap ==
  ASSUME NEW f, NEW D, NEW R, IsMap(f, D, R), NEW S, S \subseteq DOMAIN f
  PROVE  IsMap(Restrict(f, S), D, R)
BY DEF IsMap, Restrict

\* Remove takes one key away.
LEMMA RemoveMap ==
  ASSUME NEW f, NEW D, NEW R, IsMap(f, D, R), NEW k
  PROVE  IsMap(Remove(f, k), D, R)
BY RestrictMap DEF Remove

\* ForgetPeers takes the keys of some peers away.
LEMMA ForgetMap ==
  ASSUME NEW f, NEW D, NEW R, IsMap(f, D, R), NEW P
  PROVE  IsMap(ForgetPeers(f, P), D, R)
BY RestrictMap DEF ForgetPeers, RestrictDomain

\* The empty table maps anything to anything.
LEMMA EmptyIsMap ==
  ASSUME NEW D, NEW R
  PROVE  IsMap(EmptyMap, D, R)
BY DEF IsMap, EmptyMap

-----------------------------------------------------------------------------
(* Tables that differ only in what is not about games. *)

\* A method that leaves the five tables about peers and games alone keeps
\* what they say about each other.
LEMMA SameGames ==
  ASSUME NEW s, NEW t, TablesInv(s), RelayType(t),
         DOMAIN t.next_connection_id = DOMAIN t.peers,
         t.peers = s.peers, t.peer_games = s.peer_games, t.games = s.games,
         t.next_key = s.next_key, t.local_games = s.local_games
  PROVE  TablesInv(t) /\ KeepsIds(s, t)
<1>1. KeepsIds(s, t)
  BY DEF KeepsIds, SameGame, RelayType
<1>2. TablesInv(t)
  BY DEF TablesInv, PeerGamesAgree, LanGamesAgree
<1>3. QED
  BY <1>1, <1>2

\* No step at all keeps all ids.
LEMMA KeepsIdsRefl ==
  ASSUME NEW s, TablesInv(s)
  PROVE  KeepsIds(s, s)
BY DEF KeepsIds, SameGame, TablesInv, RelayType

\* Steps that keep the meaning of ids compose.
LEMMA KeepsIdsTrans ==
  ASSUME NEW s, NEW t, NEW u, TablesInv(s), TablesInv(t), TablesInv(u),
         KeepsIds(s, t), KeepsIds(t, u)
  PROVE  KeepsIds(s, u)
<1>0. /\ s.next_key \in Nat /\ t.next_key \in Nat /\ u.next_key \in Nat
      /\ DOMAIN u.games \subseteq Nat
  BY DEF TablesInv, RelayType, IsMap
<1> SUFFICES ASSUME NEW l \in DOMAIN u.games, ~ (l >= s.next_key)
             PROVE  l \in DOMAIN s.games /\ SameGame(s.games[l], u.games[l])
  BY <1>0 DEF KeepsIds
<1>1. l \in DOMAIN t.games /\ SameGame(t.games[l], u.games[l])
  BY <1>0 DEF KeepsIds
<1>2. l \in DOMAIN s.games /\ SameGame(s.games[l], t.games[l])
  BY <1>1 DEF KeepsIds
<1>3. QED
  BY <1>1, <1>2 DEF SameGame

-----------------------------------------------------------------------------
(* Peers. *)

\* Relay::new starts with consistent tables.
LEMMA NewRelayInv == TablesInv(NewRelay)
<1>1. RelayType(NewRelay)
  BY EmptyIsMap DEF RelayType, NewRelay, RelayFields
<1>2. QED
  BY <1>1 DEF TablesInv, NewRelay, EmptyMap, PeerGamesAgree, LanGamesAgree

\* add_peer replaces one peer and forgets what the old one had advertised.
LEMMA AddPeerInv ==
  ASSUME NEW s, TablesInv(s), NEW p \in PeerId, NEW h \in Handle
  PROVE  TablesInv(add_peer(s, p, h)) /\ KeepsIds(s, add_peer(s, p, h))
<1> DEFINE t == add_peer(s, p, h)
<1>1. /\ DOMAIN t = RelayFields
      /\ t.peers = Insert(s.peers, p, h)
      /\ t.peer_games = ForgetPeers(s.peer_games, {p})
      /\ t.local_connections = ForgetPeers(s.local_connections, {p})
      /\ t.relayed_connections = ForgetPeers(s.relayed_connections, {p})
      /\ t.next_connection_id = Insert(s.next_connection_id, p, [id |-> 0, local |-> FALSE])
      /\ t.games = s.games /\ t.next_key = s.next_key
      /\ t.local_games = s.local_games /\ t.listen_ports = s.listen_ports
  BY DEF add_peer, FirstConnectionId, TablesInv, RelayType, RelayFields
<1>2. RelayType(t)
  <2>1. [id |-> 0, local |-> FALSE] \in ConnectionId
    BY DEF ConnectionId
  <2>2. QED
    BY <1>1, <2>1, InsertMap, ForgetMap DEF TablesInv, RelayType
<1>3. DOMAIN t.next_connection_id = DOMAIN t.peers
  BY <1>1 DEF TablesInv, Insert
<1>4. PeerGamesAgree(t)
  BY <1>1 DEF TablesInv, PeerGamesAgree, ForgetPeers, RestrictDomain, Restrict, Insert
<1>5. LanGamesAgree(t)
  BY <1>1 DEF TablesInv, LanGamesAgree
<1>6. QED
  BY <1>1, <1>2, <1>3, <1>4, <1>5 DEF TablesInv, KeepsIds, SameGame, RelayType

\* remove_peer, for any number of peers, takes away the games these peers
\* have advertised and no other.
LEMMA RemovePeersInv ==
  ASSUME NEW s, TablesInv(s), NEW P
  PROVE  /\ TablesInv(remove_peers(s, P)) /\ KeepsIds(s, remove_peers(s, P))
         /\ remove_peers(s, P).next_key = s.next_key
<1> DEFINE t == remove_peers(s, P)
           gone == {s.peer_games[k] : k \in {x \in DOMAIN s.peer_games : x[1] \in P}}
<1>1. /\ DOMAIN t = RelayFields
      /\ t.peers = Restrict(s.peers, DOMAIN s.peers \ P)
      /\ t.peer_games = ForgetPeers(s.peer_games, P)
      /\ t.local_connections = ForgetPeers(s.local_connections, P)
      /\ t.relayed_connections = ForgetPeers(s.relayed_connections, P)
      /\ t.next_connection_id = Restrict(s.next_connection_id, DOMAIN s.next_connection_id \ P)
      /\ t.games = Restrict(s.games, DOMAIN s.games \ gone)
      /\ t.next_key = s.next_key /\ t.local_games = s.local_games
      /\ t.listen_ports \subseteq s.listen_ports
  BY DEF remove_peers, games_of, TablesInv, RelayType, RelayFields
<1>2. RelayType(t)
  BY <1>1, RestrictMap, ForgetMap DEF TablesInv, RelayType
<1>3. DOMAIN t.next_connection_id = DOMAIN t.peers
  BY <1>1 DEF TablesInv, Restrict
<1>4. PeerGamesAgree(t)
  <2> SUFFICES ASSUME NEW k \in DOMAIN t.peer_games
               PROVE  LET l == t.peer_games[k]
                      IN /\ k[1] \in DOMAIN t.peers
                         /\ l \in DOMAIN t.games
                         /\ t.games[l].kind = "remote"
                         /\ t.games[l].peer_id = k[1]
                         /\ t.games[l].remote_game_id = k[2]
    BY DEF PeerGamesAgree
  <2>1. /\ k \in DOMAIN s.peer_games /\ k[1] \notin P
        /\ t.peer_games[k] = s.peer_games[k]
    BY <1>1 DEF ForgetPeers, RestrictDomain, Restrict
  <2>2. s.peer_games[k] \notin gone
    <3>1. SUFFICES ASSUME NEW x \in DOMAIN s.peer_games, x[1] \in P,
                          s.peer_games[x] = s.peer_games[k]
                   PROVE  FALSE
      OBVIOUS
    <3>2. s.games[s.peer_games[k]].peer_id = k[1] /\ s.games[s.peer_games[x]].peer_id = x[1]
      BY <2>1 DEF TablesInv, PeerGamesAgree
    <3>3. QED
      BY <2>1, <3>1, <3>2
  <2>3. QED
    BY <1>1, <2>1, <2>2 DEF TablesInv, PeerGamesAgree, Restrict
<1>5. LanGamesAgree(t)
  <2> SUFFICES ASSUME NEW a \in DOMAIN s.local_games
               PROVE  /\ s.local_games[a] \in DOMAIN t.games
                      /\ t.games[s.local_games[a]] = Local(a)
    BY <1>1 DEF LanGamesAgree
  <2>1. s.local_games[a] \in DOMAIN s.games /\ s.games[s.local_games[a]] = Local(a)
    BY DEF TablesInv, LanGamesAgree
  <2>2. s.games[s.local_games[a]].kind = "local"
    BY <2>1 DEF Local
  <2>3. s.local_games[a] \notin gone
    BY <2>2 DEF TablesInv, PeerGamesAgree
  <2>4. QED
    BY <1>1, <2>1, <2>3 DEF Restrict
<1>6. KeepsIds(s, t)
  BY <1>1 DEF KeepsIds, SameGame, Restrict, TablesInv, RelayType
<1>7. QED
  BY <1>1, <1>2, <1>3, <1>4, <1>5, <1>6 DEF TablesInv, Restrict

\* Sending to several peers removes those whose connection is closed.
LEMMA SendAllInv ==
  ASSUME NEW s, TablesInv(s), NEW live, NEW to, NEW msg
  PROVE  LET t == send_all(s, live, to, msg).relay
         IN TablesInv(t) /\ KeepsIds(s, t) /\ t.next_key = s.next_key
BY RemovePeersInv DEF send_all, Effect

-----------------------------------------------------------------------------
(* Games. *)

\* add_local_game gives a game of the LAN a fresh id, once.
LEMMA AddLocalGameInv ==
  ASSUME NEW s, TablesInv(s), NEW live, NEW from \in SocketAddr, NEW port \in Port
  PROVE  LET t == add_local_game(s, live, from, port).relay
         IN TablesInv(t) /\ KeepsIds(s, t)
<1> DEFINE addr == [ip |-> from.ip, port |-> port]
           known == addr \in DOMAIN s.local_games
           t == IF known THEN s
                ELSE [s EXCEPT !.local_games = Insert(@, addr, s.next_key),
                               !.games = Insert(@, s.next_key, Local(addr)),
                               !.next_key = @ + 1]
           id == IF known THEN s.local_games[addr] ELSE s.next_key
           sent == send_all(t, live, DOMAIN t.peers, RelayGame(id, 0)).relay
<1>1. TablesInv(t) /\ KeepsIds(s, t)
  <2>1. CASE known
    BY <2>1, KeepsIdsRefl
  <2>2. CASE ~ known
    <3>1. /\ DOMAIN t = RelayFields
          /\ t.peers = s.peers /\ t.peer_games = s.peer_games
          /\ t.local_connections = s.local_connections
          /\ t.relayed_connections = s.relayed_connections
          /\ t.next_connection_id = s.next_connection_id
          /\ t.games = Insert(s.games, s.next_key, Local(addr))
          /\ t.next_key = s.next_key + 1
          /\ t.local_games = Insert(s.local_games, addr, s.next_key)
          /\ t.listen_ports = s.listen_ports
      BY <2>2 DEF TablesInv, RelayType, RelayFields
    <3>2. addr \in SocketAddr /\ Local(addr) \in LocalGame /\ s.next_key \in Nat
      BY DEF SocketAddr, Local, LocalGame, TablesInv, RelayType
    <3>3. RelayType(t)
      <4> HIDE DEF t, addr
      <4>1. IsMap(t.games, Nat, LocalGame \cup RemoteGame)
        BY <3>1, <3>2, InsertMap DEF TablesInv, RelayType
      <4>2. IsMap(t.local_games, SocketAddr, Nat)
        BY <3>1, <3>2, InsertMap DEF TablesInv, RelayType
      <4>3. QED
        BY <3>1, <3>2, <4>1, <4>2 DEF TablesInv, RelayType
    <3>4. s.next_key \notin DOMAIN s.games
      BY <3>2 DEF TablesInv
    <3>5. PeerGamesAgree(t)
      BY <3>1, <3>4 DEF TablesInv, PeerGamesAgree, Insert
    <3>6. LanGamesAgree(t)
      BY <3>1, <3>4 DEF TablesInv, LanGamesAgree, Insert
    <3>7. \A l \in DOMAIN t.games : l < t.next_key
      BY <3>1, <3>2 DEF TablesInv, RelayType, IsMap, Insert
    <3>8. KeepsIds(s, t)
      BY <3>1, <3>2 DEF KeepsIds, SameGame, Insert
    <3>9. QED
      BY <3>1, <3>2, <3>3, <3>5, <3>6, <3>7, <3>8 DEF TablesInv
  <2>3. QED
    BY <2>1, <2>2
<1>2. TablesInv(sent) /\ KeepsIds(t, sent)
  BY <1>1, SendAllInv
<1>3. KeepsIds(s, sent)
  <2> HIDE DEF t, sent
  <2>1. QED
    BY <1>1, <1>2, KeepsIdsTrans
<1>4. \/ add_local_game(s, live, from, port).relay = s
      \/ add_local_game(s, live, from, port).relay = sent
  BY DEF add_local_game, next_id, Effect
<1> HIDE DEF t, sent
<1>5. QED
  BY <1>2, <1>3, <1>4, KeepsIdsRefl

\* add_game gives a newly advertised game a fresh id and changes only the
\* listener of one that is known; it always finds a remote game.
LEMMA AddGameInv ==
  ASSUME NEW s, TablesInv(s), NEW from \in DOMAIN s.peers, NEW rid \in Nat,
         NEW alive, NEW fresh \in SUBSET Listener
  PROVE  LET t == add_game(s, from, rid, alive, fresh).relay
         IN /\ TablesInv(t) /\ KeepsIds(s, t)
            /\ <<from, rid>> \in DOMAIN t.peer_games
            /\ t.games[t.peer_games[<<from, rid>>]].kind = "remote"
<1> DEFINE key == <<from, rid>>
           known == key \in DOMAIN s.peer_games
           l == IF known THEN s.peer_games[key] ELSE s.next_key
           game == IF l \in DOMAIN s.games THEN s.games[l] ELSE Remote(from, rid, {})
           kept == {x \in game.listener : x.id \in alive}
           opened == IF kept = {} THEN fresh ELSE {}
           new == Remote(game.peer_id, game.remote_game_id, kept \cup opened)
           t == add_game(s, from, rid, alive, fresh).relay
<1>1. /\ game.kind = "remote" /\ game.peer_id = from /\ game.remote_game_id = rid
      /\ game.listener \in SUBSET Listener
      /\ l \in Nat /\ l <= s.next_key
      /\ known => l \in DOMAIN s.games
      /\ ~ known => l \notin DOMAIN s.games
  <2>1. CASE known
    <3>1. l \in DOMAIN s.games /\ s.games[l].kind = "remote"
          /\ s.games[l].peer_id = from /\ s.games[l].remote_game_id = rid
      BY <2>1 DEF TablesInv, PeerGamesAgree
    <3>2. s.games[l] \in LocalGame \cup RemoteGame /\ l \in Nat /\ l <= s.next_key
      BY <3>1 DEF TablesInv, RelayType, IsMap
    <3>3. QED
      BY <2>1, <3>1, <3>2 DEF LocalGame, RemoteGame
  <2>2. CASE ~ known
    BY <2>2 DEF TablesInv, RelayType, IsMap, Remote
  <2>3. QED
    BY <2>1, <2>2
<1>2. /\ DOMAIN t = RelayFields
      /\ t.peers = s.peers /\ t.peer_games = Insert(s.peer_games, key, l)
      /\ t.local_connections = s.local_connections
      /\ t.relayed_connections = s.relayed_connections
      /\ t.next_connection_id = s.next_connection_id
      /\ t.games = Insert(s.games, l, new)
      /\ t.next_key = IF known THEN s.next_key ELSE s.next_key + 1
      /\ t.local_games = s.local_games
      /\ t.listen_ports = (s.listen_ports \ PortsOf(game.listener \ kept)) \cup PortsOf(opened)
  BY <1>1 DEF add_game, LocalId, next_id, Kept, ReleasedPorts, Effect, TablesInv, RelayType, RelayFields
<1> HIDE DEF t
<1>3. RelayType(t)
  <2>1. new \in RemoteGame
    BY <1>1 DEF Remote, RemoteGame, TablesInv, RelayType, IsMap
  <2>2. key \in PeerId \X Nat /\ from \in PeerId
    BY DEF TablesInv, RelayType, IsMap
  <2>3. t.listen_ports \in SUBSET Port
    BY <1>2 DEF TablesInv, RelayType, PortsOf, Listener
  <2> HIDE DEF new, known, l
  <2>4. t.next_key \in Nat
    BY <1>2 DEF TablesInv, RelayType
  <2>5. IsMap(t.games, Nat, LocalGame \cup RemoteGame)
    BY <1>1, <1>2, <2>1, InsertMap DEF TablesInv, RelayType
  <2>6. IsMap(t.peer_games, PeerId \X Nat, Nat)
    BY <1>1, <1>2, <2>2, InsertMap DEF TablesInv, RelayType
  <2>7. QED
    BY <1>2, <2>3, <2>4, <2>5, <2>6 DEF TablesInv, RelayType
<1>4. /\ new.kind = "remote" /\ new.peer_id = from /\ new.remote_game_id = rid
  BY <1>1 DEF Remote
<1>5. PeerGamesAgree(t)
  <2> SUFFICES ASSUME NEW k \in DOMAIN t.peer_games
               PROVE  LET m == t.peer_games[k]
                      IN /\ k[1] \in DOMAIN t.peers
                         /\ m \in DOMAIN t.games
                         /\ t.games[m].kind = "remote"
                         /\ t.games[m].peer_id = k[1]
                         /\ t.games[m].remote_game_id = k[2]
    BY DEF PeerGamesAgree
  <2> HIDE DEF new
  <2>1. CASE k = key
    BY <1>2, <1>4, <2>1 DEF Insert
  <2>2. CASE k # key
    <3>1. k \in DOMAIN s.peer_games /\ t.peer_games[k] = s.peer_games[k]
      BY <1>2, <2>2 DEF Insert
    <3>2. LET m == s.peer_games[k]
          IN /\ k[1] \in DOMAIN s.peers
             /\ m \in DOMAIN s.games
             /\ s.games[m].kind = "remote"
             /\ s.games[m].peer_id = k[1]
             /\ s.games[m].remote_game_id = k[2]
      BY <3>1 DEF TablesInv, PeerGamesAgree
    <3>3. s.peer_games[k] # l
      <4>1. k \in PeerId \X Nat
        BY <3>1 DEF TablesInv, RelayType, IsMap
      <4>2. k = <<k[1], k[2]>>
        BY <4>1
      <4>3. CASE known
        BY <1>1, <2>2, <3>2, <4>2, <4>3
      <4>4. CASE ~ known
        BY <1>1, <3>2, <4>4
      <4>5. QED
        BY <4>3, <4>4
    <3> HIDE DEF l
    <3>4. s.peer_games[k] \in DOMAIN t.games
          /\ t.games[s.peer_games[k]] = s.games[s.peer_games[k]]
      BY <1>2, <3>2, <3>3 DEF Insert
    <3>5. t.peers = s.peers
      BY <1>2
    <3>6. QED
      BY <3>1, <3>2, <3>4, <3>5
  <2>3. QED
    BY <2>1, <2>2
<1>6. LanGamesAgree(t)
  <2> SUFFICES ASSUME NEW a \in DOMAIN s.local_games
               PROVE  /\ s.local_games[a] \in DOMAIN t.games
                      /\ t.games[s.local_games[a]] = Local(a)
    BY <1>2 DEF LanGamesAgree
  <2>1. s.local_games[a] \in DOMAIN s.games /\ s.games[s.local_games[a]] = Local(a)
    BY DEF TablesInv, LanGamesAgree
  <2>2. s.games[s.local_games[a]].kind = "local"
    BY <2>1 DEF Local
  <2>3. s.local_games[a] # l
    BY <1>1, <2>1, <2>2
  <2> HIDE DEF new
  <2>4. QED
    BY <1>2, <2>1, <2>3 DEF Insert
<1>7. \A m \in DOMAIN t.games : m < t.next_key
  <2> HIDE DEF new
  <2>1. \A m \in DOMAIN t.games : m \in DOMAIN s.games \/ m = l
    BY <1>2 DEF Insert
  <2>2. s.next_key \in Nat /\ DOMAIN s.games \subseteq Nat
    BY DEF TablesInv, RelayType, IsMap
  <2>3. known => l < s.next_key
    BY <1>1 DEF TablesInv
  <2>4. QED
    BY <1>1, <1>2, <2>1, <2>2, <2>3 DEF TablesInv
<1>8. KeepsIds(s, t)
  <2>1. s.next_key <= t.next_key
    <3> HIDE DEF new, known, l
    <3>1. QED
      BY <1>2 DEF TablesInv, RelayType
  <2> SUFFICES ASSUME NEW m \in DOMAIN t.games, ~ (m >= s.next_key)
               PROVE  m \in DOMAIN s.games /\ SameGame(s.games[m], t.games[m])
    BY <2>1 DEF KeepsIds
  <2>2. s.next_key \in Nat
    BY DEF TablesInv, RelayType
  <2>3. CASE m = l
    <3>1. known /\ s.games[l] = game
      BY <1>1, <2>2, <2>3
    <3> HIDE DEF new, game
    <3>2. t.games[m] = new
      BY <1>2, <2>3 DEF Insert
    <3>3. QED
      BY <1>1, <1>4, <2>3, <3>1, <3>2 DEF SameGame
  <2>4. CASE m # l
    <3> HIDE DEF new
    <3>1. QED
      BY <1>2, <2>4 DEF Insert, SameGame
  <2>5. QED
    BY <2>3, <2>4
<1>9. /\ key \in DOMAIN t.peer_games
      /\ t.games[t.peer_games[key]].kind = "remote"
  <2> HIDE DEF new, known, l
  <2>1. QED
    BY <1>2, <1>4 DEF Insert
<1>10. QED
  BY <1>2, <1>3, <1>5, <1>6, <1>7, <1>8, <1>9 DEF TablesInv, t

\* handle_game adds the game, then forwards the advertisement.
LEMMA HandleGameInv ==
  ASSUME NEW s, TablesInv(s), NEW live, NEW from \in PeerId,
         NEW m, m.id \in Nat, NEW alive, NEW fresh \in SUBSET Listener
  PROVE  LET t == handle_game(s, live, from, m, alive, fresh).relay
         IN TablesInv(t) /\ KeepsIds(s, t)
<1>1. CASE from \notin DOMAIN s.peers
  BY <1>1, KeepsIdsRefl DEF handle_game, Effect
<1>2. CASE from \in DOMAIN s.peers
  <2> DEFINE a == add_game(s, from, m.id, alive, fresh).relay
             l == a.peer_games[<<from, m.id>>]
             t == forward_game(a, live, from, l, m.hops).relay
  <2>1. /\ TablesInv(a) /\ KeepsIds(s, a)
        /\ a.games[l].kind = "remote"
    BY <1>2, AddGameInv
  <2> HIDE DEF a
  <2>2. TablesInv(t) /\ KeepsIds(a, t)
    BY <2>1, SendAllInv, KeepsIdsRefl DEF forward_game, Effect
  <2>3. KeepsIds(s, t)
    <3> HIDE DEF t
    <3>1. QED
      BY <2>1, <2>2, KeepsIdsTrans
  <2>4. handle_game(s, live, from, m, alive, fresh).relay = t
    <3>1. /\ handle_game(s, live, from, m, alive, fresh)
                = [add_game(s, from, m.id, alive, fresh) EXCEPT
                     !.relay = t, !.out = forward_game(a, live, from, l, m.hops).out]
      BY <1>2, <2>1 DEF handle_game, a
    <3>2. "relay" \in DOMAIN add_game(s, from, m.id, alive, fresh)
      BY DEF add_game, Effect
    <3> HIDE DEF t
    <3>3. QED
      BY <3>1, <3>2
  <2>5. QED
    BY <2>2, <2>3, <2>4
<1>3. QED
  BY <1>1, <1>2

\* remove_game_listener changes nothing but the listener of one game.
LEMMA RemoveGameListenerInv ==
  ASSUME NEW s, TablesInv(s), NEW l \in Nat, NEW alive
  PROVE  LET t == remove_game_listener(s, l, alive).relay
         IN TablesInv(t) /\ KeepsIds(s, t)
<1> DEFINE t == remove_game_listener(s, l, alive).relay
           kept == {x \in s.games[l].listener : x.id \in alive}
           new == Remote(s.games[l].peer_id, s.games[l].remote_game_id, kept)
<1>1. CASE ~ (l \in DOMAIN s.games /\ s.games[l].kind = "remote")
  BY <1>1, KeepsIdsRefl DEF remove_game_listener, Effect
<1>2. CASE l \in DOMAIN s.games /\ s.games[l].kind = "remote"
  <2>1. /\ DOMAIN t = RelayFields
        /\ t.peers = s.peers /\ t.peer_games = s.peer_games
        /\ t.local_connections = s.local_connections
        /\ t.relayed_connections = s.relayed_connections
        /\ t.next_connection_id = s.next_connection_id
        /\ t.games = Insert(s.games, l, new)
        /\ t.next_key = s.next_key
        /\ t.local_games = s.local_games
        /\ t.listen_ports \subseteq s.listen_ports
    BY <1>2 DEF remove_game_listener, Kept, ReleasedPorts, Effect, TablesInv, RelayType, RelayFields
  <2> HIDE DEF t
  <2>2. s.games[l] \in RemoteGame
    BY <1>2 DEF TablesInv, RelayType, IsMap, LocalGame
  <2>3. /\ new \in RemoteGame /\ SameGame(s.games[l], new)
    BY <2>2 DEF RemoteGame, Remote, SameGame
  <2> HIDE DEF new
  <2>4. RelayType(t)
    BY <2>1, <2>3, InsertMap DEF TablesInv, RelayType
  <2>5. PeerGamesAgree(t)
    BY <1>2, <2>1, <2>3 DEF TablesInv, PeerGamesAgree, Insert, SameGame
  <2>6. LanGamesAgree(t)
    <3>1. \A a : Local(a).kind = "local"
      BY DEF Local
    <3>2. \A a \in DOMAIN s.local_games : s.local_games[a] # l
      BY <1>2, <3>1 DEF TablesInv, LanGamesAgree
    <3>3. QED
      BY <2>1, <3>2 DEF TablesInv, LanGamesAgree, Insert
  <2>7. KeepsIds(s, t)
    <3>1. s.next_key \in Nat
      BY DEF TablesInv, RelayType
    <3>2. QED
      BY <1>2, <2>1, <2>3, <3>1 DEF KeepsIds, SameGame, Insert
  <2>8. DOMAIN t.games = DOMAIN s.games
    BY <1>2, <2>1 DEF Insert
  <2>9. QED
    BY <2>1, <2>4, <2>5, <2>6, <2>7, <2>8 DEF TablesInv, t
<1>3. QED
  BY <1>1, <1>2

-----------------------------------------------------------------------------
(* Connections. *)

\* accept_game_connection takes the next id of a peer and registers the
\* connection under it.
LEMMA AcceptGameConnectionInv ==
  ASSUME NEW s, TablesInv(s), NEW live, NEW l, NEW c \in Conn
  PROVE  LET t == accept_game_connection(s, live, l, c).relay
         IN TablesInv(t) /\ KeepsIds(s, t)
<1> DEFINE p == s.games[l].peer_id
           cid == s.next_connection_id[p]
           t == accept_game_connection(s, live, l, c).relay
<1>1. CASE ~ (l \in DOMAIN s.games /\ s.games[l].kind = "remote" /\ p \in DOMAIN s.peers)
  BY <1>1, KeepsIdsRefl DEF accept_game_connection, Effect
<1>2. CASE l \in DOMAIN s.games /\ s.games[l].kind = "remote" /\ p \in DOMAIN s.peers
  <2>1. /\ DOMAIN t = RelayFields
        /\ t.next_connection_id = Insert(s.next_connection_id, p, [cid EXCEPT !.id = @ + 1])
        /\ t.local_connections = Insert(s.local_connections, <<p, cid>>, c)
        /\ t.peers = s.peers /\ t.peer_games = s.peer_games
        /\ t.relayed_connections = s.relayed_connections /\ t.games = s.games
        /\ t.next_key = s.next_key /\ t.local_games = s.local_games
        /\ t.listen_ports = s.listen_ports
    BY <1>2 DEF accept_game_connection, NewConnectionId, After, Effect, TablesInv, RelayType, RelayFields
  <2> HIDE DEF t
  <2>2. p \in PeerId /\ cid \in ConnectionId
    BY <1>2 DEF TablesInv, RelayType, IsMap
  <2>3. [cid EXCEPT !.id = @ + 1] \in ConnectionId
    BY <2>2 DEF ConnectionId
  <2> HIDE DEF p, cid
  <2>4. IsMap(t.next_connection_id, PeerId, ConnectionId)
    BY <2>1, <2>2, <2>3, InsertMap DEF TablesInv, RelayType
  <2>5. IsMap(t.local_connections, PeerKey, Conn)
    BY <2>1, <2>2, InsertMap DEF TablesInv, RelayType, PeerKey
  <2>6. RelayType(t)
    BY <2>1, <2>4, <2>5 DEF TablesInv, RelayType
  <2>7. DOMAIN t.next_connection_id = DOMAIN t.peers
    BY <1>2, <2>1 DEF TablesInv, Insert
  <2>8. QED
    BY <2>1, <2>6, <2>7, SameGames DEF t
<1>3. QED
  BY <1>1, <1>2

\* add_game_connection registers a connection and acknowledges it.
LEMMA AddGameConnectionInv ==
  ASSUME NEW s, TablesInv(s), NEW live, NEW from \in PeerId,
         NEW cid \in ConnectionId, NEW tx \in Conn
  PROVE  LET t == add_game_connection(s, live, from, cid, tx).relay
         IN TablesInv(t) /\ KeepsIds(s, t)
<1> DEFINE t == [s EXCEPT !.local_connections = Insert(@, <<from, cid>>, tx)]
           u == send_all(t, live, {from}, RelayData(cid, NoData)).relay
<1>1. TablesInv(t) /\ KeepsIds(s, t)
  <2>1. /\ DOMAIN t = RelayFields
        /\ t.local_connections = Insert(s.local_connections, <<from, cid>>, tx)
        /\ t.next_connection_id = s.next_connection_id
        /\ t.peers = s.peers /\ t.peer_games = s.peer_games
        /\ t.relayed_connections = s.relayed_connections /\ t.games = s.games
        /\ t.next_key = s.next_key /\ t.local_games = s.local_games
        /\ t.listen_ports = s.listen_ports
    BY DEF TablesInv, RelayType, RelayFields
  <2> HIDE DEF t
  <2>2. IsMap(t.local_connections, PeerKey, Conn)
    BY <2>1, InsertMap DEF TablesInv, RelayType, PeerKey
  <2>3. RelayType(t) /\ DOMAIN t.next_connection_id = DOMAIN t.peers
    BY <2>1, <2>2 DEF TablesInv, RelayType
  <2>4. QED
    BY <2>1, <2>3, SameGames
<1>2. TablesInv(u) /\ KeepsIds(t, u)
  BY <1>1, SendAllInv
<1>3. KeepsIds(s, u)
  <2> HIDE DEF t, u
  <2>1. QED
    BY <1>1, <1>2, KeepsIdsTrans
<1>4. \/ add_game_connection(s, live, from, cid, tx).relay = s
      \/ add_game_connection(s, live, from, cid, tx).relay = u
  BY DEF add_game_connection, Effect
<1> HIDE DEF t, u
<1>5. QED
  BY <1>2, <1>3, <1>4, KeepsIdsRefl

\* handle_connect starts a thread or pairs two connection ids.
LEMMA HandleConnectInv ==
  ASSUME NEW s, TablesInv(s), NEW live, NEW from \in PeerId,
         NEW m, m.connection_id \in Nat
  PROVE  LET t == handle_connect(s, live, from, m).relay
         IN TablesInv(t) /\ KeepsIds(s, t)
<1> DEFINE to == s.games[m.game_id].peer_id
           rid == s.games[m.game_id].remote_game_id
           e == forward_connect(s, live, from, to, rid, m)
           from_cid == [id |-> m.connection_id, local |-> FALSE]
           to_cid == s.next_connection_id[to]
           t == [s EXCEPT
                   !.next_connection_id = Insert(@, to, [to_cid EXCEPT !.id = @ + 1]),
                   !.relayed_connections = Insert(@, <<to, to_cid>>, <<from, from_cid>>)]
           u == [t EXCEPT !.relayed_connections = Insert(@, <<from, from_cid>>, <<to, to_cid>>)]
<1>1. \/ handle_connect(s, live, from, m).relay = s
      \/ handle_connect(s, live, from, m).relay = e.relay
  BY DEF handle_connect, connect_local, RemoteId, Effect
<1>2. CASE e.relay = s
  BY <1>1, <1>2, KeepsIdsRefl
<1>3. CASE e.relay # s
  <2>1. /\ from \in DOMAIN s.peers /\ to \in DOMAIN s.peers
        /\ e.relay = remove_peer(t, to) \/ e.relay = u
    BY <1>3 DEF forward_connect, NewConnectionId, After, Effect
  <2>2. to \in PeerId /\ to_cid \in ConnectionId /\ from_cid \in ConnectionId
    BY <2>1 DEF TablesInv, RelayType, IsMap, ConnectionId
  <2>3. [to_cid EXCEPT !.id = @ + 1] \in ConnectionId
    BY <2>2 DEF ConnectionId
  <2>4. /\ DOMAIN t = RelayFields
        /\ t.next_connection_id = Insert(s.next_connection_id, to, [to_cid EXCEPT !.id = @ + 1])
        /\ t.relayed_connections =
             Insert(s.relayed_connections, <<to, to_cid>>, <<from, from_cid>>)
        /\ t.peers = s.peers /\ t.peer_games = s.peer_games
        /\ t.local_connections = s.local_connections /\ t.games = s.games
        /\ t.next_key = s.next_key /\ t.local_games = s.local_games
        /\ t.listen_ports = s.listen_ports
    BY DEF TablesInv, RelayType, RelayFields
  <2> HIDE DEF t
  <2>5. /\ DOMAIN u = RelayFields
        /\ u.next_connection_id = t.next_connection_id
        /\ u.relayed_connections =
             Insert(t.relayed_connections, <<from, from_cid>>, <<to, to_cid>>)
        /\ u.peers = t.peers /\ u.peer_games = t.peer_games
        /\ u.local_connections = t.local_connections /\ u.games = t.games
        /\ u.next_key = t.next_key /\ u.local_games = t.local_games
        /\ u.listen_ports = t.listen_ports
    BY <2>4 DEF RelayFields
  <2> HIDE DEF u, to, to_cid, from_cid, e
  <2>6. RelayType(t) /\ DOMAIN t.next_connection_id = DOMAIN t.peers
    <3>1. IsMap(t.next_connection_id, PeerId, ConnectionId)
      BY <2>2, <2>3, <2>4, InsertMap DEF TablesInv, RelayType
    <3>2. IsMap(t.relayed_connections, PeerKey, PeerKey)
      BY <2>2, <2>4, InsertMap DEF TablesInv, RelayType, PeerKey
    <3>3. DOMAIN t.next_connection_id = DOMAIN t.peers
      BY <2>1, <2>4 DEF TablesInv, Insert
    <3>4. QED
      BY <2>4, <3>1, <3>2, <3>3 DEF TablesInv, RelayType
  <2>7. TablesInv(t) /\ KeepsIds(s, t)
    BY <2>4, <2>6, SameGames
  <2>8. RelayType(u) /\ DOMAIN u.next_connection_id = DOMAIN u.peers
    <3>1. IsMap(u.relayed_connections, PeerKey, PeerKey)
      BY <2>2, <2>5, <2>6, InsertMap DEF RelayType, PeerKey
    <3>2. QED
      BY <2>5, <2>6, <3>1 DEF RelayType
  <2>9. TablesInv(u) /\ KeepsIds(s, u)
    BY <2>4, <2>5, <2>8, SameGames
  <2>10. TablesInv(remove_peer(t, to)) /\ KeepsIds(s, remove_peer(t, to))
    <3> DEFINE v == remove_peer(t, to)
    <3>1. TablesInv(v) /\ KeepsIds(t, v)
      BY <2>7, RemovePeersInv DEF remove_peer
    <3> HIDE DEF v
    <3>2. KeepsIds(s, v)
      BY <2>7, <3>1, KeepsIdsTrans
    <3>3. QED
      BY <3>1, <3>2 DEF v
  <2>11. QED
    BY <1>1, <2>1, <2>9, <2>10, KeepsIdsRefl
<1>4. QED
  BY <1>2, <1>3

\* handle_data forgets a connection, or a peer, or changes nothing.
LEMMA HandleDataInv ==
  ASSUME NEW s, TablesInv(s), NEW live, NEW open, NEW from, NEW m
  PROVE  LET t == handle_data(s, live, open, from, m).relay
         IN TablesInv(t) /\ KeepsIds(s, t)
<1> DEFINE key == <<from, [id |-> m.connection_id, local |-> m.connection_local]>>
           t == [s EXCEPT !.local_connections = Remove(@, key)]
           to == s.relayed_connections[key]
           u == send_all(s, live, {to[1]}, RelayData(to[2], m.data)).relay
           r == handle_data(s, live, open, from, m).relay
<1>1. TablesInv(t) /\ KeepsIds(s, t)
  <2>1. /\ DOMAIN t = RelayFields
        /\ t.local_connections = Remove(s.local_connections, key)
        /\ t.next_connection_id = s.next_connection_id
        /\ t.peers = s.peers /\ t.peer_games = s.peer_games
        /\ t.relayed_connections = s.relayed_connections /\ t.games = s.games
        /\ t.next_key = s.next_key /\ t.local_games = s.local_games
        /\ t.listen_ports = s.listen_ports
    BY DEF TablesInv, RelayType, RelayFields
  <2> HIDE DEF t
  <2>2. RelayType(t) /\ DOMAIN t.next_connection_id = DOMAIN t.peers
    BY <2>1, RemoveMap DEF TablesInv, RelayType
  <2>3. QED
    BY <2>1, <2>2, SameGames
<1>2. TablesInv(u) /\ KeepsIds(s, u)
  BY SendAllInv
<1>3. r = s \/ r = t \/ r = u
  BY DEF handle_data, Effect
<1> HIDE DEF t, u, r
<1>4. TablesInv(r) /\ KeepsIds(s, r)
  BY <1>1, <1>2, <1>3, KeepsIdsRefl
<1>5. QED
  BY <1>4 DEF r

\* handle_close_connection forgets a connection on both of its sides.
LEMMA HandleCloseConnectionInv ==
  ASSUME NEW s, TablesInv(s), NEW from, NEW m
  PROVE  LET t == handle_close_connection(s, from, m).relay
         IN TablesInv(t) /\ KeepsIds(s, t)
<1> DEFINE key == <<from, [id |-> m.connection_id, local |-> m.connection_local]>>
           t == handle_close_connection(s, from, m).relay
<1>1. CASE t = s
  BY <1>1, KeepsIdsRefl
<1>2. CASE t # s
  <2>1. /\ DOMAIN t = RelayFields
        /\ t.local_connections = Remove(s.local_connections, key)
        /\ t.next_connection_id = s.next_connection_id
        /\ t.peers = s.peers /\ t.peer_games = s.peer_games
        /\ \/ t.relayed_connections = Remove(s.relayed_connections, key)
           \/ t.relayed_connections =
                Remove(Remove(s.relayed_connections, key), s.relayed_connections[key])
        /\ t.games = s.games
        /\ t.next_key = s.next_key /\ t.local_games = s.local_games
        /\ t.listen_ports = s.listen_ports
    BY <1>2 DEF handle_close_connection, Effect, TablesInv, RelayType, RelayFields
  <2> HIDE DEF t, key
  <2>2. IsMap(t.local_connections, PeerKey, Conn)
    BY <2>1, RemoveMap DEF TablesInv, RelayType
  <2>3. IsMap(t.relayed_connections, PeerKey, PeerKey)
    <3>1. IsMap(Remove(s.relayed_connections, key), PeerKey, PeerKey)
      BY RemoveMap DEF TablesInv, RelayType
    <3>2. IsMap(Remove(Remove(s.relayed_connections, key), s.relayed_connections[key]),
                PeerKey, PeerKey)
      BY <3>1, RemoveMap
    <3>3. QED
      BY <2>1, <3>1, <3>2
  <2>4. RelayType(t) /\ DOMAIN t.next_connection_id = DOMAIN t.peers
    BY <2>1, <2>2, <2>3 DEF TablesInv, RelayType
  <2>5. QED
    BY <2>1, <2>4, SameGames DEF t
<1>3. QED
  BY <1>1, <1>2

=============================================================================
