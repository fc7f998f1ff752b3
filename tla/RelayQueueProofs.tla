-------------------------- MODULE RelayQueueProofs --------------------------
(***************************************************************************)
(* What the main thread's tables say about threads that are no longer      *)
(* there, for every set of peers, handles, listeners and messages and for  *)
(* queues of any length: the tables may lag behind the threads, but what   *)
(* corrects them is always on its way.                                     *)
(***************************************************************************)
EXTENDS RelayProcessProofs

-----------------------------------------------------------------------------
(* What the methods of the main thread do to peers, listeners and ports.   *)

\* Between s and t no peer is added, and only peers whose connection is
\* closed are removed.
KeepsPeers(s, t, live) ==
  /\ DOMAIN t.peers \subseteq DOMAIN s.peers
  /\ \A p \in DOMAIN t.peers : t.peers[p] = s.peers[p]
  /\ \A p \in DOMAIN s.peers : p \in DOMAIN t.peers \/ s.peers[p] \notin live

RemoteIn(s, l) == l \in DOMAIN s.games /\ s.games[l].kind = "remote"

\* Every remote game of t is the same game, with the same listener, in s.
KeepsListeners(s, t) ==
  \A l \in DOMAIN t.games : RemoteIn(t, l) => l \in DOMAIN s.games /\ t.games[l] = s.games[l]

\* Every port in listen_ports is the port of a listener some game has.
PortsInv(s) ==
  \A q \in s.listen_ports : \E l : RemoteIn(s, l) /\ q \in PortsOf(s.games[l].listener)

\* A method that neither starts nor stops listeners.
Keeps(s, t, live) ==
  KeepsPeers(s, t, live) /\ KeepsListeners(s, t) /\ (PortsInv(s) => PortsInv(t))

\* A method that leaves the peers, the remote games and the ports alone.
LEMMA SameKeeps ==
  ASSUME NEW s, NEW t, NEW live, t.peers = s.peers, t.games = s.games,
         t.listen_ports = s.listen_ports
  PROVE  Keeps(s, t, live)
BY DEF Keeps, KeepsPeers, KeepsListeners, PortsInv, RemoteIn

\* Methods that keep these tables, one after the other.
LEMMA KeepsTrans ==
  ASSUME NEW s, NEW t, NEW u, NEW live, Keeps(s, t, live), Keeps(t, u, live)
  PROVE  Keeps(s, u, live)
<1>1. KeepsPeers(s, u, live)
  BY DEF Keeps, KeepsPeers
<1>2. KeepsListeners(s, u)
  BY DEF Keeps, KeepsListeners, RemoteIn
<1>3. QED
  BY <1>1, <1>2 DEF Keeps

\* remove_peers gives up the ports of the games it removes, and of no other.
LEMMA RemovePeersPorts ==
  ASSUME NEW s, DOMAIN s = RelayFields, NEW P
  PROVE  /\ remove_peers(s, P).peers = Restrict(s.peers, DOMAIN s.peers \ P)
         /\ KeepsListeners(s, remove_peers(s, P))
         /\ PortsInv(s) => PortsInv(remove_peers(s, P))
<1> DEFINE t == remove_peers(s, P)
           gone == games_of(s, P)
           remote == {l \in gone \cap DOMAIN s.games : s.games[l].kind = "remote"}
           stopped == UNION {s.games[l].listener : l \in remote}
<1>1. /\ t.peers = Restrict(s.peers, DOMAIN s.peers \ P)
      /\ t.games = Restrict(s.games, DOMAIN s.games \ gone)
      /\ t.listen_ports = s.listen_ports \ PortsOf(stopped)
  BY DEF remove_peers, RelayFields
<1> HIDE DEF t
<1>2. \A l \in DOMAIN t.games : l \in DOMAIN s.games /\ l \notin gone /\ t.games[l] = s.games[l]
  <2> HIDE DEF gone
  <2>1. QED
    BY <1>1 DEF Restrict
<1>3. KeepsListeners(s, t)
  BY <1>2 DEF KeepsListeners
<1>4. ASSUME PortsInv(s) PROVE PortsInv(t)
  <2> SUFFICES ASSUME NEW q \in t.listen_ports
               PROVE  \E l : RemoteIn(t, l) /\ q \in PortsOf(t.games[l].listener)
    BY DEF PortsInv
  <2>1. q \in s.listen_ports /\ q \notin PortsOf(stopped)
    BY <1>1
  <2>2. PICK l : RemoteIn(s, l) /\ q \in PortsOf(s.games[l].listener)
    BY <1>4, <2>1 DEF PortsInv
  <2>3. l \notin gone
    <3>1. ASSUME l \in gone PROVE q \in PortsOf(stopped)
      <4>1. l \in remote
        BY <2>2, <3>1 DEF RemoteIn
      <4> HIDE DEF remote
      <4>2. QED
        BY <2>2, <4>1 DEF PortsOf
    <3>2. QED
      BY <2>1, <3>1
  <2> HIDE DEF gone
  <2>4. l \in DOMAIN t.games /\ t.games[l] = s.games[l]
    BY <1>1, <2>2, <2>3 DEF RemoteIn, Restrict
  <2>5. QED
    BY <2>2, <2>4 DEF RemoteIn
<1>5. QED
  BY <1>1, <1>3, <1>4 DEF t

\* Sending to several peers removes only those whose connection is closed.
LEMMA SendAllKeeps ==
  ASSUME NEW s, DOMAIN s = RelayFields, NEW live, NEW to, NEW msg
  PROVE  Keeps(s, send_all(s, live, to, msg).relay, live)
<1> DEFINE errors == {p \in to : s.peers[p] \notin live}
           t == remove_peers(s, errors)
<1>1. send_all(s, live, to, msg).relay = t
  BY DEF send_all, Effect
<1>2. /\ t.peers = Restrict(s.peers, DOMAIN s.peers \ errors)
      /\ KeepsListeners(s, t) /\ (PortsInv(s) => PortsInv(t))
  BY RemovePeersPorts
<1> HIDE DEF t
<1>3. KeepsPeers(s, t, live)
  BY <1>2 DEF KeepsPeers, Restrict
<1>4. QED
  BY <1>1, <1>2, <1>3 DEF Keeps

\* add_local_game starts no listener.
LEMMA AddLocalGameKeeps ==
  ASSUME NEW s, TablesInv(s), NEW live, NEW from, NEW port
  PROVE  Keeps(s, add_local_game(s, live, from, port).relay, live)
<1> DEFINE addr == [ip |-> from.ip, port |-> port]
           known == addr \in DOMAIN s.local_games
           t == IF known THEN s
                ELSE [s EXCEPT !.local_games = Insert(@, addr, s.next_key),
                               !.games = Insert(@, s.next_key, Local(addr)),
                               !.next_key = @ + 1]
           id == IF known THEN s.local_games[addr] ELSE s.next_key
           u == send_all(t, live, DOMAIN t.peers, RelayGame(id, 0)).relay
<1>1. /\ DOMAIN t = RelayFields /\ t.peers = s.peers /\ t.listen_ports = s.listen_ports
      /\ t.games = s.games \/ t.games = Insert(s.games, s.next_key, Local(addr))
  BY DEF TablesInv, RelayType, RelayFields
<1>2. Keeps(t, u, live)
  BY <1>1, SendAllKeeps
<1>3. \/ add_local_game(s, live, from, port).relay = s
      \/ add_local_game(s, live, from, port).relay = u
  BY DEF add_local_game, next_id, Effect
<1> HIDE DEF t, u
<1>4. \A l : RemoteIn(t, l) => l \in DOMAIN s.games /\ t.games[l] = s.games[l]
  BY <1>1 DEF RemoteIn, Insert, Local
<1>5. PortsInv(s) => PortsInv(t)
  <2>1. \A l : RemoteIn(s, l) => RemoteIn(t, l) /\ t.games[l] = s.games[l]
    BY <1>1 DEF RemoteIn, Insert, TablesInv, RelayType, IsMap
  <2>2. QED
    BY <1>1, <2>1 DEF PortsInv
<1>6. Keeps(s, t, live)
  BY <1>1, <1>4, <1>5 DEF Keeps, KeepsPeers, KeepsListeners
<1>7. Keeps(s, u, live)
  BY <1>2, <1>6, KeepsTrans
<1>8. QED
  BY <1>3, <1>7, SameKeeps

\* accept_game_connection registers a connection.
LEMMA AcceptGameConnectionKeeps ==
  ASSUME NEW s, TablesInv(s), NEW live, NEW l, NEW c
  PROVE  Keeps(s, accept_game_connection(s, live, l, c).relay, live)
<1> DEFINE t == accept_game_connection(s, live, l, c).relay
<1>1. t.peers = s.peers /\ t.games = s.games /\ t.listen_ports = s.listen_ports
  BY DEF accept_game_connection, Effect, TablesInv, RelayType, RelayFields
<1>2. QED
  BY <1>1, SameKeeps

\* add_game_connection registers a connection and acknowledges it.
LEMMA AddGameConnectionKeeps ==
  ASSUME NEW s, TablesInv(s), NEW live, NEW from, NEW cid, NEW tx
  PROVE  Keeps(s, add_game_connection(s, live, from, cid, tx).relay, live)
<1> DEFINE t == [s EXCEPT !.local_connections = Insert(@, <<from, cid>>, tx)]
           u == send_all(t, live, {from}, RelayData(cid, NoData)).relay
<1>1. /\ DOMAIN t = RelayFields
      /\ t.peers = s.peers /\ t.games = s.games /\ t.listen_ports = s.listen_ports
  BY DEF TablesInv, RelayType, RelayFields
<1>2. Keeps(t, u, live)
  BY <1>1, SendAllKeeps
<1>3. \/ add_game_connection(s, live, from, cid, tx).relay = s
      \/ add_game_connection(s, live, from, cid, tx).relay = u
  BY DEF add_game_connection, Effect
<1> HIDE DEF t, u
<1>4. Keeps(s, t, live)
  BY <1>1, SameKeeps
<1>5. Keeps(s, u, live)
  BY <1>2, <1>4, KeepsTrans
<1>6. QED
  BY <1>3, <1>5, SameKeeps

\* handle_connect removes the peer it cannot forward to.
LEMMA HandleConnectKeeps ==
  ASSUME NEW s, TablesInv(s), NEW live, NEW from, NEW m
  PROVE  Keeps(s, handle_connect(s, live, from, m).relay, live)
<1> DEFINE to == s.games[m.game_id].peer_id
           rid == s.games[m.game_id].remote_game_id
           e == forward_connect(s, live, from, to, rid, m)
           from_cid == [id |-> m.connection_id, local |-> FALSE]
           to_cid == s.next_connection_id[to]
           t == [s EXCEPT
                   !.next_connection_id = Insert(@, to, [to_cid EXCEPT !.id = @ + 1]),
                   !.relayed_connections = Insert(@, <<to, to_cid>>, <<from, from_cid>>)]
           u == [t EXCEPT !.relayed_connections = Insert(@, <<from, from_cid>>, <<to, to_cid>>)]
<1>1. \/ handle_connect(s, live, from, m).relay = s
      \/ handle_connect(s, live, from, m).relay = e.relay
  BY DEF handle_connect, connect_local, RemoteId, Effect
<1>2. CASE e.relay = s
  BY <1>1, <1>2, SameKeeps
<1>3. CASE e.relay # s
  <2>1. \/ e.relay = remove_peer(t, to) /\ s.peers[to] \notin live
        \/ e.relay = u
    BY <1>3 DEF forward_connect, NewConnectionId, After, Effect
  <2>2. /\ DOMAIN t = RelayFields
        /\ t.peers = s.peers /\ t.games = s.games /\ t.listen_ports = s.listen_ports
    BY DEF TablesInv, RelayType, RelayFields
  <2> HIDE DEF t
  <2>3. u.peers = s.peers /\ u.games = s.games /\ u.listen_ports = s.listen_ports
    BY <2>2 DEF RelayFields
  <2> HIDE DEF u, to, e
  <2>4. Keeps(s, u, live) /\ Keeps(s, t, live)
    BY <2>2, <2>3, SameKeeps
  <2>5. s.peers[to] \notin live => Keeps(s, remove_peer(t, to), live)
    <3> DEFINE v == remove_peers(t, {to})
    <3>1. /\ v.peers = Restrict(t.peers, DOMAIN t.peers \ {to})
          /\ KeepsListeners(t, v) /\ (PortsInv(t) => PortsInv(v))
      BY <2>2, RemovePeersPorts
    <3> HIDE DEF v
    <3>2. s.peers[to] \notin live => KeepsPeers(t, v, live)
      BY <2>2, <3>1 DEF KeepsPeers, Restrict
    <3>3. s.peers[to] \notin live => Keeps(t, v, live)
      BY <3>1, <3>2 DEF Keeps
    <3>4. s.peers[to] \notin live => Keeps(s, v, live)
      BY <2>4, <3>3, KeepsTrans
    <3>5. QED
      BY <3>4 DEF remove_peer, v
  <2>6. QED
    BY <1>1, <2>1, <2>4, <2>5, SameKeeps
<1>4. QED
  BY <1>2, <1>3

\* handle_data forgets a connection, or a peer whose connection is closed.
LEMMA HandleDataKeeps ==
  ASSUME NEW s, TablesInv(s), NEW live, NEW open, NEW from, NEW m
  PROVE  Keeps(s, handle_data(s, live, open, from, m).relay, live)
<1> DEFINE key == <<from, [id |-> m.connection_id, local |-> m.connection_local]>>
           t == [s EXCEPT !.local_connections = Remove(@, key)]
           to == s.relayed_connections[key]
           u == send_all(s, live, {to[1]}, RelayData(to[2], m.data)).relay
           r == handle_data(s, live, open, from, m).relay
<1>1. t.peers = s.peers /\ t.games = s.games /\ t.listen_ports = s.listen_ports
  BY DEF TablesInv, RelayType, RelayFields
<1>2. Keeps(s, u, live)
  BY SendAllKeeps DEF TablesInv, RelayType
<1>3. r = s \/ r = t \/ r = u
  BY DEF handle_data, Effect
<1> HIDE DEF t, u, r
<1>4. Keeps(s, r, live)
  BY <1>1, <1>2, <1>3, SameKeeps
<1>5. QED
  BY <1>4 DEF r

\* handle_close_connection forgets a connection.
LEMMA HandleCloseConnectionKeeps ==
  ASSUME NEW s, TablesInv(s), NEW live, NEW from, NEW m
  PROVE  Keeps(s, handle_close_connection(s, from, m).relay, live)
<1> DEFINE t == handle_close_connection(s, from, m).relay
<1>1. t.peers = s.peers /\ t.games = s.games /\ t.listen_ports = s.listen_ports
  BY DEF handle_close_connection, Effect, TablesInv, RelayType, RelayFields
<1>2. QED
  BY <1>1, SameKeeps

-----------------------------------------------------------------------------
(* The two methods that change listeners. *)

\* x is a listener of game l in s that is alive.
StillListens(s, l, x, alive) ==
  RemoteIn(s, l) /\ x \in s.games[l].listener /\ x.id \in alive

\* From s to t game l keeps the listeners of old that are alive and gets those
\* of opened; the ports of the ones that have ended are struck off.
Replaces(s, t, l, old, alive, opened) ==
  /\ \E new : /\ new.kind = "remote"
              /\ new.listener = {x \in old : x.id \in alive} \cup opened
              /\ t.games = Insert(s.games, l, new)
  /\ t.listen_ports = (s.listen_ports \ PortsOf({x \in old : x.id \notin alive})) \cup PortsOf(opened)
  /\ old = IF RemoteIn(s, l) THEN s.games[l].listener ELSE {}

\* Replacing listeners leaves no port behind, whichever ports the new ones have.
LEMMA ReplaceListeners ==
  ASSUME NEW s, NEW t, NEW l, NEW old, NEW alive, NEW opened,
         Replaces(s, t, l, old, alive, opened), PortsInv(s)
  PROVE  PortsInv(t)
<1> PICK new : /\ new.kind = "remote"
               /\ new.listener = {x \in old : x.id \in alive} \cup opened
               /\ t.games = Insert(s.games, l, new)
  BY DEF Replaces
<1>1. /\ RemoteIn(t, l) /\ t.games[l] = new
      /\ \A k : k # l /\ RemoteIn(s, k) => RemoteIn(t, k) /\ t.games[k] = s.games[k]
  BY DEF RemoteIn, Insert
<1> SUFFICES ASSUME NEW q \in t.listen_ports
             PROVE  \E k : RemoteIn(t, k) /\ q \in PortsOf(t.games[k].listener)
  BY DEF PortsInv
<1>2. CASE q \in PortsOf(opened)
  BY <1>1, <1>2 DEF PortsOf
<1>3. CASE q \notin PortsOf(opened)
  <2>1. q \in s.listen_ports /\ q \notin PortsOf({x \in old : x.id \notin alive})
    BY <1>3 DEF Replaces
  <2>2. PICK k : RemoteIn(s, k) /\ q \in PortsOf(s.games[k].listener)
    BY <2>1 DEF PortsInv
  <2>3. CASE k = l
    <3>1. s.games[k].listener = old
      BY <2>2, <2>3 DEF Replaces
    <3>2. q \in PortsOf(new.listener)
      BY <2>1, <2>2, <3>1 DEF PortsOf
    <3>3. QED
      BY <1>1, <3>2
  <2>4. CASE k # l
    BY <1>1, <2>2, <2>4
  <2>5. QED
    BY <2>3, <2>4
<1>4. QED
  BY <1>2, <1>3

\* add_game changes the listener of one game: it keeps the one that is alive
\* or starts a thread for a new one.
LEMMA AddGameListener ==
  ASSUME NEW s, TablesInv(s), NEW from \in DOMAIN s.peers, NEW rid \in Nat,
         NEW alive, NEW fresh \in SUBSET Listener
  PROVE  LET e == add_game(s, from, rid, alive, fresh)
             t == e.relay
         IN /\ t.peers = s.peers
            /\ \A l : RemoteIn(t, l) =>
                 \/ RemoteIn(s, l) /\ t.games[l] = s.games[l]
                 \/ \A x \in t.games[l].listener :
                      \/ StillListens(s, l, x, alive)
                      \/ /\ x \in fresh
                         /\ [kind |-> "listener", id |-> x.id, port |-> x.port, game |-> l]
                              \in e.spawn
            /\ PortsInv(s) => PortsInv(t)
<1> DEFINE key == <<from, rid>>
           known == key \in DOMAIN s.peer_games
           l == IF known THEN s.peer_games[key] ELSE s.next_key
           game == IF l \in DOMAIN s.games THEN s.games[l] ELSE Remote(from, rid, {})
           kept == {x \in game.listener : x.id \in alive}
           opened == IF kept = {} THEN fresh ELSE {}
           new == Remote(game.peer_id, game.remote_game_id, kept \cup opened)
           e == add_game(s, from, rid, alive, fresh)
           t == e.relay
<1>1. /\ game.kind = "remote"
      /\ l \in DOMAIN s.games \/ game.listener = {}
      /\ RemoteIn(s, l) => game = s.games[l]
      /\ game.listener = {} \/ (RemoteIn(s, l) /\ game.listener = s.games[l].listener)
  <2>1. CASE known
    <3>1. l \in DOMAIN s.games /\ s.games[l].kind = "remote"
      BY <2>1 DEF TablesInv, PeerGamesAgree
    <3>2. QED
      BY <3>1 DEF RemoteIn
  <2>2. CASE ~ known
    <3>1. l \notin DOMAIN s.games
      BY <2>2 DEF TablesInv, RelayType, IsMap
    <3>2. QED
      BY <3>1 DEF RemoteIn, Remote
  <2>3. QED
    BY <2>1, <2>2
<1>2. /\ t.peers = s.peers
      /\ t.games = Insert(s.games, l, new)
      /\ t.listen_ports = (s.listen_ports \ PortsOf(game.listener \ kept)) \cup PortsOf(opened)
      /\ e.spawn = {[kind |-> "listener", id |-> x.id, port |-> x.port, game |-> l] : x \in opened}
  BY <1>1 DEF add_game, LocalId, next_id, Kept, ReleasedPorts, Effect, TablesInv, RelayType, RelayFields
<1>3. new.kind = "remote" /\ new.listener = kept \cup opened
  BY DEF Remote
<1>4. opened \subseteq fresh
  OBVIOUS
<1>5. game.listener \ kept = {x \in game.listener : x.id \notin alive}
  OBVIOUS
<1> HIDE DEF e, l, game, new, opened
<1>6. ASSUME NEW k, RemoteIn(t, k)
      PROVE  \/ RemoteIn(s, k) /\ t.games[k] = s.games[k]
             \/ \A x \in t.games[k].listener :
                  \/ StillListens(s, k, x, alive)
                  \/ /\ x \in fresh
                     /\ [kind |-> "listener", id |-> x.id, port |-> x.port, game |-> k] \in e.spawn
  <2>1. CASE k = l
    <3>1. t.games[k].listener = kept \cup opened
      BY <1>2, <1>3, <2>1 DEF Insert
    <3>2. \A x \in kept : StillListens(s, k, x, alive)
      BY <1>1, <2>1 DEF StillListens
    <3>3. QED
      BY <1>2, <1>4, <2>1, <3>1, <3>2
  <2>2. CASE k # l
    BY <1>2, <1>6, <2>2 DEF RemoteIn, Insert
  <2>3. QED
    BY <2>1, <2>2
<1>7. ASSUME PortsInv(s)
      PROVE  PortsInv(t)
  <2>1. game.listener = IF RemoteIn(s, l) THEN s.games[l].listener ELSE {}
    BY <1>1
  <2>2. Replaces(s, t, l, game.listener, alive, opened)
    BY <1>2, <1>3, <1>5, <2>1 DEF Replaces
  <2>3. QED
    BY <1>7, <2>2, ReplaceListeners
<1>8. QED
  BY <1>2, <1>6, <1>7 DEF e

\* The same for handle_game, which then removes peers it cannot forward to.
LEMMA HandleGameListener ==
  ASSUME NEW s, TablesInv(s), NEW live, NEW from \in PeerId,
         NEW m, m.id \in Nat, NEW alive, NEW fresh \in SUBSET Listener
  PROVE  LET e == handle_game(s, live, from, m, alive, fresh)
             t == e.relay
         IN /\ KeepsPeers(s, t, live)
            /\ \A l : RemoteIn(t, l) =>
                 \/ RemoteIn(s, l) /\ t.games[l] = s.games[l]
                 \/ \A x \in t.games[l].listener :
                      \/ StillListens(s, l, x, alive)
                      \/ /\ x \in fresh
                         /\ [kind |-> "listener", id |-> x.id, port |-> x.port, game |-> l]
                              \in e.spawn
            /\ PortsInv(s) => PortsInv(t)
<1> DEFINE e == handle_game(s, live, from, m, alive, fresh)
<1>1. CASE from \notin DOMAIN s.peers
  <2>1. e.relay = s
    BY <1>1 DEF handle_game, Effect
  <2> HIDE DEF e
  <2>2. KeepsPeers(s, s, live)
    BY DEF KeepsPeers
  <2>3. QED
    BY <2>1, <2>2 DEF e
<1>2. CASE from \in DOMAIN s.peers
  <2> DEFINE a == add_game(s, from, m.id, alive, fresh)
             r == a.relay
             l == r.peer_games[<<from, m.id>>]
             f == forward_game(r, live, from, l, m.hops)
  <2>1. TablesInv(r) /\ r.games[l].kind = "remote"
    BY <1>2, AddGameInv
  <2>2. /\ r.peers = s.peers
        /\ \A k : RemoteIn(r, k) =>
             \/ RemoteIn(s, k) /\ r.games[k] = s.games[k]
             \/ \A x \in r.games[k].listener :
                  \/ StillListens(s, k, x, alive)
                  \/ /\ x \in fresh
                     /\ [kind |-> "listener", id |-> x.id, port |-> x.port, game |-> k]
                          \in a.spawn
        /\ PortsInv(s) => PortsInv(r)
    BY <1>2, AddGameListener
  <2>3. DOMAIN a = {"relay", "out", "deliver", "spawn", "advert"}
    BY DEF add_game, Effect
  <2> HIDE DEF a
  <2>4. e = [a EXCEPT !.relay = f.relay, !.out = f.out]
    BY <1>2, <2>1 DEF handle_game, a
  <2>5. Keeps(r, f.relay, live)
    BY <2>1, SendAllKeeps, SameKeeps DEF forward_game, Effect, TablesInv, RelayType
  <2> HIDE DEF f, e
  <2>6. e.relay = f.relay /\ e.spawn = a.spawn
    BY <2>3, <2>4
  <2>7. KeepsPeers(s, e.relay, live)
    BY <2>2, <2>5, <2>6 DEF Keeps, KeepsPeers
  <2>8. \A k : RemoteIn(e.relay, k) => RemoteIn(r, k) /\ e.relay.games[k] = r.games[k]
    BY <2>5, <2>6 DEF Keeps, KeepsListeners, RemoteIn
  <2>9. PortsInv(r) => PortsInv(e.relay)
    BY <2>5, <2>6 DEF Keeps
  <2> HIDE DEF r
  <2>10. QED
    BY <2>2, <2>6, <2>7, <2>8, <2>9 DEF e
<1>3. QED
  BY <1>1, <1>2

\* remove_game_listener takes away the listeners of a game that have ended.
LEMMA RemoveGameListenerListener ==
  ASSUME NEW s, TablesInv(s), NEW l, NEW alive
  PROVE  LET t == remove_game_listener(s, l, alive).relay
         IN /\ t.peers = s.peers
            /\ \A k : RemoteIn(t, k) =>
                 \/ k # l /\ RemoteIn(s, k) /\ t.games[k] = s.games[k]
                 \/ \A x \in t.games[k].listener : StillListens(s, k, x, alive)
            /\ PortsInv(s) => PortsInv(t)
<1> DEFINE t == remove_game_listener(s, l, alive).relay
           old == s.games[l].listener
           kept == {x \in old : x.id \in alive}
           new == Remote(s.games[l].peer_id, s.games[l].remote_game_id, kept)
<1>1. CASE ~ RemoteIn(s, l)
  <2>1. t = s
    BY <1>1 DEF remove_game_listener, Effect, RemoteIn
  <2> HIDE DEF t
  <2>2. QED
    BY <1>1, <2>1 DEF t
<1>2. CASE RemoteIn(s, l)
  <2>1. /\ t.peers = s.peers
        /\ t.games = Insert(s.games, l, new)
        /\ t.listen_ports = s.listen_ports \ PortsOf(old \ kept)
    BY <1>2 DEF remove_game_listener, Kept, ReleasedPorts, Effect, RemoteIn, TablesInv, RelayType,
                RelayFields
  <2>2. new.kind = "remote" /\ new.listener = kept
    BY DEF Remote
  <2> HIDE DEF t, new
  <2>3. ASSUME NEW k, RemoteIn(t, k)
        PROVE  \/ k # l /\ RemoteIn(s, k) /\ t.games[k] = s.games[k]
               \/ \A x \in t.games[k].listener : StillListens(s, k, x, alive)
    <3>1. CASE k = l
      <4>1. t.games[k].listener = kept
        BY <2>1, <2>2, <3>1 DEF Insert
      <4>2. QED
        BY <1>2, <3>1, <4>1 DEF StillListens
    <3>2. CASE k # l
      BY <2>1, <2>3, <3>2 DEF RemoteIn, Insert
    <3>3. QED
      BY <3>1, <3>2
  <2>4. ASSUME PortsInv(s) PROVE PortsInv(t)
    <3>1. /\ old \ kept = {x \in old : x.id \notin alive}
          /\ PortsOf({}) = {}
      BY DEF PortsOf
    <3>2. Replaces(s, t, l, old, alive, {})
      BY <1>2, <2>1, <2>2, <3>1 DEF Replaces
    <3>3. QED
      BY <2>4, <3>2, ReplaceListeners
  <2>5. QED
    BY <2>1, <2>3, <2>4 DEF t
<1>3. QED
  BY <1>1, <1>2

-----------------------------------------------------------------------------
(* The queue. *)

InQueue(m) == \E j \in 1..Len(inbox) : inbox[j] = m

\* Taking the first message moves the others up by one.
LEMMA TailQueue ==
  ASSUME inbox \in Seq(Message), inbox # <<>>, inbox' = Tail(inbox)
  PROVE  /\ Len(inbox) \in Nat \ {0} /\ Len(inbox') = Len(inbox) - 1
         /\ \A j \in 1..Len(inbox') : j + 1 \in 1..Len(inbox) /\ inbox'[j] = inbox[j + 1]
         /\ \A j \in 2..Len(inbox) : j - 1 \in 1..Len(inbox') /\ inbox'[j - 1] = inbox[j]
         /\ 1 \in 1..Len(inbox) /\ Head(inbox) = inbox[1]
         /\ \A m : InQueue(m) => m = Head(inbox) \/ InQueue(m)'
<1>1. /\ Len(inbox) \in Nat \ {0} /\ Len(inbox') = Len(inbox) - 1
      /\ \A j \in 1..Len(inbox') : j + 1 \in 1..Len(inbox) /\ inbox'[j] = inbox[j + 1]
      /\ Head(inbox) = inbox[1]
  OBVIOUS
<1>2. \A j \in 2..Len(inbox) : j - 1 \in 1..Len(inbox') /\ inbox'[j - 1] = inbox[j]
  <2> SUFFICES ASSUME NEW j \in 2..Len(inbox)
               PROVE  j - 1 \in 1..Len(inbox') /\ inbox'[j - 1] = inbox[j]
    OBVIOUS
  <2>1. j - 1 \in 1..Len(inbox') /\ (j - 1) + 1 = j
    BY <1>1
  <2>2. QED
    BY <1>1, <2>1
<1>3. ASSUME NEW m, InQueue(m), m # Head(inbox) PROVE InQueue(m)'
  <2>1. PICK j \in 1..Len(inbox) : inbox[j] = m
    BY <1>3 DEF InQueue
  <2>2. j \in 2..Len(inbox)
    BY <1>1, <1>3, <2>1
  <2>3. QED
    BY <1>2, <2>1, <2>2 DEF InQueue
<1>4. QED
  BY <1>1, <1>2, <1>3

\* Sending a message puts it behind the others.
LEMMA AppendQueue ==
  ASSUME inbox \in Seq(Message), NEW n, inbox' = Append(inbox, n)
  PROVE  /\ Len(inbox) \in Nat /\ Len(inbox') = Len(inbox) + 1
         /\ \A j \in 1..Len(inbox) : j \in 1..Len(inbox') /\ inbox'[j] = inbox[j]
         /\ \A j \in 1..Len(inbox') :
              j \in 1..Len(inbox) \/ (j = Len(inbox) + 1 /\ inbox'[j] = n)
         /\ Len(inbox) + 1 \in 1..Len(inbox') /\ inbox'[Len(inbox) + 1] = n
         /\ \A m : InQueue(m) => InQueue(m)'
         /\ InQueue(n)'
<1>1. /\ Len(inbox) \in Nat /\ Len(inbox') = Len(inbox) + 1
      /\ \A j \in 1..Len(inbox) : inbox'[j] = inbox[j]
      /\ inbox'[Len(inbox) + 1] = n
  OBVIOUS
<1>2. \A j \in 1..Len(inbox) : j \in 1..Len(inbox')
  BY <1>1
<1>3. /\ Len(inbox) + 1 \in 1..Len(inbox')
      /\ \A j \in 1..Len(inbox') : j \in 1..Len(inbox) \/ j = Len(inbox) + 1
  BY <1>1
<1>4. QED
  BY <1>1, <1>2, <1>3 DEF InQueue

-----------------------------------------------------------------------------
(* Peers. *)

\* The connection of h is neither refused nor over.
Holding(h) == sessions[h].st \in {"pending", "running"}

\* The peer table names connections of the peer; one that has ended has its
\* RemovePeer in the queue.
KnownPeers ==
  \A p \in DOMAIN relay.peers :
    /\ relay.peers[p] \in DOMAIN sessions
    /\ sessions[relay.peers[p]].peer = p
    /\ Holding(relay.peers[p]) \/ InQueue(RemovePeer(p))

\* So does every AddPeer in the queue, and the RemovePeer is behind it.
ComingPeers ==
  \A j \in 1..Len(inbox) :
    inbox[j].msg = "AddPeer" =>
      /\ inbox[j].handle \in DOMAIN sessions
      /\ sessions[inbox[j].handle].peer = inbox[j].peer
      /\ \/ Holding(inbox[j].handle)
         \/ \E k \in 1..Len(inbox) : j < k /\ inbox[k] = RemovePeer(inbox[j].peer)

\* A RemovePeer in the queue is of a connection that has ended.
LeavingPeers ==
  \A j \in 1..Len(inbox) :
    inbox[j].msg = "RemovePeer" =>
      \E g \in DOMAIN sessions : sessions[g].peer = inbox[j].peer /\ ~ Holding(g)

PeerQueue == KnownPeers /\ ComingPeers /\ LeavingPeers /\ LivePeerKnown

\* Every iteration of Relay::run but two takes no AddPeer and no RemovePeer
\* and removes only peers whose connection is closed.
LEMMA RunKeepsPeers ==
  ASSUME Inv, Run
  PROVE  /\ inbox # <<>> /\ inbox' = Tail(inbox) /\ sessions' = sessions
         /\ \/ RunAddPeer \/ RunRemovePeer
            \/ /\ Head(inbox).msg \notin {"AddPeer", "RemovePeer"}
               /\ KeepsPeers(relay, relay', Live)
<1> DEFINE m == Head(inbox)
<1>1. inbox # <<>> /\ inbox' = Tail(inbox) /\ sessions' = sessions
  BY DEF Run, RunPing, RunAddPeer, RunRemovePeer, RunAddLocalGame, RunRemoveGameListener,
         RunGame, RunConnect, RunData, RunCloseConnection, RunAcceptGameConnection,
         RunAddGameConnection, TakeRecv, Take
<1>2. TablesInv(relay) /\ m \in Message
  BY <1>1, TakeType DEF Inv, TypeOK
<1>3. CASE RunPing
  BY <1>3, SameKeeps DEF RunPing, TakeRecv, Take, Keeps
<1>4. CASE RunAddLocalGame
  BY <1>2, <1>4, AddLocalGameKeeps DEF RunAddLocalGame, Take, Keeps
<1>5. CASE RunRemoveGameListener
  <2>1. relay'.peers = relay.peers
    BY <1>2, <1>5, RemoveGameListenerListener DEF RunRemoveGameListener
  <2>2. QED
    BY <1>5, <2>1 DEF RunRemoveGameListener, Take, KeepsPeers
<1>6. CASE RunGame
  <2>1. m.msg = "Recv" /\ m.message.type = "Game"
    BY <1>6 DEF RunGame, TakeRecv, Take
  <2>2. m.peer \in PeerId /\ m.message.id \in Nat
    BY <1>2, <2>1, MessageArguments, RelayMessageArguments
  <2>3. PICK fresh \in NewListener :
          relay' = handle_game(relay, Live, m.peer, m.message, Alive, fresh).relay
    BY <1>6 DEF RunGame
  <2>4. fresh \in SUBSET Listener
    BY NewListenerType
  <2>5. KeepsPeers(relay, relay', Live)
    BY <1>2, <2>2, <2>3, <2>4, HandleGameListener
  <2>6. QED
    BY <1>1, <2>1, <2>5
<1>7. CASE RunConnect
  BY <1>2, <1>7, HandleConnectKeeps DEF RunConnect, TakeRecv, Take, Keeps
<1>8. CASE RunData
  BY <1>2, <1>8, HandleDataKeeps DEF RunData, TakeRecv, Take, Keeps
<1>9. CASE RunCloseConnection
  BY <1>2, <1>9, HandleCloseConnectionKeeps DEF RunCloseConnection, TakeRecv, Take, Keeps
<1>10. CASE RunAcceptGameConnection
  BY <1>2, <1>10, AcceptGameConnectionKeeps DEF RunAcceptGameConnection, Take, Keeps
<1>11. CASE RunAddGameConnection
  BY <1>2, <1>11, AddGameConnectionKeeps DEF RunAddGameConnection, Take, Keeps
<1>12. QED
  BY <1>1, <1>3, <1>4, <1>5, <1>6, <1>7, <1>8, <1>9, <1>10, <1>11 DEF Run

\* An iteration of Relay::run keeps PeerQueue.
LEMMA RunPeerQueue ==
  ASSUME Inv, PeerQueue, Run
  PROVE  PeerQueue'
<1> DEFINE m == Head(inbox)
           p == m.peer
<1>1. /\ inbox # <<>> /\ inbox' = Tail(inbox) /\ sessions' = sessions
      /\ inbox \in Seq(Message)
  BY RunKeepsPeers DEF Inv, TypeOK
<1>2. /\ Len(inbox) \in Nat \ {0} /\ Len(inbox') = Len(inbox) - 1
      /\ \A j \in 1..Len(inbox') : j + 1 \in 1..Len(inbox) /\ inbox'[j] = inbox[j + 1]
      /\ \A j \in 2..Len(inbox) : j - 1 \in 1..Len(inbox') /\ inbox'[j - 1] = inbox[j]
      /\ 1 \in 1..Len(inbox) /\ m = inbox[1]
      /\ \A n : InQueue(n) => n = m \/ InQueue(n)'
  BY <1>1, TailQueue
<1> HIDE DEF m, p
<1>3. \A h : Holding(h)' <=> Holding(h)
  BY <1>1 DEF Holding
<1>4. ComingPeers'
  <2> SUFFICES ASSUME NEW j \in 1..Len(inbox'), inbox'[j].msg = "AddPeer"
               PROVE  /\ inbox'[j].handle \in DOMAIN sessions
                      /\ sessions[inbox'[j].handle].peer = inbox'[j].peer
                      /\ \/ Holding(inbox'[j].handle)
                         \/ \E k \in 1..Len(inbox') : j < k /\ inbox'[k] = RemovePeer(inbox'[j].peer)
    BY <1>1, <1>3 DEF ComingPeers
  <2>1. j + 1 \in 1..Len(inbox) /\ inbox'[j] = inbox[j + 1]
    BY <1>2
  <2>2. /\ inbox'[j].handle \in DOMAIN sessions
        /\ sessions[inbox'[j].handle].peer = inbox'[j].peer
        /\ \/ Holding(inbox'[j].handle)
           \/ \E k \in 1..Len(inbox) : j + 1 < k /\ inbox[k] = RemovePeer(inbox'[j].peer)
    BY <2>1 DEF PeerQueue, ComingPeers
  <2>3. ASSUME NEW k \in 1..Len(inbox), j + 1 < k, inbox[k] = RemovePeer(inbox'[j].peer)
        PROVE  \E i \in 1..Len(inbox') : j < i /\ inbox'[i] = RemovePeer(inbox'[j].peer)
    <3>1. k \in 2..Len(inbox) /\ j < k - 1
      BY <1>2, <2>3
    <3>2. QED
      BY <1>2, <2>3, <3>1
  <2>4. QED
    BY <2>2, <2>3
<1>5. LeavingPeers'
  BY <1>1, <1>2, <1>3 DEF PeerQueue, LeavingPeers
<1>6. \A q, h : InQueue(AddPeer(q, h)) => \/ InQueue(AddPeer(q, h))'
                                          \/ m.msg = "AddPeer" /\ m.peer = q /\ m.handle = h
  BY <1>2 DEF AddPeer
<1>7. \A q : InQueue(RemovePeer(q)) => \/ InQueue(RemovePeer(q))'
                                       \/ m.msg = "RemovePeer" /\ m.peer = q
  BY <1>2 DEF RemovePeer
<1>8. \A h : h \in DOMAIN sessions /\ Holding(h) => h \in Live
  BY DEF Holding, Live
<1>9. ASSUME NEW h \in DOMAIN sessions, Holding(h)
      PROVE  LET q == sessions[h].peer
             IN \/ q \in DOMAIN relay.peers /\ relay.peers[q] = h
                \/ InQueue(AddPeer(q, h))
                \/ \E g \in DOMAIN sessions \ {h} : sessions[g].peer = q
  BY <1>9 DEF PeerQueue, LivePeerKnown, Holding, InQueue
<1>10. CASE RunAddPeer
  <2>1. relay'.peers = Insert(relay.peers, p, m.handle) /\ m.msg = "AddPeer"
    BY <1>10 DEF RunAddPeer, Take, add_peer, Inv, TypeOK, RelayType, RelayFields, m, p
  <2>2. /\ m.handle \in DOMAIN sessions /\ sessions[m.handle].peer = p
        /\ Holding(m.handle) \/ InQueue(RemovePeer(p))
    BY <1>2, <2>1 DEF PeerQueue, ComingPeers, InQueue, p
  <2>3. KnownPeers'
    <3> SUFFICES ASSUME NEW q \in DOMAIN relay'.peers
                 PROVE  /\ relay'.peers[q] \in DOMAIN sessions
                        /\ sessions[relay'.peers[q]].peer = q
                        /\ Holding(relay'.peers[q]) \/ InQueue(RemovePeer(q))'
      BY <1>1, <1>3 DEF KnownPeers
    <3>1. CASE q = p
      BY <1>7, <2>1, <2>2, <3>1 DEF Insert
    <3>2. CASE q # p
      BY <1>7, <2>1, <3>2 DEF Insert, PeerQueue, KnownPeers
    <3>3. QED
      BY <3>1, <3>2
  <2>4. LivePeerKnown'
    <3> SUFFICES ASSUME NEW h \in DOMAIN sessions, Holding(h), NEW q, q = sessions[h].peer
                 PROVE  \/ q \in DOMAIN relay'.peers /\ relay'.peers[q] = h
                        \/ InQueue(AddPeer(q, h))'
                        \/ \E g \in DOMAIN sessions \ {h} : sessions[g].peer = q
      BY <1>1 DEF LivePeerKnown, Holding, InQueue
    <3>1. QED
      BY <1>6, <1>9, <2>1, <2>2 DEF Insert, p
  <2>5. QED
    BY <1>4, <1>5, <2>3, <2>4 DEF PeerQueue
<1>11. CASE RunRemovePeer
  <2>1. /\ relay'.peers = Restrict(relay.peers, DOMAIN relay.peers \ {p})
        /\ m.msg = "RemovePeer"
    BY <1>11, RemovePeersPorts
       DEF RunRemovePeer, Take, remove_peer, Inv, TypeOK, RelayType, m, p
  <2>2. PICK g \in DOMAIN sessions : sessions[g].peer = p /\ ~ Holding(g)
    BY <1>2, <2>1 DEF PeerQueue, LeavingPeers, p
  <2>3. KnownPeers'
    BY <1>1, <1>3, <1>7, <2>1 DEF KnownPeers, PeerQueue, Restrict, p
  <2>4. LivePeerKnown'
    <3> SUFFICES ASSUME NEW h \in DOMAIN sessions, Holding(h), NEW q, q = sessions[h].peer
                 PROVE  \/ q \in DOMAIN relay'.peers /\ relay'.peers[q] = h
                        \/ InQueue(AddPeer(q, h))'
                        \/ \E f \in DOMAIN sessions \ {h} : sessions[f].peer = q
      BY <1>1 DEF LivePeerKnown, Holding, InQueue
    <3>1. g # h
      BY <2>2
    <3>2. QED
      BY <1>6, <1>9, <2>1, <2>2, <3>1 DEF Restrict
  <2>5. QED
    BY <1>4, <1>5, <2>3, <2>4 DEF PeerQueue
<1>12. CASE m.msg \notin {"AddPeer", "RemovePeer"} /\ KeepsPeers(relay, relay', Live)
  <2>1. KnownPeers'
    BY <1>1, <1>3, <1>7, <1>12 DEF KnownPeers, PeerQueue, KeepsPeers
  <2>2. LivePeerKnown'
    <3> SUFFICES ASSUME NEW h \in DOMAIN sessions, Holding(h), NEW q, q = sessions[h].peer
                 PROVE  \/ q \in DOMAIN relay'.peers /\ relay'.peers[q] = h
                        \/ InQueue(AddPeer(q, h))'
                        \/ \E f \in DOMAIN sessions \ {h} : sessions[f].peer = q
      BY <1>1 DEF LivePeerKnown, Holding, InQueue
    <3>1. QED
      BY <1>6, <1>8, <1>9, <1>12 DEF KeepsPeers
  <2>3. QED
    BY <1>4, <1>5, <2>1, <2>2 DEF PeerQueue
<1>13. QED
  BY <1>10, <1>11, <1>12, RunKeepsPeers DEF m

\* What another thread sends leaves PeerQueue alone as long as it is about
\* something else.
LEMMA OtherPeerQueue ==
  ASSUME Inv, PeerQueue, UNCHANGED <<relay, sessions>>,
         \/ inbox' = inbox
         \/ \E n : inbox' = Append(inbox, n) /\ n.msg \notin {"AddPeer", "RemovePeer"}
  PROVE  PeerQueue'
<1>1. CASE inbox' = inbox
  BY <1>1 DEF PeerQueue, KnownPeers, ComingPeers, LeavingPeers, LivePeerKnown, Holding, InQueue
<1>2. ASSUME NEW n, inbox' = Append(inbox, n), n.msg \notin {"AddPeer", "RemovePeer"}
      PROVE  PeerQueue'
  <2>1. /\ Len(inbox) \in Nat /\ Len(inbox') = Len(inbox) + 1
        /\ \A j \in 1..Len(inbox) : j \in 1..Len(inbox') /\ inbox'[j] = inbox[j]
        /\ \A j \in 1..Len(inbox') :
             j \in 1..Len(inbox) \/ (j = Len(inbox) + 1 /\ inbox'[j] = n)
        /\ \A m : InQueue(m) => InQueue(m)'
    BY <1>2, AppendQueue DEF Inv, TypeOK
  <2>2. \A h : Holding(h)' <=> Holding(h)
    BY DEF Holding
  <2>3. KnownPeers'
    BY <2>1, <2>2 DEF PeerQueue, KnownPeers
  <2>4. ComingPeers'
    BY <1>2, <2>1, <2>2 DEF PeerQueue, ComingPeers
  <2>5. LeavingPeers'
    BY <1>2, <2>1, <2>2 DEF PeerQueue, LeavingPeers
  <2>6. LivePeerKnown'
    BY <2>1 DEF PeerQueue, LivePeerKnown
  <2>7. QED
    BY <2>3, <2>4, <2>5, <2>6 DEF PeerQueue
<1>3. QED
  BY <1>1, <1>2

\* A new connection of a peer: its AddPeer goes into the queue at once.
LEMMA HandshakePeerQueue ==
  ASSUME Inv, PeerQueue, NEW h \in Handle, NEW p \in PeerId, Handshake(h, p)
  PROVE  PeerQueue'
<1>1. /\ h \notin DOMAIN sessions /\ relay' = relay
      /\ sessions' = Insert(sessions, h, [peer |-> p, st |-> "pending"])
      /\ inbox' = Append(inbox, AddPeer(p, h))
  BY DEF Handshake
<1>2. /\ Len(inbox) \in Nat /\ Len(inbox') = Len(inbox) + 1
      /\ \A j \in 1..Len(inbox) : j \in 1..Len(inbox') /\ inbox'[j] = inbox[j]
      /\ \A j \in 1..Len(inbox') :
           j \in 1..Len(inbox) \/ (j = Len(inbox) + 1 /\ inbox'[j] = AddPeer(p, h))
      /\ \A m : InQueue(m) => InQueue(m)'
      /\ InQueue(AddPeer(p, h))'
  BY <1>1, AppendQueue DEF Inv, TypeOK
<1>3. /\ \A g \in DOMAIN sessions : /\ g \in DOMAIN sessions' /\ sessions'[g] = sessions[g]
                                    /\ Holding(g)' <=> Holding(g)
      /\ h \in DOMAIN sessions' /\ sessions'[h].peer = p /\ Holding(h)'
      /\ \A g \in DOMAIN sessions' : g \in DOMAIN sessions \/ g = h
  BY <1>1 DEF Insert, Holding
<1>4. KnownPeers'
  BY <1>1, <1>2, <1>3 DEF PeerQueue, KnownPeers
<1>5. ComingPeers'
  <2> SUFFICES ASSUME NEW j \in 1..Len(inbox'), inbox'[j].msg = "AddPeer"
               PROVE  /\ inbox'[j].handle \in DOMAIN sessions'
                      /\ sessions'[inbox'[j].handle].peer = inbox'[j].peer
                      /\ \/ Holding(inbox[j].handle)'
                         \/ \E k \in 1..Len(inbox') : j < k /\ inbox'[k] = RemovePeer(inbox'[j].peer)
    BY DEF ComingPeers
  <2>1. CASE j \in 1..Len(inbox)
    <3>1. /\ inbox'[j] = inbox[j]
          /\ inbox[j].handle \in DOMAIN sessions
          /\ sessions[inbox[j].handle].peer = inbox[j].peer
          /\ \/ Holding(inbox[j].handle)
             \/ \E k \in 1..Len(inbox) : j < k /\ inbox[k] = RemovePeer(inbox[j].peer)
      BY <1>2, <2>1 DEF PeerQueue, ComingPeers
    <3>2. QED
      BY <1>2, <1>3, <3>1
  <2>2. CASE inbox'[j] = AddPeer(p, h)
    <3>1. inbox'[j].handle = h /\ inbox'[j].peer = p
      BY <2>2 DEF AddPeer
    <3>2. QED
      BY <1>3, <3>1
  <2>3. QED
    BY <1>2, <2>1, <2>2
<1>6. LeavingPeers'
  BY <1>2, <1>3 DEF PeerQueue, LeavingPeers, AddPeer
<1>7. LivePeerKnown'
  <2> SUFFICES ASSUME NEW g \in DOMAIN sessions', Holding(g)', NEW q, q = sessions'[g].peer
               PROVE  \/ q \in DOMAIN relay.peers /\ relay.peers[q] = g
                      \/ InQueue(AddPeer(q, g))'
                      \/ \E f \in DOMAIN sessions' \ {g} : sessions'[f].peer = q
    BY <1>1 DEF LivePeerKnown, Holding, InQueue
  <2>1. CASE g = h
    BY <1>2, <1>3, <2>1
  <2>2. CASE g \in DOMAIN sessions
    <3>1. \/ q \in DOMAIN relay.peers /\ relay.peers[q] = g
          \/ InQueue(AddPeer(q, g))
          \/ \E f \in DOMAIN sessions \ {g} : sessions[f].peer = q
      BY <1>3, <2>2 DEF PeerQueue, LivePeerKnown, Holding, InQueue
    <3>2. QED
      BY <1>2, <1>3, <3>1
  <2>3. QED
    BY <1>3, <2>1, <2>2
<1>8. QED
  BY <1>4, <1>5, <1>6, <1>7 DEF PeerQueue

\* A connection that goes on, ends or lets its handle go.  When it ends, its
\* RemovePeer is behind its AddPeer.
LEMMA SessionPeerQueue ==
  ASSUME Inv, PeerQueue, NEW h \in Handle, Accept(h) \/ Drop(h) \/ Release(h)
  PROVE  PeerQueue'
<1> DEFINE p == sessions[h].peer
<1>1. /\ h \in DOMAIN sessions /\ relay' = relay
      /\ DOMAIN sessions' = DOMAIN sessions
      /\ \A g \in DOMAIN sessions : sessions'[g].peer = sessions[g].peer
      /\ \A g \in DOMAIN sessions : g # h => (Holding(g)' <=> Holding(g))
      /\ \/ Holding(h)' /\ Holding(h) /\ inbox' = inbox
         \/ ~ Holding(h)' /\ ~ Holding(h) /\ inbox' = inbox
         \/ ~ Holding(h)' /\ Holding(h) /\ inbox' = Append(inbox, RemovePeer(p))
  <2>1. \A g \in DOMAIN sessions : DOMAIN sessions[g] = {"peer", "st"}
    BY DEF Inv, TypeOK, IsMap, Session
  <2>2. CASE Accept(h)
    BY <2>1, <2>2 DEF Accept, Holding
  <2>3. CASE Drop(h)
    BY <2>1, <2>3 DEF Drop, Holding, Report
  <2>4. CASE Release(h)
    BY <2>1, <2>4 DEF Release, Holding
  <2>5. QED
    BY <2>2, <2>3, <2>4
<1>2. CASE Holding(h)' <=> Holding(h)
  <2>1. \A g \in DOMAIN sessions : Holding(g)' <=> Holding(g)
    BY <1>1, <1>2
  <2>2. inbox' = inbox
    BY <1>1, <1>2
  <2>3. KnownPeers'
    BY <1>1, <2>1, <2>2 DEF PeerQueue, KnownPeers, InQueue
  <2>4. ComingPeers'
    BY <1>1, <2>1, <2>2 DEF PeerQueue, ComingPeers
  <2>5. LeavingPeers'
    BY <1>1, <2>1, <2>2 DEF PeerQueue, LeavingPeers
  <2>6. LivePeerKnown'
    BY <1>1, <2>1, <2>2 DEF PeerQueue, LivePeerKnown, Holding
  <2>7. QED
    BY <2>3, <2>4, <2>5, <2>6 DEF PeerQueue
<1>3. CASE ~ Holding(h)' /\ Holding(h) /\ inbox' = Append(inbox, RemovePeer(p))
  <2>1. /\ Len(inbox) \in Nat /\ Len(inbox') = Len(inbox) + 1
        /\ \A j \in 1..Len(inbox) : j \in 1..Len(inbox') /\ inbox'[j] = inbox[j]
        /\ \A j \in 1..Len(inbox') :
             j \in 1..Len(inbox) \/ (j = Len(inbox) + 1 /\ inbox'[j] = RemovePeer(p))
        /\ Len(inbox) + 1 \in 1..Len(inbox') /\ inbox'[Len(inbox) + 1] = RemovePeer(p)
        /\ \A m : InQueue(m) => InQueue(m)'
    BY <1>3, AppendQueue DEF Inv, TypeOK
  <2>2. \A q : q = p => InQueue(RemovePeer(q))'
    BY <2>1 DEF InQueue
  <2>3. KnownPeers'
    <3> SUFFICES ASSUME NEW q \in DOMAIN relay.peers
                 PROVE  /\ relay.peers[q] \in DOMAIN sessions
                        /\ sessions[relay.peers[q]].peer = q
                        /\ Holding(relay.peers[q])' \/ InQueue(RemovePeer(q))'
      BY <1>1 DEF KnownPeers, PeerQueue
    <3>1. /\ relay.peers[q] \in DOMAIN sessions
          /\ sessions[relay.peers[q]].peer = q
          /\ Holding(relay.peers[q]) \/ InQueue(RemovePeer(q))
      BY DEF PeerQueue, KnownPeers
    <3>2. QED
      BY <1>1, <2>1, <2>2, <3>1
  <2>4. ComingPeers'
    <3> SUFFICES ASSUME NEW j \in 1..Len(inbox'), inbox'[j].msg = "AddPeer"
                 PROVE  /\ inbox'[j].handle \in DOMAIN sessions
                        /\ sessions[inbox'[j].handle].peer = inbox'[j].peer
                        /\ \/ Holding(inbox[j].handle)'
                           \/ \E k \in 1..Len(inbox') : j < k /\ inbox'[k] = RemovePeer(inbox'[j].peer)
      BY <1>1 DEF ComingPeers, PeerQueue
    <3>1. j \in 1..Len(inbox) /\ inbox'[j] = inbox[j]
      BY <2>1 DEF RemovePeer
    <3>2. /\ inbox[j].handle \in DOMAIN sessions
          /\ sessions[inbox[j].handle].peer = inbox[j].peer
          /\ \/ Holding(inbox[j].handle)
             \/ \E k \in 1..Len(inbox) : j < k /\ inbox[k] = RemovePeer(inbox[j].peer)
      BY <3>1 DEF PeerQueue, ComingPeers
    <3>3. CASE inbox[j].handle = h
      <4>1. j < Len(inbox) + 1
        BY <2>1, <3>1
      <4>2. QED
        BY <2>1, <3>1, <3>2, <3>3, <4>1
    <3>4. CASE inbox[j].handle # h
      BY <1>1, <2>1, <3>1, <3>2, <3>4
    <3>5. QED
      BY <3>3, <3>4
  <2>5. LeavingPeers'
    <3> SUFFICES ASSUME NEW j \in 1..Len(inbox'), inbox'[j].msg = "RemovePeer"
                 PROVE  \E g \in DOMAIN sessions : sessions[g].peer = inbox'[j].peer /\ ~ Holding(g)'
      BY <1>1 DEF LeavingPeers
    <3>1. CASE j \in 1..Len(inbox)
      BY <1>1, <1>3, <2>1, <3>1 DEF PeerQueue, LeavingPeers
    <3>2. CASE inbox'[j] = RemovePeer(p)
      BY <1>1, <1>3, <3>2 DEF RemovePeer
    <3>3. QED
      BY <2>1, <3>1, <3>2
  <2>6. LivePeerKnown'
    <3> SUFFICES ASSUME NEW g \in DOMAIN sessions, Holding(g)', NEW q, q = sessions[g].peer
                 PROVE  \/ q \in DOMAIN relay.peers /\ relay.peers[q] = g
                        \/ InQueue(AddPeer(q, g))'
                        \/ \E f \in DOMAIN sessions \ {g} : sessions[f].peer = q
      BY <1>1 DEF LivePeerKnown, Holding, InQueue
    <3>1. Holding(g)
      BY <1>1, <1>3
    <3>2. \/ q \in DOMAIN relay.peers /\ relay.peers[q] = g
          \/ InQueue(AddPeer(q, g))
          \/ \E f \in DOMAIN sessions \ {g} : sessions[f].peer = q
      BY <3>1 DEF PeerQueue, LivePeerKnown, Holding, InQueue
    <3>3. QED
      BY <2>1, <3>2
  <2>7. QED
    BY <2>3, <2>4, <2>5, <2>6 DEF PeerQueue
<1>4. QED
  BY <1>1, <1>2, <1>3

\* What the other threads send, and which of the tables they touch.
LEMMA OtherThreads ==
  ASSUME Environment
  PROVE  /\ relay' = relay
         /\ \/ \E h \in Handle, p \in PeerId : Handshake(h, p)
            \/ \E h \in Handle : Accept(h) \/ Drop(h) \/ Release(h)
            \/ /\ sessions' = sessions
               /\ \/ inbox' = inbox
                  \/ \E n : inbox' = Append(inbox, n) /\ n.msg \notin {"AddPeer", "RemovePeer"}
         /\ \/ \E i \in ListenerId : ListenerClose(i) \/ ListenerReport(i)
            \/ listeners' = listeners /\ (inbox' = inbox \/ \E n : inbox' = Append(inbox, n))
<1> USE DEF AddPeer, RemovePeer, Recv, AddLocalGame, RemoveGameListener, AcceptGameConnection,
            AddGameConnection
<1>1. ASSUME NEW h \in Handle, NEW p \in PeerId, Handshake(h, p)
      PROVE  relay' = relay /\ listeners' = listeners /\ \E n : inbox' = Append(inbox, n)
  BY <1>1 DEF Handshake
<1>2. ASSUME NEW h \in Handle, Accept(h) \/ Drop(h) \/ Release(h)
      PROVE  /\ relay' = relay /\ listeners' = listeners
             /\ inbox' = inbox \/ \E n : inbox' = Append(inbox, n)
  BY <1>2 DEF Accept, Drop, Release, Report
<1>3. ASSUME NEW h \in Handle, NEW m \in PeerMessages, Receive(h, m)
      PROVE  /\ UNCHANGED <<relay, sessions, listeners>>
             /\ \E n : inbox' = Append(inbox, n) /\ n.msg \notin {"AddPeer", "RemovePeer"}
  BY <1>3 DEF Receive
<1>4. ASSUME NEW i \in ListenerId, NEW c \in Conn, ListenerAccept(i, c)
      PROVE  /\ UNCHANGED <<relay, sessions, listeners>>
             /\ \E n : inbox' = Append(inbox, n) /\ n.msg \notin {"AddPeer", "RemovePeer"}
  BY <1>4 DEF ListenerAccept
<1>5. ASSUME NEW i \in ListenerId, ListenerClose(i) \/ ListenerReport(i)
      PROVE  /\ UNCHANGED <<relay, sessions>>
             /\ \/ inbox' = inbox
                \/ \E n : inbox' = Append(inbox, n) /\ n.msg \notin {"AddPeer", "RemovePeer"}
  BY <1>5 DEF ListenerClose, ListenerReport, Report
<1>6. ASSUME NEW d \in dialing, DialFail(d)
      PROVE  UNCHANGED <<relay, sessions, listeners, inbox>>
  BY <1>6 DEF DialFail
<1>7. ASSUME NEW d \in dialing, NEW c \in Conn, DialOk(d, c)
      PROVE  /\ UNCHANGED <<relay, sessions, listeners>>
             /\ \E n : inbox' = Append(inbox, n) /\ n.msg \notin {"AddPeer", "RemovePeer"}
  BY <1>7 DEF DialOk
<1>8. ASSUME NEW c \in Conn, ConnClose(c)
      PROVE  UNCHANGED <<relay, sessions, listeners, inbox>>
  BY <1>8 DEF ConnClose
<1>9. ASSUME NEW pkt \in LanPackets, Discover(pkt)
      PROVE  /\ UNCHANGED <<relay, sessions, listeners>>
             /\ \E n : inbox' = Append(inbox, n) /\ n.msg \notin {"AddPeer", "RemovePeer"}
  BY <1>9 DEF Discover
<1>10. ASSUME NEW q \in echo, DiscoverEcho(q)
       PROVE  /\ UNCHANGED <<relay, sessions, listeners>>
              /\ \E n : inbox' = Append(inbox, n) /\ n.msg \notin {"AddPeer", "RemovePeer"}
  BY <1>10 DEF DiscoverEcho
<1>11. QED
  BY <1>1, <1>2, <1>3, <1>4, <1>5, <1>6, <1>7, <1>8, <1>9, <1>10 DEF Environment

-----------------------------------------------------------------------------
(* Listeners. *)

\* The listener of a game is a thread that was started for this very game;
\* unless it still has to report its end, the report is in the queue.
ListenerQueue ==
  \A l : RemoteIn(relay, l) =>
    \A x \in relay.games[l].listener :
      /\ x.id \in DOMAIN listeners
      /\ listeners[x.id].game = l
      /\ listeners[x.id].st \in {"open", "dead"} \/ InQueue(RemoveGameListener(l))

\* The thread of a new listener is the one add_game has put into the game.
LEMMA StartListenerThread ==
  ASSUME NEW fresh \in NewListener, NEW spawn,
         \A t \in spawn : [id |-> t.id, port |-> t.port] \in fresh
  PROVE  LET new == StartListener(spawn)
         IN /\ \A i \in DOMAIN listeners : i \in DOMAIN new /\ new[i] = listeners[i]
            /\ \A t \in spawn : t.id \in DOMAIN new /\ new[t.id].st = "open"
                                /\ \E u \in spawn : new[t.id].game = u.game
<1> DEFINE new == StartListener(spawn)
<1>1. CASE spawn = {}
  BY <1>1 DEF StartListener
<1>2. CASE spawn # {}
  <2> DEFINE u == CHOOSE x \in spawn : TRUE
  <2>1. u \in spawn
    BY <1>2
  <2>2. new = Insert(listeners, u.id, [port |-> u.port, game |-> u.game, st |-> "open"])
    BY <1>2 DEF StartListener
  <2> HIDE DEF u, new
  <2>3. u.id \notin DOMAIN listeners
    <3>1. [id |-> u.id, port |-> u.port] \in fresh
      BY <2>1
    <3>2. QED
      BY <3>1, NewListenerType
  <2>4. \A x, y \in fresh : x = y
    BY DEF NewListener
  <2>5. ASSUME NEW t \in spawn PROVE t.id = u.id
    <3>1. [id |-> t.id, port |-> t.port] = [id |-> u.id, port |-> u.port]
      BY <2>1, <2>4
    <3>2. [id |-> t.id, port |-> t.port].id = [id |-> u.id, port |-> u.port].id
      BY <3>1
    <3>3. QED
      BY <3>2
  <2>6. \A i \in DOMAIN listeners : i \in DOMAIN new /\ new[i] = listeners[i]
    BY <2>2, <2>3 DEF Insert
  <2>7. \A t \in spawn : t.id \in DOMAIN new /\ new[t.id].st = "open" /\ new[t.id].game = u.game
    BY <2>2, <2>5 DEF Insert
  <2>8. QED
    BY <2>1, <2>6, <2>7 DEF new
<1>3. QED
  BY <1>1, <1>2

\* Every iteration of Relay::run but two takes no RemoveGameListener and
\* leaves all listeners alone.
LEMMA RunKeepsListeners ==
  ASSUME Inv, Run
  PROVE  \/ RunRemoveGameListener \/ RunGame
         \/ /\ Head(inbox).msg # "RemoveGameListener"
            /\ KeepsListeners(relay, relay') /\ (PortsInv(relay) => PortsInv(relay'))
            /\ listeners' = listeners
<1> DEFINE m == Head(inbox)
<1>1. TablesInv(relay)
  BY DEF Inv
<1>2. CASE RunPing
  BY <1>2, SameKeeps DEF RunPing, TakeRecv, Take, Keeps
<1>3. CASE RunAddLocalGame
  BY <1>1, <1>3, AddLocalGameKeeps DEF RunAddLocalGame, Take, Keeps
<1>4. CASE RunConnect
  BY <1>1, <1>4, HandleConnectKeeps DEF RunConnect, TakeRecv, Take, Keeps
<1>5. CASE RunData
  BY <1>1, <1>5, HandleDataKeeps DEF RunData, TakeRecv, Take, Keeps
<1>6. CASE RunCloseConnection
  BY <1>1, <1>6, HandleCloseConnectionKeeps DEF RunCloseConnection, TakeRecv, Take, Keeps
<1>7. CASE RunAcceptGameConnection
  BY <1>1, <1>7, AcceptGameConnectionKeeps DEF RunAcceptGameConnection, Take, Keeps
<1>8. CASE RunAddGameConnection
  BY <1>1, <1>8, AddGameConnectionKeeps DEF RunAddGameConnection, Take, Keeps
<1>9. CASE RunAddPeer
  <2>1. relay'.games = relay.games /\ relay'.listen_ports = relay.listen_ports
    BY <1>1, <1>9 DEF RunAddPeer, add_peer, TablesInv, RelayType, RelayFields
  <2>2. KeepsListeners(relay, relay') /\ (PortsInv(relay) => PortsInv(relay'))
    BY <2>1 DEF KeepsListeners, PortsInv, RemoteIn
  <2>3. QED
    BY <1>9, <2>2 DEF RunAddPeer, Take
<1>10. CASE RunRemovePeer
  <2>1. KeepsListeners(relay, relay') /\ (PortsInv(relay) => PortsInv(relay'))
    BY <1>1, <1>10, RemovePeersPorts DEF RunRemovePeer, remove_peer, TablesInv, RelayType
  <2>2. QED
    BY <1>10, <2>1 DEF RunRemovePeer, Take
<1>11. QED
  BY <1>2, <1>3, <1>4, <1>5, <1>6, <1>7, <1>8, <1>9, <1>10 DEF Run

\* Threads that are started for one game.
OneGame(S) == \A t, u \in S : t.game = u.game

\* The spawned thread knows the game by the id add_game has put it under.
LEMMA HandleGameSpawnsOne ==
  ASSUME NEW s, TablesInv(s), NEW live, NEW from \in PeerId,
         NEW m, m.id \in Nat, NEW alive, NEW fresh \in SUBSET Listener
  PROVE  OneGame(handle_game(s, live, from, m, alive, fresh).spawn)
<1> DEFINE e == handle_game(s, live, from, m, alive, fresh)
           a == add_game(s, from, m.id, alive, fresh)
           l == IF <<from, m.id>> \in DOMAIN s.peer_games
                THEN s.peer_games[<<from, m.id>>] ELSE s.next_key
<1>1. DOMAIN a = {"relay", "out", "deliver", "spawn", "advert"}
  BY DEF add_game, Effect
<1>2. \E S : a.spawn = {[kind |-> "listener", id |-> x.id, port |-> x.port, game |-> l] : x \in S}
  <2>1. a.spawn = {} => a.spawn = {[kind |-> "listener", id |-> x.id, port |-> x.port, game |-> l]
                                     : x \in {}}
    OBVIOUS
  <2>2. a.spawn = {} \/ \E S : a.spawn =
          {[kind |-> "listener", id |-> x.id, port |-> x.port, game |-> l] : x \in S}
    BY DEF add_game, LocalId, next_id, Effect
  <2>3. QED
    BY <2>1, <2>2
<1> HIDE DEF a
<1>3. e.spawn = {} \/ e.spawn = a.spawn
  BY <1>1 DEF handle_game, Effect, a
<1> HIDE DEF l, e
<1>4. \A t \in e.spawn : t.game = l
  BY <1>2, <1>3
<1>5. QED
  BY <1>4 DEF e, OneGame

\* An iteration of Relay::run keeps ListenerQueue.
LEMMA RunListenerQueue ==
  ASSUME Inv, ListenerQueue, Run
  PROVE  ListenerQueue'
<1> DEFINE m == Head(inbox)
<1>1. /\ inbox # <<>> /\ inbox' = Tail(inbox) /\ inbox \in Seq(Message)
      /\ TablesInv(relay) /\ m \in Message
  BY RunKeepsPeers, TakeType DEF Inv, TypeOK
<1>2. \A n : InQueue(n) => n = m \/ InQueue(n)'
  BY <1>1, TailQueue
<1>3. \A l : InQueue(RemoveGameListener(l)) =>
        \/ InQueue(RemoveGameListener(l))'
        \/ m.msg = "RemoveGameListener" /\ m.game = l
  BY <1>2 DEF RemoveGameListener
<1> SUFFICES ASSUME NEW l, RemoteIn(relay', l), NEW x \in relay'.games[l].listener
             PROVE  /\ x.id \in DOMAIN listeners'
                    /\ listeners'[x.id].game = l
                    /\ \/ listeners'[x.id].st \in {"open", "dead"}
                       \/ InQueue(RemoveGameListener(l))'
  BY DEF ListenerQueue
<1>4. ASSUME NEW k, RemoteIn(relay, k), NEW y \in relay.games[k].listener
      PROVE  /\ y.id \in DOMAIN listeners
             /\ listeners[y.id].game = k
             /\ listeners[y.id].st \in {"open", "dead"} \/ InQueue(RemoveGameListener(k))
  BY <1>4 DEF ListenerQueue
<1>5. ASSUME NEW i \in Alive PROVE listeners[i].st = "open"
  BY DEF Alive
<1>6. CASE RunRemoveGameListener
  <2>1. /\ relay' = remove_game_listener(relay, m.game, Alive).relay
        /\ m.msg = "RemoveGameListener" /\ listeners' = listeners
    BY <1>6 DEF RunRemoveGameListener, Take
  <2>2. \/ l # m.game /\ RemoteIn(relay, l) /\ relay'.games[l] = relay.games[l]
        \/ StillListens(relay, l, x, Alive)
    BY <1>1, <2>1, RemoveGameListenerListener
  <2> HIDE DEF m
  <2>3. CASE l # m.game /\ RemoteIn(relay, l) /\ relay'.games[l] = relay.games[l]
    BY <1>3, <1>4, <2>1, <2>3
  <2>4. CASE StillListens(relay, l, x, Alive)
    BY <1>4, <1>5, <2>1, <2>4 DEF StillListens
  <2>5. QED
    BY <2>2, <2>3, <2>4
<1>7. CASE RunGame
  <2>1. m.msg = "Recv" /\ m.message.type = "Game"
    BY <1>7 DEF RunGame, TakeRecv, Take
  <2>2. m.peer \in PeerId /\ m.message.id \in Nat
    BY <1>1, <2>1, MessageArguments, RelayMessageArguments
  <2>3. PICK fresh \in NewListener :
          LET e == handle_game(relay, Live, m.peer, m.message, Alive, fresh)
          IN relay' = e.relay /\ listeners' = StartListener(e.spawn)
    BY <1>7 DEF RunGame
  <2> DEFINE e == handle_game(relay, Live, m.peer, m.message, Alive, fresh)
  <2>4. fresh \in SUBSET Listener
    BY NewListenerType
  <2>5. \/ RemoteIn(relay, l) /\ relay'.games[l] = relay.games[l]
        \/ StillListens(relay, l, x, Alive)
        \/ [kind |-> "listener", id |-> x.id, port |-> x.port, game |-> l] \in e.spawn
    BY <1>1, <2>2, <2>3, <2>4, HandleGameListener
  <2>6. \A t \in e.spawn : [id |-> t.id, port |-> t.port] \in fresh
    BY <1>1, <2>2, <2>4, HandleGameSpawn
  <2>7. OneGame(e.spawn)
    BY <1>1, <2>2, <2>4, HandleGameSpawnsOne
  <2> HIDE DEF e, m
  <2>8. /\ \A i \in DOMAIN listeners : i \in DOMAIN listeners' /\ listeners'[i] = listeners[i]
        /\ \A t \in e.spawn : /\ t.id \in DOMAIN listeners' /\ listeners'[t.id].st = "open"
                              /\ \E u \in e.spawn : listeners'[t.id].game = u.game
    BY <2>3, <2>6, StartListenerThread DEF e
  <2>9. CASE RemoteIn(relay, l) /\ relay'.games[l] = relay.games[l]
    BY <1>3, <1>4, <2>1, <2>8, <2>9
  <2>10. CASE StillListens(relay, l, x, Alive)
    BY <1>4, <1>5, <2>8, <2>10 DEF StillListens
  <2>11. CASE [kind |-> "listener", id |-> x.id, port |-> x.port, game |-> l] \in e.spawn
    <3> DEFINE t == [kind |-> "listener", id |-> x.id, port |-> x.port, game |-> l]
    <3>1. t.id = x.id /\ t.game = l /\ t \in e.spawn
      BY <2>11
    <3> HIDE DEF t
    <3>2. QED
      BY <2>7, <2>8, <3>1 DEF OneGame
  <2>12. QED
    BY <2>5, <2>9, <2>10, <2>11
<1>8. CASE /\ m.msg # "RemoveGameListener" /\ KeepsListeners(relay, relay')
           /\ listeners' = listeners
  <2>1. RemoteIn(relay, l) /\ relay'.games[l] = relay.games[l]
    BY <1>8 DEF KeepsListeners, RemoteIn
  <2> HIDE DEF m
  <2>2. QED
    BY <1>3, <1>4, <1>8, <2>1
<1>9. QED
  BY <1>6, <1>7, <1>8, RunKeepsListeners

\* The steps of the other threads keep ListenerQueue: a listener thread that
\* ends reports it.
LEMMA OtherListenerQueue ==
  ASSUME Inv, ListenerQueue, relay' = relay,
         \/ \E i \in ListenerId : ListenerClose(i) \/ ListenerReport(i)
         \/ listeners' = listeners /\ (inbox' = inbox \/ \E n : inbox' = Append(inbox, n))
  PROVE  ListenerQueue'
<1>1. CASE listeners' = listeners /\ (inbox' = inbox \/ \E n : inbox' = Append(inbox, n))
  <2>1. \A n : InQueue(n) => InQueue(n)'
    BY <1>1, AppendQueue DEF Inv, TypeOK, InQueue
  <2>2. QED
    BY <1>1, <2>1 DEF ListenerQueue
<1>2. ASSUME NEW i \in ListenerId, ListenerClose(i)
      PROVE  ListenerQueue'
  BY <1>2 DEF ListenerClose, Alive, ListenerQueue, InQueue, Inv, TypeOK, IsMap, ListenerThread
<1>3. ASSUME NEW i \in ListenerId, ListenerReport(i)
      PROVE  ListenerQueue'
  <2>1. /\ i \in DOMAIN listeners /\ listeners[i].st = "dead"
        /\ listeners' = [listeners EXCEPT ![i].st = "reported"]
        /\ inbox' = Append(inbox, RemoveGameListener(listeners[i].game))
    BY <1>3 DEF ListenerReport, Report
  <2>2. /\ \A n : InQueue(n) => InQueue(n)'
        /\ \A l : l = listeners[i].game => InQueue(RemoveGameListener(l))'
    BY <2>1, AppendQueue DEF Inv, TypeOK, InQueue
  <2>3. /\ DOMAIN listeners' = DOMAIN listeners
        /\ \A k \in DOMAIN listeners :
             /\ listeners'[k].game = listeners[k].game
             /\ k # i => listeners'[k].st = listeners[k].st
    BY <2>1 DEF Inv, TypeOK, IsMap, ListenerThread
  <2>4. QED
    BY <2>2, <2>3 DEF ListenerQueue
<1>4. QED
  BY <1>1, <1>2, <1>3

-----------------------------------------------------------------------------
(* Ports. *)

\* Every iteration of Relay::run strikes off the ports it has no use for.
LEMMA RunPorts ==
  ASSUME Inv, PortsInv(relay), Run
  PROVE  PortsInv(relay')
<1> DEFINE m == Head(inbox)
<1>1. TablesInv(relay) /\ m \in Message
  BY RunKeepsPeers, TakeType DEF Inv, TypeOK
<1>2. CASE RunRemoveGameListener
  BY <1>1, <1>2, RemoveGameListenerListener DEF RunRemoveGameListener
<1>3. CASE RunGame
  <2>1. m.msg = "Recv" /\ m.message.type = "Game"
    BY <1>3 DEF RunGame, TakeRecv, Take
  <2>2. m.peer \in PeerId /\ m.message.id \in Nat
    BY <1>1, <2>1, MessageArguments, RelayMessageArguments
  <2>3. PICK fresh \in NewListener :
          relay' = handle_game(relay, Live, m.peer, m.message, Alive, fresh).relay
    BY <1>3 DEF RunGame
  <2>4. fresh \in SUBSET Listener
    BY NewListenerType
  <2>5. QED
    BY <1>1, <2>2, <2>3, <2>4, HandleGameListener
<1>4. QED
  BY <1>2, <1>3, RunKeepsListeners

-----------------------------------------------------------------------------
(* Theorems. *)

\* The three invariants hold at the start.
LEMMA InitQueues == Init => PeerQueue /\ ListenerQueue /\ PortsInv(relay)
BY DEF Init, NewRelay, EmptyMap, PeerQueue, KnownPeers, ComingPeers, LeavingPeers, LivePeerKnown,
       ListenerQueue, PortsInv, RemoteIn

\* Every step keeps PeerQueue.
LEMMA NextPeerQueue == Inv /\ PeerQueue /\ [Next]_vars => PeerQueue'
<1> SUFFICES ASSUME Inv, PeerQueue, [Next]_vars PROVE PeerQueue'
  OBVIOUS
<1>1. CASE Environment
  BY <1>1, OtherThreads, HandshakePeerQueue, SessionPeerQueue, OtherPeerQueue
<1>2. CASE UNCHANGED vars
  BY <1>2, OtherPeerQueue DEF vars
<1>3. QED
  BY <1>1, <1>2, RunPeerQueue DEF Next

\* Every step keeps ListenerQueue.
LEMMA NextListenerQueue == Inv /\ ListenerQueue /\ [Next]_vars => ListenerQueue'
<1> SUFFICES ASSUME Inv, ListenerQueue, [Next]_vars PROVE ListenerQueue'
  OBVIOUS
<1>1. CASE Environment
  BY <1>1, OtherThreads, OtherListenerQueue
<1>2. CASE UNCHANGED vars
  BY <1>2, OtherListenerQueue DEF vars
<1>3. QED
  BY <1>1, <1>2, RunListenerQueue DEF Next

\* No order of AddPeer, RemovePeer and failing sends leaves an entry for a
\* connection that has ended in the peer table without its RemovePeer coming.
THEOREM DeadPeersLeave == Spec => []DeadPeerPending
<1>1. PeerQueue => DeadPeerPending
  BY DEF PeerQueue, KnownPeers, Holding, DeadPeerPending, Live, InQueue
<1>2. QED
  BY <1>1, InitQueues, NextPeerQueue, SpecInv, PTL DEF Spec

\* A connection that is its peer's only one so far is the one the relay knows
\* the peer by, once AddPeer is handled and as long as it lasts.
THEOREM LivePeersStay == Spec => []LivePeerKnown
<1>1. PeerQueue => LivePeerKnown
  BY DEF PeerQueue
<1>2. QED
  BY <1>1, InitQueues, NextPeerQueue, SpecInv, PTL DEF Spec

\* A game whose listener thread has ended learns of it: the thread has yet to
\* report, under the id of this very game, or the report is in the queue.
THEOREM DeadListenersLeave == Spec => []DeadListenerPending
<1>1. ListenerQueue => DeadListenerPending
  BY DEF ListenerQueue, DeadListenerPending, RemoteIn, Alive, InQueue
<1>2. QED
  BY <1>1, InitQueues, NextListenerQueue, SpecInv, PTL DEF Spec

\* Whichever ports the operating system hands out again, and however listeners
\* end and are replaced, listen_ports holds no port that no game's listener has.
THEOREM ListenPortsReleased == Spec => []ListenPortsInUse
<1>1. Inv /\ PortsInv(relay) /\ [Next]_vars => PortsInv(relay)'
  <2> SUFFICES ASSUME Inv, PortsInv(relay), [Next]_vars PROVE PortsInv(relay')
    BY DEF PortsInv, RemoteIn
  <2>1. CASE Environment
    BY <2>1, OtherThreads
  <2>2. CASE UNCHANGED vars
    BY <2>2 DEF vars
  <2>3. QED
    BY <2>1, <2>2, RunPorts DEF Next
<1>2. PortsInv(relay) => ListenPortsInUse
  BY DEF PortsInv, ListenPortsInUse, RemoteIn
<1>3. QED
  BY <1>1, <1>2, InitQueues, SpecInv, PTL DEF Spec

=============================================================================
