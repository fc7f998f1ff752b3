------------------------- MODULE RelayProcessProofs -------------------------
(***************************************************************************)
(* What holds of one relay process for every set of peers, handles,        *)
(* listeners, ports and messages: its types, the agreement of its tables   *)
(* and the permanence of the ids it gives out.                             *)
(***************************************************************************)
EXTENDS RelayProcess, RelayTablesProofs

\* The inductive invariant: the types, and the tables agree.
Inv == TypeOK /\ TablesInv(relay)

-----------------------------------------------------------------------------
(* The queue. *)

\* Sending a message keeps the queue well typed.
LEMMA AppendType ==
  ASSUME inbox \in Seq(Message), NEW m \in Message
  PROVE  Append(inbox, m) \in Seq(Message)
OBVIOUS

\* A message taken from the queue is a Message, and the rest stays typed.
LEMMA TakeType ==
  ASSUME inbox \in Seq(Message), inbox # <<>>
  PROVE  Head(inbox) \in Message /\ Tail(inbox) \in Seq(Message)
OBVIOUS

\* The arguments of each message have the types of enum Message.
LEMMA MessageArguments ==
  ASSUME NEW m \in Message
  PROVE  /\ m.msg = "AddPeer" => m.peer \in PeerId /\ m.handle \in Handle
         /\ m.msg = "RemovePeer" => m.peer \in PeerId
         /\ m.msg = "Recv" => m.peer \in PeerId /\ m.message \in RelayMessage
         /\ m.msg = "AddLocalGame" => m.from \in SocketAddr /\ m.port \in Port
         /\ m.msg = "RemoveGameListener" => m.game \in Nat
         /\ m.msg = "AcceptGameConnection" => m.game \in Nat /\ m.conn \in Conn
         /\ m.msg = "AddGameConnection" =>
              m.peer \in PeerId /\ m.cid \in ConnectionId /\ m.conn \in Conn
BY DEF Message

\* The arguments of each message of a peer that the handlers store.
LEMMA RelayMessageArguments ==
  ASSUME NEW m \in RelayMessage
  PROVE  /\ m.type = "Game" => m.id \in Nat /\ m.hops \in Nat
         /\ m.type = "Connect" => m.game_id \in Nat /\ m.connection_id \in Nat
BY DEF RelayMessage, RelayPing

\* What each thread puts into the queue is a Message.
LEMMA MessageTypes ==
  /\ \A p \in PeerId, h \in Handle : AddPeer(p, h) \in Message
  /\ \A p \in PeerId : RemovePeer(p) \in Message
  /\ \A p \in PeerId, m \in RelayMessage : Recv(p, m) \in Message
  /\ \A a \in SocketAddr, q \in Port : AddLocalGame(a, q) \in Message
  /\ \A l \in Nat : RemoveGameListener(l) \in Message
  /\ \A l \in Nat, c \in Conn : AcceptGameConnection(l, c) \in Message
  /\ \A p \in PeerId, d \in ConnectionId, c \in Conn : AddGameConnection(p, d, c) \in Message
<1>1. /\ \A p \in PeerId, h \in Handle : AddPeer(p, h) \in Message
      /\ \A p \in PeerId : RemovePeer(p) \in Message
  BY DEF AddPeer, RemovePeer, Message
<1>2. \A p \in PeerId, m \in RelayMessage : Recv(p, m) \in Message
  BY DEF Recv, Message
<1>3. \A a \in SocketAddr, q \in Port : AddLocalGame(a, q) \in Message
  BY DEF AddLocalGame, Message
<1>4. \A l \in Nat : RemoveGameListener(l) \in Message
  BY DEF RemoveGameListener, Message
<1>5. \A l \in Nat, c \in Conn : AcceptGameConnection(l, c) \in Message
  BY DEF AcceptGameConnection, Message
<1>6. \A p \in PeerId, d \in ConnectionId, c \in Conn : AddGameConnection(p, d, c) \in Message
  BY DEF AddGameConnection, Message
<1>7. QED
  BY <1>1, <1>2, <1>3, <1>4, <1>5, <1>6

-----------------------------------------------------------------------------
(* The threads the main thread starts. *)

\* add_game starts a listener thread for what GameListener::new() returned,
\* under the id the tables know the game by, and multicasts its ports.
LEMMA HandleGameSpawn ==
  ASSUME NEW s, TablesInv(s), NEW live, NEW from \in PeerId,
         NEW m, m.id \in Nat, NEW alive, NEW fresh \in SUBSET Listener
  PROVE  LET e == handle_game(s, live, from, m, alive, fresh)
         IN /\ \A t \in e.spawn : /\ [id |-> t.id, port |-> t.port] \in fresh
                                  /\ t.game \in Nat
            /\ e.advert \subseteq Port
<1> DEFINE e == handle_game(s, live, from, m, alive, fresh)
           a == add_game(s, from, m.id, alive, fresh)
<1>1. CASE from \notin DOMAIN s.peers
  BY <1>1 DEF handle_game, Effect
<1>2. CASE from \in DOMAIN s.peers
  <2>1. e.spawn = a.spawn /\ e.advert = a.advert
    <3>1. DOMAIN a = {"relay", "out", "deliver", "spawn", "advert"}
      BY DEF add_game, Effect
    <3> HIDE DEF a
    <3>2. QED
      BY <1>2, <3>1 DEF handle_game, a
  <2> DEFINE key == <<from, m.id>>
             l == IF key \in DOMAIN s.peer_games THEN s.peer_games[key] ELSE s.next_key
             game == IF l \in DOMAIN s.games THEN s.games[l] ELSE Remote(from, m.id, {})
             kept == {x \in game.listener : x.id \in alive}
             opened == IF kept = {} THEN fresh ELSE {}
  <2>2. \/ a.spawn = {} /\ a.advert = {}
        \/ /\ game.kind # "local"
           /\ a.spawn = {[kind |-> "listener", id |-> x.id, port |-> x.port, game |-> l]
                           : x \in opened}
           /\ a.advert = PortsOf(kept \cup opened)
    BY DEF add_game, LocalId, next_id, Kept, Effect
  <2>3. l \in Nat
    BY DEF TablesInv, RelayType, IsMap
  <2>4. game.kind # "local" => game.listener \subseteq Listener
    <3>1. CASE l \in DOMAIN s.games
      <4>1. game \in LocalGame \cup RemoteGame
        BY <3>1 DEF TablesInv, RelayType, IsMap
      <4> HIDE DEF game
      <4>2. QED
        BY <4>1 DEF LocalGame, RemoteGame
    <3>2. CASE l \notin DOMAIN s.games
      BY <3>2 DEF Remote
    <3>3. QED
      BY <3>1, <3>2
  <2> HIDE DEF l, game, a
  <2>5. e.advert \subseteq Port
    BY <2>1, <2>2, <2>4 DEF PortsOf, Listener
  <2>6. \A x \in opened : [id |-> x.id, port |-> x.port] = x
    BY DEF Listener
  <2>7. \A t \in a.spawn : [id |-> t.id, port |-> t.port] \in fresh /\ t.game \in Nat
    BY <2>2, <2>3, <2>6
  <2> HIDE DEF e
  <2>8. QED
    BY <2>1, <2>5, <2>7 DEF e
<1>3. QED
  BY <1>1, <1>2

\* What GameListener::new() may return is a listener with a new id.
LEMMA NewListenerType ==
  ASSUME NEW fresh \in NewListener
  PROVE  /\ fresh \in SUBSET Listener
         /\ \A x \in fresh : x.id \notin DOMAIN listeners
BY DEF NewListener, Listener

\* connect_local starts a thread that knows its peer, the peer's connection
\* and its connection id.
LEMMA HandleConnectSpawn ==
  ASSUME NEW s, TablesInv(s), NEW live, NEW from \in PeerId, NEW m, m.connection_id \in Nat
  PROVE  \A t \in handle_connect(s, live, from, m).spawn :
           t.from \in PeerId /\ t.cid \in ConnectionId /\ t.peer_tx \in Handle
<1> DEFINE cid == [id |-> m.connection_id, local |-> FALSE]
<1>1. cid \in ConnectionId
  BY DEF ConnectionId
<1>2. forward_connect(s, live, from, s.games[m.game_id].peer_id,
                      s.games[m.game_id].remote_game_id, m).spawn = {}
  BY DEF forward_connect, Effect
<1>3. \A t \in connect_local(s, from, m.game_id, cid).spawn :
        t.from = from /\ t.cid = cid /\ t.peer_tx \in Handle
  <2> HIDE DEF cid
  <2>1. \/ connect_local(s, from, m.game_id, cid).spawn = {}
        \/ /\ from \in DOMAIN s.peers
           /\ connect_local(s, from, m.game_id, cid).spawn =
                {[kind |-> "connect", from |-> from, cid |-> cid, game |-> m.game_id,
                  addr |-> s.games[m.game_id].addr, peer_tx |-> s.peers[from]]}
    BY DEF connect_local, Effect
  <2>2. from \in DOMAIN s.peers => s.peers[from] \in Handle
    BY DEF TablesInv, RelayType, IsMap
  <2>3. QED
    BY <2>1, <2>2
<1>4. \/ handle_connect(s, live, from, m).spawn = {}
      \/ handle_connect(s, live, from, m).spawn = connect_local(s, from, m.game_id, cid).spawn
  BY <1>2 DEF handle_connect, RemoteId, Effect
<1> HIDE DEF cid
<1>5. QED
  BY <1>1, <1>3, <1>4

\* So does the thread that accept_game_connection starts.
LEMMA AcceptGameConnectionSpawn ==
  ASSUME NEW s, TablesInv(s), NEW live, NEW l, NEW c
  PROVE  \A t \in accept_game_connection(s, live, l, c).spawn : t.peer_tx \in Handle
<1> DEFINE p == s.games[l].peer_id
           cid == NewConnectionId(s, p)
           e == accept_game_connection(s, live, l, c)
<1>1. \/ e.spawn = {}
      \/ /\ p \in DOMAIN s.peers
         /\ e.spawn = {[kind |-> "accepted", conn |-> c, cid |-> cid, peer_tx |-> s.peers[p]]}
  BY DEF accept_game_connection, Effect
<1>2. p \in DOMAIN s.peers => s.peers[p] \in Handle
  BY DEF TablesInv, RelayType, IsMap
<1> HIDE DEF p, cid, e
<1>3. QED
  BY <1>1, <1>2 DEF e

\* A record with a state and a set of handles describes a game connection.
LEMMA GameThreadType ==
  ASSUME NEW st \in {"free", "queued", "waiting", "running", "closed"}, NEW tx \in SUBSET Handle
  PROVE  GameThread(st, tx) \in GameConnection
BY DEF GameThread, GameConnection

-----------------------------------------------------------------------------
(* The steps of the main thread. *)

\* Every iteration of Relay::run keeps the types and the tables in order.
LEMMA RunInv ==
  ASSUME Inv, Run
  PROVE  Inv' /\ KeepsIds(relay, relay')
<1> DEFINE m == Head(inbox)
<1>1. inbox # <<>> /\ inbox' = Tail(inbox)
  BY DEF Run, RunPing, RunAddPeer, RunRemovePeer, RunAddLocalGame, RunRemoveGameListener,
         RunGame, RunConnect, RunData, RunCloseConnection, RunAcceptGameConnection,
         RunAddGameConnection, TakeRecv, Take
<1>2. m \in Message /\ inbox' \in Seq(Message)
  BY <1>1, TakeType DEF Inv, TypeOK
<1>3. CASE RunPing
  <2>1. relay' = relay /\ KeepsIds(relay, relay)
    BY <1>3, KeepsIdsRefl DEF RunPing, Inv
  <2>2. QED
    BY <1>2, <1>3, <2>1 DEF RunPing, Inv, TypeOK
<1>4. CASE RunAddPeer
  <2>1. m.peer \in PeerId /\ m.handle \in Handle
    BY <1>2, <1>4, MessageArguments DEF RunAddPeer, Take
  <2>2. TablesInv(relay') /\ KeepsIds(relay, relay')
    BY <1>4, <2>1, AddPeerInv DEF RunAddPeer, Inv
  <2>3. QED
    BY <1>2, <1>4, <2>2 DEF RunAddPeer, Inv, TypeOK, TablesInv
<1>5. CASE RunRemovePeer
  <2>1. TablesInv(relay') /\ KeepsIds(relay, relay')
    BY <1>5, RemovePeersInv DEF RunRemovePeer, remove_peer, Inv
  <2>2. QED
    BY <1>2, <1>5, <2>1 DEF RunRemovePeer, Inv, TypeOK, TablesInv
<1>6. CASE RunAddLocalGame
  <2>1. m.from \in SocketAddr /\ m.port \in Port
    BY <1>2, <1>6, MessageArguments DEF RunAddLocalGame, Take
  <2>2. TablesInv(relay') /\ KeepsIds(relay, relay')
    BY <1>6, <2>1, AddLocalGameInv DEF RunAddLocalGame, Inv
  <2>3. QED
    BY <1>2, <1>6, <2>2 DEF RunAddLocalGame, Inv, TypeOK, TablesInv
<1>7. CASE RunRemoveGameListener
  <2>1. m.game \in Nat
    BY <1>2, <1>7, MessageArguments DEF RunRemoveGameListener, Take
  <2>2. TablesInv(relay') /\ KeepsIds(relay, relay')
    BY <1>7, <2>1, RemoveGameListenerInv DEF RunRemoveGameListener, Inv
  <2>3. QED
    BY <1>2, <1>7, <2>2 DEF RunRemoveGameListener, Inv, TypeOK, TablesInv
<1>8. CASE RunGame
  <2>1. m.peer \in PeerId /\ m.message.id \in Nat
    <3>1. m.peer \in PeerId /\ m.message \in RelayMessage /\ m.message.type = "Game"
      BY <1>2, <1>8, MessageArguments DEF RunGame, TakeRecv, Take
    <3>2. QED
      BY <3>1, RelayMessageArguments
  <2>2. PICK fresh \in NewListener :
          LET e == handle_game(relay, Live, m.peer, m.message, Alive, fresh)
          IN /\ relay' = e.relay
             /\ listeners' = StartListener(e.spawn)
             /\ echo' = echo \cup e.advert
    BY <1>8 DEF RunGame
  <2> DEFINE e == handle_game(relay, Live, m.peer, m.message, Alive, fresh)
  <2>3. fresh \in SUBSET Listener
    BY NewListenerType
  <2>4. TablesInv(relay') /\ KeepsIds(relay, relay')
    BY <2>1, <2>2, <2>3, HandleGameInv DEF Inv
  <2>5. /\ \A t \in e.spawn : [id |-> t.id, port |-> t.port] \in fresh /\ t.game \in Nat
        /\ e.advert \subseteq Port
    BY <2>1, <2>3, HandleGameSpawn DEF Inv
  <2>6. IsMap(listeners', ListenerId, ListenerThread)
    <3> HIDE DEF e
    <3>1. CASE e.spawn = {}
      BY <2>2, <3>1 DEF e, StartListener, Inv, TypeOK
    <3>2. CASE e.spawn # {}
      <4> DEFINE t == CHOOSE x \in e.spawn : TRUE
      <4>1. t \in e.spawn
        BY <3>2
      <4>2. t.id \in ListenerId /\ t.port \in Port /\ t.game \in Nat
        BY <2>3, <2>5, <4>1 DEF Listener
      <4>3. listeners' = Insert(listeners, t.id, [port |-> t.port, game |-> t.game, st |-> "open"])
        BY <2>2, <3>2 DEF e, StartListener
      <4> HIDE DEF t
      <4>4. [port |-> t.port, game |-> t.game, st |-> "open"] \in ListenerThread
        BY <4>2 DEF ListenerThread
      <4>5. QED
        BY <4>2, <4>3, <4>4, InsertMap DEF Inv, TypeOK
    <3>3. QED
      BY <3>1, <3>2
  <2>7. echo' \in SUBSET Port
    BY <2>2, <2>5 DEF Inv, TypeOK
  <2>8. QED
    BY <1>2, <1>8, <2>4, <2>6, <2>7 DEF RunGame, Inv, TypeOK, TablesInv
<1>9. CASE RunConnect
  <2>1. m.peer \in PeerId /\ m.message.connection_id \in Nat
    <3>1. m.peer \in PeerId /\ m.message \in RelayMessage /\ m.message.type = "Connect"
      BY <1>2, <1>9, MessageArguments DEF RunConnect, TakeRecv, Take
    <3>2. QED
      BY <3>1, RelayMessageArguments
  <2> DEFINE e == handle_connect(relay, Live, m.peer, m.message)
  <2>2. /\ relay' = e.relay
        /\ dialing' = dialing \cup {[from |-> t.from, cid |-> t.cid, tx |-> t.peer_tx] : t \in e.spawn}
    BY <1>9 DEF RunConnect
  <2>3. TablesInv(relay') /\ KeepsIds(relay, relay')
    BY <2>1, <2>2, HandleConnectInv DEF Inv
  <2>4. \A t \in e.spawn : t.from \in PeerId /\ t.cid \in ConnectionId /\ t.peer_tx \in Handle
    BY <2>1, HandleConnectSpawn DEF Inv
  <2>5. dialing' \in SUBSET Dialer
    <3> HIDE DEF e
    <3>1. QED
      BY <2>2, <2>4 DEF Dialer, Inv, TypeOK
  <2>6. QED
    BY <1>2, <1>9, <2>3, <2>5 DEF RunConnect, Inv, TypeOK, TablesInv
<1>10. CASE RunData
  <2>1. TablesInv(relay') /\ KeepsIds(relay, relay')
    BY <1>10, HandleDataInv DEF RunData, Inv
  <2>2. conns' \in [Conn -> GameConnection]
    <3>1. \A c \in Conn : conns[c] \in GameConnection /\ conns[c].tx \in SUBSET Handle
      BY DEF Inv, TypeOK, GameConnection
    <3>2. \A c \in Conn : GameThread("running", conns[c].tx) \in GameConnection
      BY <3>1, GameThreadType
    <3>3. PICK D : conns' = [c \in Conn |->
                               IF conns[c].st = "waiting" /\ \E x \in D : x.tx = c
                               THEN GameThread("running", conns[c].tx) ELSE conns[c]]
      BY <1>10 DEF RunData
    <3>4. QED
      BY <3>1, <3>2, <3>3
  <2>3. QED
    BY <1>2, <1>10, <2>1, <2>2 DEF RunData, Inv, TypeOK, TablesInv
<1>11. CASE RunCloseConnection
  <2>1. TablesInv(relay') /\ KeepsIds(relay, relay')
    BY <1>11, HandleCloseConnectionInv DEF RunCloseConnection, Inv
  <2>2. QED
    BY <1>2, <1>11, <2>1 DEF RunCloseConnection, Inv, TypeOK, TablesInv
<1>12. CASE RunAcceptGameConnection
  <2>1. m.conn \in Conn
    BY <1>2, <1>12, MessageArguments DEF RunAcceptGameConnection, Take
  <2> DEFINE e == accept_game_connection(relay, Live, m.game, m.conn)
             gone == GameThread("closed", {})
             waiting == GameThread("waiting", {t.peer_tx : t \in e.spawn})
  <2>2. /\ relay' = e.relay
        /\ conns' = [conns EXCEPT ![m.conn] = IF e.spawn = {} THEN gone ELSE waiting]
    BY <1>12 DEF RunAcceptGameConnection
  <2>3. TablesInv(relay') /\ KeepsIds(relay, relay')
    BY <2>1, <2>2, AcceptGameConnectionInv DEF Inv
  <2>4. conns' \in [Conn -> GameConnection]
    <3>1. \A t \in e.spawn : t.peer_tx \in Handle
      BY AcceptGameConnectionSpawn DEF Inv
    <3> HIDE DEF e
    <3>2. gone \in GameConnection /\ waiting \in GameConnection
      BY <3>1, GameThreadType
    <3> HIDE DEF gone, waiting
    <3>3. QED
      BY <2>1, <2>2, <3>2 DEF Inv, TypeOK
  <2>5. QED
    BY <1>2, <1>12, <2>3, <2>4 DEF RunAcceptGameConnection, Inv, TypeOK, TablesInv
<1>13. CASE RunAddGameConnection
  <2>1. m.peer \in PeerId /\ m.cid \in ConnectionId /\ m.conn \in Conn
    BY <1>2, <1>13, MessageArguments DEF RunAddGameConnection, Take
  <2>2. TablesInv(relay') /\ KeepsIds(relay, relay')
    BY <1>13, <2>1, AddGameConnectionInv DEF RunAddGameConnection, Inv
  <2>3. QED
    BY <1>2, <1>13, <2>2 DEF RunAddGameConnection, Inv, TypeOK, TablesInv
<1>14. QED
  BY <1>3, <1>4, <1>5, <1>6, <1>7, <1>8, <1>9, <1>10, <1>11, <1>12, <1>13 DEF Run

-----------------------------------------------------------------------------
(* The steps of the other threads. *)

\* No other thread touches the tables, and what it sends is a Message.
LEMMA EnvironmentInv ==
  ASSUME Inv, Environment
  PROVE  Inv' /\ relay' = relay
<1> USE DEF Inv, TypeOK
<1>1. ASSUME NEW h \in Handle, NEW p \in PeerId, Handshake(h, p)
      PROVE  Inv' /\ relay' = relay
  <2>1. [peer |-> p, st |-> "pending"] \in Session
    BY DEF Session
  <2>2. IsMap(sessions', Handle, Session)
    BY <1>1, <2>1, InsertMap DEF Handshake
  <2>3. QED
    BY <1>1, <2>2, AppendType, MessageTypes DEF Handshake
<1>2. ASSUME NEW h \in Handle, NEW st \in {"running", "dropped", "closed"},
             h \in DOMAIN sessions, sessions' = [sessions EXCEPT ![h].st = st]
      PROVE  IsMap(sessions', Handle, Session) /\ sessions[h].peer \in PeerId
  BY <1>2 DEF IsMap, Session
<1>3. ASSUME NEW h \in Handle, Accept(h) \/ Drop(h) \/ Release(h)
      PROVE  Inv' /\ relay' = relay
  <2>1. CASE Accept(h)
    BY <1>2, <2>1 DEF Accept
  <2>2. CASE Drop(h)
    BY <1>2, <2>2, AppendType, MessageTypes DEF Drop, Report
  <2>3. CASE Release(h)
    BY <1>2, <2>3 DEF Release
  <2>4. QED
    BY <1>3, <2>1, <2>2, <2>3
<1>4. ASSUME NEW h \in Handle, NEW m \in PeerMessages, Receive(h, m)
      PROVE  Inv' /\ relay' = relay
  <2>1. sessions[h].peer \in PeerId /\ m \in RelayMessage
    BY <1>4, LanAssumption DEF Receive, IsMap, Session
  <2>2. QED
    BY <1>4, <2>1, AppendType, MessageTypes DEF Receive
<1>5. ASSUME NEW i \in ListenerId, NEW st \in {"dead", "reported"},
             i \in DOMAIN listeners, listeners' = [listeners EXCEPT ![i].st = st]
      PROVE  IsMap(listeners', ListenerId, ListenerThread)
  BY <1>5 DEF IsMap, ListenerThread
<1>6. ASSUME NEW i \in DOMAIN listeners
      PROVE  listeners[i].game \in Nat
  BY DEF IsMap, ListenerThread
<1>7. ASSUME NEW i \in ListenerId, NEW c \in Conn, ListenerAccept(i, c)
      PROVE  Inv' /\ relay' = relay
  <2>1. conns' \in [Conn -> GameConnection]
    BY <1>7, GameThreadType DEF ListenerAccept
  <2>2. QED
    BY <1>6, <1>7, <2>1, AppendType, MessageTypes DEF ListenerAccept, Alive
<1>8. ASSUME NEW i \in ListenerId, ListenerClose(i) \/ ListenerReport(i)
      PROVE  Inv' /\ relay' = relay
  <2>1. CASE ListenerClose(i)
    BY <1>5, <2>1 DEF ListenerClose, Alive
  <2>2. CASE ListenerReport(i)
    BY <1>5, <1>6, <2>2, AppendType, MessageTypes DEF ListenerReport, Report
  <2>3. QED
    BY <1>8, <2>1, <2>2
<1>9. ASSUME NEW d \in dialing, DialFail(d)
      PROVE  Inv' /\ relay' = relay
  BY <1>9 DEF DialFail
<1>10. ASSUME NEW d \in dialing, NEW c \in Conn, DialOk(d, c)
       PROVE  Inv' /\ relay' = relay
  <2>1. d.from \in PeerId /\ d.cid \in ConnectionId /\ d.tx \in Handle
    BY DEF Dialer
  <2>2. conns' \in [Conn -> GameConnection]
    BY <1>10, <2>1, GameThreadType DEF DialOk
  <2>3. QED
    BY <1>10, <2>1, <2>2, AppendType, MessageTypes DEF DialOk
<1>11. ASSUME NEW c \in Conn, ConnClose(c)
       PROVE  Inv' /\ relay' = relay
  <2>1. conns' \in [Conn -> GameConnection]
    BY <1>11, GameThreadType DEF ConnClose
  <2>2. QED
    BY <1>11, <2>1 DEF ConnClose
<1>12. ASSUME NEW pkt \in LanPackets, Discover(pkt)
       PROVE  Inv' /\ relay' = relay
  <2>1. pkt.from \in SocketAddr /\ pkt.port \in Port
    BY LanAssumption
  <2>2. QED
    BY <1>12, <2>1, AppendType, MessageTypes DEF Discover
<1>13. ASSUME NEW q \in echo, DiscoverEcho(q)
       PROVE  Inv' /\ relay' = relay
  <2>1. [ip |-> OwnIp, port |-> DiscoveryPort] \in SocketAddr
    BY LanAssumption, PortAssumption DEF SocketAddr
  <2>2. QED
    BY <1>13, <2>1, AppendType, MessageTypes DEF DiscoverEcho
<1> HIDE DEF Inv, TypeOK
<1>14. QED
  BY <1>1, <1>3, <1>4, <1>7, <1>8, <1>9, <1>10, <1>11, <1>12, <1>13 DEF Environment

-----------------------------------------------------------------------------
(* Theorems. *)

\* The process starts in order.
LEMMA InitInv == Init => Inv
<1> SUFFICES ASSUME Init PROVE Inv
  OBVIOUS
<1>1. TablesInv(relay)
  BY NewRelayInv DEF Init
<1>2. inbox \in Seq(Message)
  BY DEF Init
<1>3. conns \in [Conn -> GameConnection]
  BY GameThreadType DEF Init
<1>4. QED
  BY <1>1, <1>2, <1>3, EmptyIsMap DEF Init, Inv, TypeOK, TablesInv

\* Every step keeps it in order and gives no id another meaning.
LEMMA NextInv == Inv /\ [Next]_vars => Inv' /\ (KeepsIds(relay, relay') \/ relay' = relay)
<1> SUFFICES ASSUME Inv, [Next]_vars
             PROVE  Inv' /\ (KeepsIds(relay, relay') \/ relay' = relay)
  OBVIOUS
<1>1. CASE Run
  BY <1>1, RunInv
<1>2. CASE Environment
  BY <1>2, EnvironmentInv
<1>3. CASE UNCHANGED vars
  BY <1>3 DEF vars, Inv, TypeOK
<1>4. QED
  BY <1>1, <1>2, <1>3 DEF Next

\* The inductive invariant holds in every reachable state.
LEMMA SpecInv == Spec => []Inv
BY InitInv, NextInv, PTL DEF Spec

\* Whatever the peers, the players, the LAN and the user do, the tables, the
\* queue and the threads of a relay process keep their types.
THEOREM TypeCorrect == Spec => []TypeOK
<1>1. Inv => TypeOK
  BY DEF Inv
<1>2. QED
  BY <1>1, SpecInv, PTL

\* The maps of advertised games and of games agree in every reachable state:
\* an id that a peer's advertisement is known by leads to the remote game of
\* that peer, and an id that a LAN address is known by to the game there.
THEOREM GamesAgree == Spec => [](RelayedGamesAgree /\ LocalGamesAgree)
<1>1. Inv => RelayedGamesAgree /\ LocalGamesAgree
  BY DEF Inv, TablesInv, RelayedGamesAgree, LocalGamesAgree
<1>2. QED
  BY <1>1, SpecInv, PTL

\* No step of the process gives an id that it has handed out another meaning,
\* not even after the game it stood for is gone.
THEOREM IdsPermanent == Spec => IdsNeverRebound
<1>1. Inv /\ [Next]_vars => [KeepsIds(relay, relay')]_relay
  BY NextInv
<1>2. QED
  BY <1>1, SpecInv, PTL DEF Spec, IdsNeverRebound

=============================================================================
