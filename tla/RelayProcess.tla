---------------------------- MODULE RelayProcess ----------------------------
(***************************************************************************)
(* One relay process: the main thread of Relay::run, which owns the tables *)
(* and takes one message after another from its mpsc queue, and the threads*)
(* that feed the queue: relay connections, game listeners, game            *)
(* connections and the discovery listener.  The peers at the other end of  *)
(* the relay connections, the players, the LAN and the operating system    *)
(* are the environment: they may do anything the code allows them to.      *)
(***************************************************************************)
EXTENDS RelayTables, Sequences, FiniteSets

CONSTANTS
  OwnIp,           \* the address multicasts of this relay come from
  LanPackets,      \* discovery packets other hosts may multicast: [from, port]
  PeerMessages,    \* messages peers may send
  MaxInbox,        \* bound on the queue, for the inputs of the environment
  MaxConnectionId  \* bound on the connection ids this relay gives out

ASSUME LanAssumption ==
  /\ OwnIp \in Ip
  /\ LanPackets \subseteq [from : SocketAddr, port : Port]
  /\ PeerMessages \subseteq RelayMessage
  /\ MaxInbox \in Nat
  /\ MaxConnectionId \in Nat

VARIABLES
  relay,      \* the tables of the main thread
  inbox,      \* its queue: mpsc, first in first out
  sessions,   \* relay connections past their handshake: handle -> [peer, st]
  listeners,  \* game listener threads: id -> [port, game, st]
  dialing,    \* threads of connect_local that have not yet connected
  conns,      \* game connections and their threads: Conn -> [st, tx]
  echo        \* ports of this relay's own multicasts on their way back

vars == <<relay, inbox, sessions, listeners, dialing, conns, echo>>

-----------------------------------------------------------------------------
(* The threads. *)

Session == [peer : PeerId, st : {"pending", "running", "dropped", "closed"}]
ListenerThread == [port : Port, game : Nat, st : {"open", "dead", "reported"}]
Dialer == [from : PeerId, cid : ConnectionId, tx : Handle]

\* tx is the thread's peer_tx.  A connection that a listener has accepted is
\* queued until the main thread handles it, its thread waits in wait_for_data
\* and then is in run(); the thread of connect_local is in run() at once.
GameConnection ==
  [st : {"free", "queued", "waiting", "running", "closed"}, tx : SUBSET Handle]

GameThread(st, tx) == [st |-> st, tx |-> tx]

TypeOK ==
  /\ RelayType(relay)
  /\ inbox \in Seq(Message)
  /\ IsMap(sessions, Handle, Session)
  /\ IsMap(listeners, ListenerId, ListenerThread)
  /\ dialing \in SUBSET Dialer
  /\ conns \in [Conn -> GameConnection]
  /\ echo \in SUBSET Port

Init ==
  /\ relay = NewRelay
  /\ inbox = <<>>
  /\ sessions = EmptyMap
  /\ listeners = EmptyMap
  /\ dialing = {}
  /\ conns = [c \in Conn |-> GameThread("free", {})]
  /\ echo = {}

-----------------------------------------------------------------------------
(* What the main thread's calls depend on. *)

\* The handles whose connection still holds the receiving end.
Live == {h \in DOMAIN sessions : sessions[h].st # "closed"}

\* The listeners whose keepalive cell can still be upgraded.
Alive == {i \in DOMAIN listeners : listeners[i].st = "open"}

\* The game connections that hold the receiving end of their handle.
Open == {c \in Conn : conns[c].st \in {"queued", "waiting", "running"}}

BoundPorts == {listeners[i].port : i \in Alive}

\* What GameListener::new() may return: an error, or a listener on any port
\* that no socket is bound to, one that a listener has just closed included.
NewListener ==
  {{}} \cup {{[id |-> i, port |-> q]} :
               i \in ListenerId \ DOMAIN listeners, q \in Port \ BoundPorts}

Room == Len(inbox) < MaxInbox

-----------------------------------------------------------------------------
(* The main thread: one iteration of Relay::run. *)

Take(type) ==
  /\ inbox # <<>>
  /\ Head(inbox).msg = type
  /\ inbox' = Tail(inbox)

TakeRecv(type) ==
  /\ Take("Recv")
  /\ Head(inbox).message.type = type

RunPing ==
  /\ TakeRecv("Ping")
  /\ UNCHANGED <<relay, sessions, listeners, dialing, conns, echo>>

RunAddPeer ==
  /\ Take("AddPeer")
  /\ relay' = add_peer(relay, Head(inbox).peer, Head(inbox).handle)
  /\ UNCHANGED <<sessions, listeners, dialing, conns, echo>>

RunRemovePeer ==
  /\ Take("RemovePeer")
  /\ relay' = remove_peer(relay, Head(inbox).peer)
  /\ UNCHANGED <<sessions, listeners, dialing, conns, echo>>

RunAddLocalGame ==
  /\ Take("AddLocalGame")
  /\ relay' = add_local_game(relay, Live, Head(inbox).from, Head(inbox).port).relay
  /\ UNCHANGED <<sessions, listeners, dialing, conns, echo>>

RunRemoveGameListener ==
  /\ Take("RemoveGameListener")
  /\ relay' = remove_game_listener(relay, Head(inbox).game, Alive).relay
  /\ UNCHANGED <<sessions, listeners, dialing, conns, echo>>

\* The listener thread that add_game starts, if any.
StartListener(spawn) ==
  IF spawn = {}
  THEN listeners
  ELSE LET t == CHOOSE x \in spawn : TRUE
       IN Insert(listeners, t.id, [port |-> t.port, game |-> t.game, st |-> "open"])

\* The multicast of add_game comes back through the discovery listener.
RunGame ==
  /\ TakeRecv("Game")
  /\ \E fresh \in NewListener :
       LET e == handle_game(relay, Live, Head(inbox).peer, Head(inbox).message, Alive, fresh)
       IN /\ relay' = e.relay
          /\ listeners' = StartListener(e.spawn)
          /\ echo' = echo \cup e.advert
  /\ UNCHANGED <<sessions, dialing, conns>>

RunConnect ==
  /\ TakeRecv("Connect")
  /\ LET e == handle_connect(relay, Live, Head(inbox).peer, Head(inbox).message)
     IN /\ relay' = e.relay
        /\ dialing' = dialing \cup {[from |-> t.from, cid |-> t.cid, tx |-> t.peer_tx] : t \in e.spawn}
  /\ UNCHANGED <<sessions, listeners, conns, echo>>

\* The first data ends a connection's wait_for_data.
RunData ==
  /\ TakeRecv("Data")
  /\ LET e == handle_data(relay, Live, Open, Head(inbox).peer, Head(inbox).message)
     IN /\ relay' = e.relay
        /\ conns' = [c \in Conn |->
                       IF conns[c].st = "waiting" /\ \E x \in e.deliver : x.tx = c
                       THEN GameThread("running", conns[c].tx) ELSE conns[c]]
  /\ UNCHANGED <<sessions, listeners, dialing, echo>>

RunCloseConnection ==
  /\ TakeRecv("CloseConnection")
  /\ relay' = handle_close_connection(relay, Head(inbox).peer, Head(inbox).message).relay
  /\ UNCHANGED <<sessions, listeners, dialing, conns, echo>>

\* A connection that accept_game_connection returns early on is dropped.
RunAcceptGameConnection ==
  /\ Take("AcceptGameConnection")
  /\ LET c == Head(inbox).conn
         e == accept_game_connection(relay, Live, Head(inbox).game, c)
     IN /\ relay' = e.relay
        /\ conns' = [conns EXCEPT ![c] =
                       IF e.spawn = {} THEN GameThread("closed", {})
                       ELSE GameThread("waiting", {t.peer_tx : t \in e.spawn})]
  /\ UNCHANGED <<sessions, listeners, dialing, echo>>

RunAddGameConnection ==
  /\ Take("AddGameConnection")
  /\ relay' = add_game_connection(relay, Live, Head(inbox).peer, Head(inbox).cid,
                                  Head(inbox).conn).relay
  /\ UNCHANGED <<sessions, listeners, dialing, conns, echo>>

Run ==
  \/ RunAddPeer \/ RunRemovePeer
  \/ RunAddLocalGame \/ RunRemoveGameListener
  \/ RunPing \/ RunGame \/ RunConnect \/ RunData \/ RunCloseConnection
  \/ RunAcceptGameConnection \/ RunAddGameConnection

-----------------------------------------------------------------------------
(* Relay connection threads. *)

\* PeerConnection::new: the handshake has told the peer's static key.  The
\* peer enters the queue before anyone has decided whether to accept it.
Handshake(h, p) ==
  /\ Room
  /\ h \in Handle \ DOMAIN sessions
  /\ sessions' = Insert(sessions, h, [peer |-> p, st |-> "pending"])
  /\ inbox' = Append(inbox, AddPeer(p, h))
  /\ UNCHANGED <<relay, listeners, dialing, conns, echo>>

\* RelayHandle::accept goes on after fun said yes; RelayHandle::connect goes
\* on at once.
Accept(h) ==
  /\ h \in DOMAIN sessions
  /\ sessions[h].st = "pending"
  /\ sessions' = [sessions EXCEPT ![h].st = "running"]
  /\ UNCHANGED <<relay, inbox, listeners, dialing, conns, echo>>

\* PeerConnection::run passes on a message it has read.
Receive(h, m) ==
  /\ Room
  /\ h \in DOMAIN sessions
  /\ sessions[h].st = "running"
  /\ m.type = "Connect" =>
       \A p \in DOMAIN relay.peers : relay.next_connection_id[p].id < MaxConnectionId
  /\ inbox' = Append(inbox, Recv(sessions[h].peer, m))
  /\ UNCHANGED <<relay, sessions, listeners, dialing, conns, echo>>

\* Faulty: a thread ends without a word.
Report_lost(m) == UNCHANGED inbox

\* What a thread sends last.
Report(m) == inbox' = Append(inbox, m)

\* The connection was refused, or run() returned: Drop for PeerConnection ...
Drop(h) ==
  /\ h \in DOMAIN sessions
  /\ sessions[h].st \in {"pending", "running"}
  /\ sessions' = [sessions EXCEPT ![h].st = "dropped"]
  /\ Report(RemovePeer(sessions[h].peer))
  /\ UNCHANGED <<relay, listeners, dialing, conns, echo>>

\* ... after which its fields go, the receiving end of the handle with them.
Release(h) ==
  /\ h \in DOMAIN sessions
  /\ sessions[h].st = "dropped"
  /\ sessions' = [sessions EXCEPT ![h].st = "closed"]
  /\ UNCHANGED <<relay, inbox, listeners, dialing, conns, echo>>

-----------------------------------------------------------------------------
(* Game listener threads: GameListener::run and the closure around it.     *)
(* The keepalive flag is abstracted: a listener may time out at any time.  *)

ListenerAccept(i, c) ==
  /\ Room
  /\ i \in Alive
  /\ conns[c].st = "free"
  /\ conns' = [conns EXCEPT ![c] = GameThread("queued", {})]
  /\ inbox' = Append(inbox, AcceptGameConnection(listeners[i].game, c))
  /\ UNCHANGED <<relay, sessions, listeners, dialing, echo>>

\* run() returns: the keepalive cell and the socket are gone.
ListenerClose(i) ==
  /\ i \in Alive
  /\ listeners' = [listeners EXCEPT ![i].st = "dead"]
  /\ UNCHANGED <<relay, inbox, sessions, dialing, conns, echo>>

\* The closure around run() ends.
ListenerReport(i) ==
  /\ i \in DOMAIN listeners
  /\ listeners[i].st = "dead"
  /\ listeners' = [listeners EXCEPT ![i].st = "reported"]
  /\ Report(RemoveGameListener(listeners[i].game))
  /\ UNCHANGED <<relay, sessions, dialing, conns, echo>>

-----------------------------------------------------------------------------
(* Game connection threads and the discovery listener. *)

\* The thread of connect_local has connected to the game.  A member of dialing
\* stands for all threads that dial for the same connection and id, so it may
\* stay.
DialOk(d, c) ==
  /\ Room
  /\ d \in dialing
  /\ conns[c].st = "free"
  /\ conns' = [conns EXCEPT ![c] = GameThread("running", {d.tx})]
  /\ dialing' \in {dialing, dialing \ {d}}
  /\ inbox' = Append(inbox, AddGameConnection(d.from, d.cid, c))
  /\ UNCHANGED <<relay, sessions, listeners, echo>>

DialFail(d) ==
  /\ d \in dialing
  /\ dialing' = dialing \ {d}
  /\ UNCHANGED <<relay, inbox, sessions, listeners, conns, echo>>

\* GameConnection::run returns, wherever the connection has ended: its
\* receiving end and the thread's peer_tx go.
ConnClose(c) ==
  /\ conns[c].st = "running"
  /\ conns' = [conns EXCEPT ![c] = GameThread("closed", {})]
  /\ UNCHANGED <<relay, inbox, sessions, listeners, dialing, echo>>

\* DiscoveryListener::run hears a game of the LAN ...
Discover(pkt) ==
  /\ Room
  /\ inbox' = Append(inbox, AddLocalGame(pkt.from, pkt.port))
  /\ UNCHANGED <<relay, sessions, listeners, dialing, conns, echo>>

\* ... or this relay's own multicast.
DiscoverEcho(q) ==
  /\ Room
  /\ q \in echo
  /\ echo' = echo \ {q}
  /\ inbox' = Append(inbox, AddLocalGame([ip |-> OwnIp, port |-> DiscoveryPort], q))
  /\ UNCHANGED <<relay, sessions, listeners, dialing, conns>>

Environment ==
  \/ \E h \in Handle, p \in PeerId : Handshake(h, p)
  \/ \E h \in Handle : Accept(h) \/ Drop(h) \/ Release(h)
  \/ \E h \in Handle, m \in PeerMessages : Receive(h, m)
  \/ \E i \in ListenerId, c \in Conn : ListenerAccept(i, c)
  \/ \E i \in ListenerId : ListenerClose(i) \/ ListenerReport(i)
  \/ \E d \in dialing : DialFail(d) \/ \E c \in Conn : DialOk(d, c)
  \/ \E c \in Conn : ConnClose(c)
  \/ \E pkt \in LanPackets : Discover(pkt)
  \/ \E q \in echo : DiscoverEcho(q)

Next == Run \/ Environment

Spec == Init /\ [][Next]_vars

\* Faulty: the write loop goes on without senders.
WriteLoopEnds_never(h) == FALSE /\ Drop(h)

\* The game connections with a sender in the tables.
Entered == {relay.local_connections[k] : k \in DOMAIN relay.local_connections}

\* The write loop of a relay connection ends once the last sender is gone:
\* neither the peer table, nor an AddPeer in the queue, nor the thread of a
\* game connection, waiting, running or still dialling, holds one.
WriteLoopEnds(h) ==
  /\ h \in DOMAIN sessions
  /\ sessions[h].st = "running"
  /\ \A p \in DOMAIN relay.peers : relay.peers[p] # h
  /\ \A j \in 1..Len(inbox) : inbox[j].msg = "AddPeer" => inbox[j].handle # h
  /\ \A c \in Conn : h \notin conns[c].tx
  /\ \A d \in dialing : d.tx # h
  /\ Drop(h)

\* So does the write loop of a running game connection.
GameWriteLoopEnds(c) ==
  /\ c \notin Entered
  /\ \A j \in 1..Len(inbox) : inbox[j].msg = "AddGameConnection" => inbox[j].conn # c
  /\ ConnClose(c)

\* GAME_CONNECT_TIMEOUT bounds the time a thread dials.
DialEnds(h) == \E d \in dialing : d.tx = h /\ (DialFail(d) \/ \E c \in Conn : DialOk(d, c))

\* Relay::run never blocks while its queue holds a message, a listener thread
\* whose run() has returned reports it at once, write loops without senders
\* end, and so do dials.  Nothing else is fair: players, peers, the user and
\* the LAN may stop at any time.
Fairness ==
  /\ WF_vars(Run)
  /\ \A i \in ListenerId : WF_vars(ListenerReport(i))
  /\ \A h \in Handle : WF_vars(WriteLoopEnds(h)) /\ WF_vars(DialEnds(h))
  /\ \A c \in Conn : WF_vars(GameWriteLoopEnds(c))

FairSpec == Spec /\ Fairness

-----------------------------------------------------------------------------
(* Properties. *)

\* What a peer's map of advertised games and the relay's map of games say
\* about each other agrees after any order of advertisements, reconnections
\* and removals: a relayed game's id leads to the remote game of that very
\* peer and remote id.  In particular the arm of add_game that gives up on a
\* game that is not remote is dead code, and handle_connect forwards to the
\* peer that advertised the game.
RelayedGamesAgree == PeerGamesAgree(relay)

\* A game of the LAN keeps its id for ever: whatever remove_peer deletes from
\* the map of games, it never deletes or overwrites one that local_games
\* still points to, so its advertisements always name a game that
\* handle_connect finds and connects to the right address.
LocalGamesAgree == LanGamesAgree(relay)

\* Relays further away keep ids this relay gave out, even of games it has
\* forgotten since.  No step gives such an id to another game: an id below
\* next_key that has left the map never comes back, and one that stays keeps
\* its meaning.  So a late Connect cannot reach the wrong game.
IdsNeverRebound == [][KeepsIds(relay, relay')]_relay

\* A game whose listener has ended is never left with it unnoticed: the
\* thread is about to report it or its RemoveGameListener is in the queue.
\* This is what makes it safe for GameListener::run to give up between the
\* keepalive() of add_game and its own check of the flag.
DeadListenerPending ==
  \A l \in DOMAIN relay.games :
    relay.games[l].kind = "remote" =>
      \A x \in relay.games[l].listener :
        \/ x.id \in Alive
        \/ x.id \in DOMAIN listeners /\ listeners[x.id].st = "dead" /\ listeners[x.id].game = l
        \/ \E j \in 1..Len(inbox) : inbox[j] = RemoveGameListener(l)

\* A peer table entry whose connection has ended has a RemovePeer coming: no
\* order of AddPeer, RemovePeer and failing sends leaves a dead peer behind.
DeadPeerPending ==
  \A p \in DOMAIN relay.peers :
    \/ relay.peers[p] \in Live
    \/ \E j \in 1..Len(inbox) : inbox[j] = RemovePeer(p)

\* While a peer has had one connection only, the relay knows the peer by it
\* from the moment AddPeer is handled until the connection ends.  (A second
\* connection of the same peer takes the entry over, and the RemovePeer of
\* the first one then removes the second one's entry.)
LivePeerKnown ==
  \A h \in {x \in DOMAIN sessions : sessions[x].st \in {"pending", "running"}} :
    LET p == sessions[h].peer
    IN \/ p \in DOMAIN relay.peers /\ relay.peers[p] = h
       \/ \E j \in 1..Len(inbox) : inbox[j] = AddPeer(p, h)
       \/ \E g \in DOMAIN sessions \ {h} : sessions[g].peer = p

\* No port stays in listen_ports after its listener has left the map of games:
\* whatever ends, is replaced, forgotten or orphaned, and whichever ports the
\* operating system hands out again.  A port left behind would make
\* add_local_game ignore another program's game for good.
ListenPortsInUse ==
  \A q \in relay.listen_ports :
    \E l \in DOMAIN relay.games :
      relay.games[l].kind = "remote" /\ q \in PortsOf(relay.games[l].listener)

\* A connection that has ended eventually leaves the peer table, for good.
ClosedPeersForgotten ==
  \A h \in Handle :
    <>[](h \in DOMAIN sessions /\ sessions[h].st \in {"dropped", "closed"}
         => \A p \in DOMAIN relay.peers : relay.peers[p] # h)

\* A listener that has ended is eventually taken out of its game, for good.
DeadListenersForgotten ==
  \A i \in ListenerId :
    <>[](i \in DOMAIN listeners \ Alive
         => \A l \in DOMAIN relay.games :
              relay.games[l].kind = "remote" => \A x \in relay.games[l].listener : x.id # i)

\* A connection that the relay does not know its peer by, because another
\* connection of the same peer took its place or because the RemovePeer of
\* such a connection removed it, does not linger: dials end, game connections
\* that the tables forgot end, and with the last sender it ends itself, so
\* that the peer can connect again.  Only two kinds of game connection keep
\* it: one stuck in wait_for_data (see NoPlayerLeftWaiting of RelayNetwork),
\* and one dialled through it that was entered when the peer had reconnected.
UnknownConnectionsEnd ==
  \A h \in Handle :
    []<>(h \in DOMAIN sessions /\ sessions[h].st = "running"
         => \/ \E p \in DOMAIN relay.peers : relay.peers[p] = h
            \/ \E c \in Conn : /\ h \in conns[c].tx
                               /\ conns[c].st = "waiting" \/ c \in Entered)

=============================================================================
