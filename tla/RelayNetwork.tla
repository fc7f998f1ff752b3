---------------------------- MODULE RelayNetwork ----------------------------
(***************************************************************************)
(* Several relays, the sessions between them, and the game connections     *)
(* they carry from the player's end to the game's end.  The main threads   *)
(* run the handlers of RelayTables on queues that are first in first out;  *)
(* a session is a pair of ordered streams; a game connection is a thread   *)
(* with a channel (mail) that the main thread feeds.                       *)
(*                                                                         *)
(* Left to RelayProcess: listeners that time out, echoes of multicasts and *)
(* the user's decision to accept a peer, which here is a delay.            *)
(***************************************************************************)
EXTENDS Naturals, Sequences, FiniteSets

CONSTANTS
  Relay,                  \* relays, each known to its peers by its static key
  Session,                \* TCP connections between relays
  Initiator, Responder,   \* the two ends of a session
  LanGame,                \* games: address of the host's LAN, [ip, port]
  Player,                 \* connections players make to listeners
  Dialed,                 \* connections relays make to games
  Faults,                 \* what may go wrong: "session", "dial", "eof"
  MaxChunks,              \* bound on the chunks a connection carries
  MaxAdverts,             \* bound on the multicasts of a game
  MAX_FORWARDING_HOPS

Conn == Player \cup Dialed

\* The chunks a connection carries are numbered; the empty one acknowledges.
NoData == <<>>
Data == Conn \X (1..MaxChunks) \cup {NoData}

\* An end of a session: what the relay sends there goes to the other end.
Handle == {<<s, Initiator[s]>> : s \in Session} \cup {<<s, Responder[s]>> : s \in Session}

Peer(h) == IF h[2] = Initiator[h[1]] THEN Responder[h[1]] ELSE Initiator[h[1]]

Other(h) == <<h[1], Peer(h)>>

\* The handles that lead from relay r to p.
Leads(r, p, h) == h \in Handle /\ h[2] = r /\ Peer(h) = p

INSTANCE RelayTables WITH
  PeerId <- Relay, Ip <- Relay, Port <- Nat, ListenerId <- Nat, DiscoveryPort <- 0

ASSUME NetworkAssumption ==
  /\ Initiator \in [Session -> Relay]
  /\ Responder \in [Session -> Relay]
  /\ \A s \in Session : Initiator[s] # Responder[s]
  /\ LanGame \subseteq [ip : Relay, port : Nat]
  /\ Player \cap Dialed = {}
  /\ Faults \subseteq {"session", "dial", "eof"}
  /\ {MaxChunks, MaxAdverts, MAX_FORWARDING_HOPS} \subseteq Nat

VARIABLES
  tables,    \* the tables of each relay
  inbox,     \* the queue of each relay
  ends,      \* the ends of sessions: "new", "up", "dropped", "closed"
  wire,      \* what an end has sent and the other end has not yet queued
  conn,      \* the threads of game connections
  mail,      \* the data handed to a connection and not yet written
  sent,      \* the number of chunks read from a connection's socket
  heard,     \* the chunks written to a connection's socket
  adverts,   \* the number of multicasts of each game so far
  names,     \* history: what the ids of games that a relay gives out stand for
  route      \* history: the sessions a player's Connect was sent on, one after
             \* the other, each with the id that the connection has there

vars == <<tables, inbox, ends, wire, conn, mail, sent, heard, adverts, names, route>>

history == <<names, route>>
net == <<tables, inbox, ends, wire, adverts, history>>
threads == <<conn, mail, sent, heard>>

Thread ==
  [st : {"free"}]
    \cup [st : {"queued"}, relay : Relay, game : LanGame]
    \cup [st : {"waiting", "dialing", "running", "closed"}, relay : Relay, game : LanGame,
          cid : ConnectionId, tx : Handle]
    \cup [st : {"closed"}, relay : Relay, game : LanGame]

TypeOK ==
  /\ DOMAIN tables = Relay
  /\ \A r \in Relay : TablesInv(tables[r])
  /\ inbox \in [Relay -> Seq(Message)]
  /\ ends \in [Handle -> {"new", "up", "dropped", "closed"}]
  /\ wire \in [Handle -> Seq(RelayMessage)]
  /\ conn \in [Conn -> Thread]
  /\ mail \in [Conn -> Seq(Data)]
  /\ sent \in [Conn -> 0..MaxChunks]
  /\ heard \in [Conn -> Seq(Data)]
  /\ adverts \in [LanGame -> 0..MaxAdverts]
  /\ DOMAIN names = Relay
  /\ \A r \in Relay : IsMap(names[r], Nat, LanGame)
  /\ route \in [Player -> Seq(Session \X Nat)]

Init ==
  /\ tables = [r \in Relay |-> NewRelay]
  /\ inbox = [r \in Relay |-> <<>>]
  /\ ends = [h \in Handle |-> "new"]
  /\ wire = [h \in Handle |-> <<>>]
  /\ conn = [c \in Conn |-> [st |-> "free"]]
  /\ mail = [c \in Conn |-> <<>>]
  /\ sent = [c \in Conn |-> 0]
  /\ heard = [c \in Conn |-> <<>>]
  /\ adverts = [g \in LanGame |-> 0]
  /\ names = [r \in Relay |-> EmptyMap]
  /\ route = [c \in Player |-> <<>>]

-----------------------------------------------------------------------------
(* Sessions. *)

\* The handshake is over at end h, the responder's end first.
Establish(h) ==
  /\ ends[h] = "new"
  /\ h[2] = Initiator[h[1]] => ends[Other(h)] # "new"
  /\ ends' = [ends EXCEPT ![h] = "up"]
  /\ inbox' = [inbox EXCEPT ![h[2]] = Append(@, AddPeer(Peer(h), h))]
  /\ UNCHANGED <<tables, wire, adverts, history, threads>>

\* Other(h) reads the next message from the stream.
Receive(h) ==
  /\ ends[Other(h)] = "up"
  /\ wire[h] # <<>>
  /\ wire' = [wire EXCEPT ![h] = Tail(@)]
  /\ inbox' = [inbox EXCEPT ![Peer(h)] = Append(@, Recv(h[2], Head(wire[h])))]
  /\ UNCHANGED <<tables, ends, adverts, history, threads>>

\* run() of end h returns: an error, or the other end is gone.  What h has
\* not read is lost, and so is any part of what it has not yet sent.
Drop(h) ==
  /\ ends[h] = "up"
  /\ "session" \in Faults
  /\ ends' = [ends EXCEPT ![h] = "dropped"]
  /\ inbox' = [inbox EXCEPT ![h[2]] = Append(@, RemovePeer(Peer(h)))]
  /\ \E n \in 0..Len(wire[h]) :
       wire' = [wire EXCEPT ![h] = SubSeq(@, 1, n), ![Other(h)] = <<>>]
  /\ UNCHANGED <<tables, adverts, history, threads>>

\* The receiving end of the handle goes with the connection.
Release(h) ==
  /\ ends[h] = "dropped"
  /\ ends' = [ends EXCEPT ![h] = "closed"]
  /\ UNCHANGED <<tables, inbox, wire, adverts, history, threads>>

Live == {h \in Handle : ends[h] # "closed"}

\* The stream from h after m was handed to it: it takes messages as long as
\* both ends are there, and loses them from then on.
Pushed(h, m) ==
  IF ends[h] = "up" /\ ends[Other(h)] \in {"new", "up"} THEN Append(wire[h], m) ELSE wire[h]

-----------------------------------------------------------------------------
(* The main thread of relay r. *)

Open == {c \in Conn : conn[c].st \in {"queued", "waiting", "running"}}

Take(r, type) ==
  /\ inbox[r] # <<>>
  /\ Head(inbox[r]).msg = type
  /\ inbox' = [inbox EXCEPT ![r] = Tail(@)]

TakeRecv(r, type) ==
  /\ Take(r, "Recv")
  /\ Head(inbox[r]).message.type = type

\* The tables, streams and channels after a handler's effect.
Apply(r, e) ==
  /\ tables' = [tables EXCEPT ![r] = e.relay]
  /\ wire' = [h \in Handle |->
                IF \E o \in e.out : o.to = h
                THEN Pushed(h, (CHOOSE o \in e.out : o.to = h).msg) ELSE wire[h]]
  /\ mail' = [c \in Conn |->
                IF \E d \in e.deliver : d.tx = c
                THEN Append(mail[c], (CHOOSE d \in e.deliver : d.tx = c).data) ELSE mail[c]]

RunPeer(r) ==
  /\ \/ /\ Take(r, "AddPeer")
        /\ Apply(r, Effect(add_peer(tables[r], Head(inbox[r]).peer, Head(inbox[r]).handle)))
     \/ /\ Take(r, "RemovePeer")
        /\ Apply(r, Effect(remove_peer(tables[r], Head(inbox[r]).peer)))
  /\ UNCHANGED <<ends, conn, sent, heard, adverts, history>>

RunAddLocalGame(r) ==
  /\ Take(r, "AddLocalGame")
  /\ LET m == Head(inbox[r])
         e == add_local_game(tables[r], Live, m.from, m.port)
         addr == [ip |-> m.from.ip, port |-> m.port]
     IN /\ Apply(r, e)
        /\ names' = [names EXCEPT ![r] = Insert(@, e.relay.local_games[addr], addr)]
  /\ UNCHANGED <<ends, conn, sent, heard, adverts, route>>

\* A new listener has the number of the game it is for.
RunGame(r) ==
  /\ TakeRecv(r, "Game")
  /\ LET p == Head(inbox[r]).peer
         m == Head(inbox[r]).message
         fresh == {[id |-> tables[r].next_key, port |-> tables[r].next_key]}
         e == handle_game(tables[r], Live, p, m, Nat, fresh)
     IN /\ Apply(r, e)
        /\ names' = IF p \in DOMAIN tables[r].peers
                    THEN [names EXCEPT ![r] = Insert(@, e.relay.peer_games[<<p, m.id>>],
                                                     names[p][m.id])]
                    ELSE names
  /\ UNCHANGED <<ends, conn, sent, heard, adverts, route>>

\* The players whose Connect was sent last as connection n of session s.
Come(s, n) == {c \in Player : route[c] # <<>> /\ route[c][Len(route[c])] = <<s, n>>}

\* The Connect of the players in C goes on with what e sends, if it does.
Goes(C, e) ==
  route' = [c \in Player |->
              IF e.out # {} /\ c \in C
              THEN LET o == CHOOSE o \in e.out : TRUE
                   IN Append(route[c], <<o.to[1], o.msg.connection_id>>)
              ELSE route[c]]

\* The thread of connect_local starts to dial.
RunConnect(r) ==
  /\ TakeRecv(r, "Connect")
  /\ LET p == Head(inbox[r]).peer
         m == Head(inbox[r]).message
         e == handle_connect(tables[r], Live, p, m)
     IN /\ Apply(r, e)
        /\ Goes(Come(tables[r].peers[p][1], m.connection_id), e)
        /\ \/ e.spawn = {} /\ UNCHANGED conn
           \/ \E c \in Dialed, t \in e.spawn :
                /\ conn[c].st = "free"
                /\ conn' = [conn EXCEPT ![c] =
                     [st |-> "dialing", relay |-> r, game |-> t.addr, cid |-> t.cid,
                      tx |-> t.peer_tx]]
  /\ UNCHANGED <<ends, sent, heard, adverts, names>>

RunData(r) ==
  /\ TakeRecv(r, "Data")
  /\ Apply(r, handle_data(tables[r], Live, Open, Head(inbox[r]).peer, Head(inbox[r]).message))
  /\ UNCHANGED <<ends, conn, sent, heard, adverts, history>>

RunCloseConnection(r) ==
  /\ TakeRecv(r, "CloseConnection")
  /\ Apply(r, handle_close_connection(tables[r], Head(inbox[r]).peer, Head(inbox[r]).message))
  /\ UNCHANGED <<ends, conn, sent, heard, adverts, history>>

\* Faulty: reads from the player at once.
FirstState_eager == "running"

\* The thread of an accepted connection begins with wait_for_data.
FirstState == "waiting"

RunAcceptGameConnection(r) ==
  /\ Take(r, "AcceptGameConnection")
  /\ LET c == Head(inbox[r]).conn
         e == accept_game_connection(tables[r], Live, Head(inbox[r]).game, c)
     IN /\ Apply(r, e)
        /\ Goes({c}, e)
        /\ conn' = [conn EXCEPT ![c] =
             IF e.spawn = {} THEN [@ EXCEPT !.st = "closed"]
             ELSE LET t == CHOOSE t \in e.spawn : TRUE
                  IN [st |-> FirstState, relay |-> r, game |-> @.game, cid |-> t.cid,
                      tx |-> t.peer_tx]]
  /\ UNCHANGED <<ends, sent, heard, adverts, names>>

RunAddGameConnection(r) ==
  /\ Take(r, "AddGameConnection")
  /\ LET m == Head(inbox[r])
     IN Apply(r, add_game_connection(tables[r], Live, m.peer, m.cid, m.conn))
  /\ UNCHANGED <<ends, conn, sent, heard, adverts, history>>

Run(r) ==
  \/ RunPeer(r) \/ RunAddLocalGame(r) \/ RunGame(r) \/ RunConnect(r) \/ RunData(r)
  \/ RunCloseConnection(r) \/ RunAcceptGameConnection(r) \/ RunAddGameConnection(r)

-----------------------------------------------------------------------------
(* Games, players and the threads of their connections. *)

\* The host's relay hears the multicast of game g.
Advertise(g) ==
  /\ adverts[g] < MaxAdverts
  /\ adverts' = [adverts EXCEPT ![g] = @ + 1]
  /\ inbox' = [inbox EXCEPT ![g.ip] = Append(@, AddLocalGame([ip |-> g.ip, port |-> 1], g.port))]
  /\ UNCHANGED <<tables, ends, wire, history, threads>>

\* A player connects to the listener that r keeps for its game l.
Connect(c, r, l) ==
  /\ conn[c].st = "free"
  /\ tables[r].games[l].kind = "remote"
  /\ tables[r].games[l].listener # {}
  /\ conn' = [conn EXCEPT ![c] = [st |-> "queued", relay |-> r, game |-> names[r][l]]]
  /\ inbox' = [inbox EXCEPT ![r] = Append(@, AcceptGameConnection(l, c))]
  /\ UNCHANGED <<tables, ends, wire, adverts, history, mail, sent, heard>>

\* Faulty: the thread ends without a word.
End_silent(c) ==
  /\ conn' = [conn EXCEPT ![c].st = "closed"]
  /\ mail' = [mail EXCEPT ![c] = <<>>]
  /\ UNCHANGED <<tables, inbox, ends, wire, sent, heard, adverts, history>>

\* The thread of c ends and says so to the peer.
End(c) ==
  /\ conn' = [conn EXCEPT ![c].st = "closed"]
  /\ mail' = [mail EXCEPT ![c] = <<>>]
  /\ wire' = [wire EXCEPT ![conn[c].tx] = Pushed(conn[c].tx, RelayCloseConnection(conn[c].cid))]
  /\ UNCHANGED <<tables, inbox, ends, sent, heard, adverts, history>>

\* connect_local registers the connection before it runs it.
DialOk(c) ==
  /\ conn[c].st = "dialing"
  /\ conn' = [conn EXCEPT ![c].st = "running"]
  /\ inbox' = [inbox EXCEPT ![conn[c].relay] =
                 Append(@, AddGameConnection(Peer(conn[c].tx), conn[c].cid, c))]
  /\ UNCHANGED <<tables, ends, wire, adverts, history, mail, sent, heard>>

DialFail(c) ==
  /\ "dial" \in Faults
  /\ conn[c].st = "dialing"
  /\ End(c)

\* wait_for_data, then an iteration of the write loop: an empty chunk writes
\* nothing.
Write(c) ==
  /\ conn[c].st \in {"waiting", "running"}
  /\ mail[c] # <<>>
  /\ conn' = [conn EXCEPT ![c].st = "running"]
  /\ mail' = [mail EXCEPT ![c] = Tail(@)]
  /\ heard' = [heard EXCEPT ![c] = IF Head(mail[c]) = NoData THEN @ ELSE Append(@, Head(mail[c]))]
  /\ UNCHANGED <<net, sent>>

\* The read loop passes a chunk on, or ends when the relay connection is gone.
Read(c) ==
  /\ conn[c].st = "running"
  /\ sent[c] < MaxChunks
  /\ IF conn[c].tx \in Live
     THEN /\ sent' = [sent EXCEPT ![c] = @ + 1]
          /\ wire' = [wire EXCEPT ![conn[c].tx] =
                        Pushed(conn[c].tx, RelayData(conn[c].cid, <<c, sent[c] + 1>>))]
          /\ UNCHANGED <<tables, inbox, ends, conn, mail, heard, adverts, history>>
     ELSE End(c)

\* The player or the game closes the socket, or it fails.  A thread that waits
\* for data does not look at its socket before it writes.
Eof(c) ==
  /\ "eof" \in Faults
  /\ \/ conn[c].st = "running"
     \/ conn[c].st = "waiting" /\ mail[c] # <<>>
  /\ End(c)

\* The write loop ends once the channel is empty and nobody can feed it.
Disconnected(c) ==
  /\ conn[c].st = "running"
  /\ mail[c] = <<>>
  /\ LET r == conn[c].relay
     IN /\ \A k \in DOMAIN tables[r].local_connections : tables[r].local_connections[k] # c
        /\ \A i \in 1..Len(inbox[r]) :
             inbox[r][i].msg = "AddGameConnection" => inbox[r][i].conn # c
  /\ End(c)

Next ==
  \/ \E h \in Handle : Establish(h) \/ Receive(h) \/ Drop(h) \/ Release(h)
  \/ \E r \in Relay : Run(r)
  \/ \E g \in LanGame : Advertise(g)
  \/ \E c \in Player, r \in Relay : \E l \in DOMAIN tables[r].games : Connect(c, r, l)
  \/ \E c \in Dialed : DialOk(c) \/ DialFail(c)
  \/ \E c \in Conn : Write(c) \/ Read(c) \/ Eof(c) \/ Disconnected(c)

Spec == Init /\ [][Next]_vars

\* The other end has closed the stream: read_loop reads to its end and fails.
PeerGone(h) ==
  /\ ends[Other(h)] \in {"dropped", "closed"}
  /\ wire[Other(h)] = <<>>
  /\ Drop(h)

\* The main threads, the readers of sessions, at the end of a stream too, and the threads of connections
\* go on while they have something to do; a dial is answered or times out.
\* Players, games, the LAN and session failures owe nothing.
Fairness ==
  /\ \A r \in Relay : WF_vars(Run(r))
  /\ \A h \in Handle : WF_vars(Receive(h)) /\ WF_vars(PeerGone(h))
  /\ \A c \in Conn : WF_vars(Write(c)) /\ WF_vars(Disconnected(c))
  /\ \A c \in Dialed : WF_vars(DialOk(c) \/ DialFail(c))

FairSpec == Spec /\ Fairness

-----------------------------------------------------------------------------
(* Properties. *)

\* What comes out of a connection is what went into one other connection, in
\* order and from the beginning: however registration, acknowledgement and
\* first data race, no chunk is overtaken or left out before one that arrives.
StreamIntact ==
  \A c \in Conn : \A i \in 1..Len(heard[c]) : heard[c][i] = <<heard[c][1][1], i>>

\* Who hears a connection is heard by it and by nobody else, and the two are a
\* player and the very game the player chose.
EndsMatch ==
  \A c, d \in Conn :
    heard[c] # <<>> /\ heard[c][1][1] = d =>
      /\ c \in Player <=> d \in Dialed
      /\ conn[c].game = conn[d].game
      /\ heard[d] # <<>> => heard[d][1][1] = c

\* What a relay calls a game leads, peer by peer, to that very game: a game of
\* its own LAN to the address, another one to what the peer that advertised it
\* calls it, however often sessions break and come back while advertisements
\* are under way.  So a Connect, translated at every relay, can only end at the
\* game whose listener the player chose.
GameIdsAgree ==
  \A r \in Relay : \A l \in DOMAIN tables[r].games :
    LET g == tables[r].games[l]
    IN /\ l \in DOMAIN names[r]
       /\ g.kind = "local" => names[r][l] = g.addr
       /\ g.kind = "remote" => /\ g.remote_game_id \in DOMAIN names[g.peer_id]
                               /\ names[r][l] = names[g.peer_id][g.remote_game_id]

\* The chunks of c that have been written somewhere.
Written(c) == {n \in 1..MaxChunks : \E d \in Conn : \E i \in 1..Len(heard[d]) : heard[d][i] = <<c, n>>}

\* When everything under way has come to rest, every chunk that was read has
\* been written: no relay on the way drops data for want of an entry, or with
\* an entry for one direction only, as long as no socket and no session fails.
NothingLost ==
  /\ Faults = {}
  /\ \A r \in Relay : inbox[r] = <<>>
  /\ \A h \in Handle : wire[h] = <<>>
  /\ \A c \in Conn : mail[c] = <<>>
  => \A c \in Conn : Written(c) = 1..sent[c]

\* When the games' connections have ended, those of the players end too.
GameEndReachesPlayer ==
  \A c \in Player :
    (conn[c].st = "running" /\ \A d \in Dialed : conn[d].st = "closed") ~> conn[c].st = "closed"

\* When the players' connections have ended, those of the games end too.
PlayerEndReachesGame ==
  \A d \in Dialed :
    (conn[d].st = "running" /\ \A c \in Player : conn[c].st = "closed") ~> conn[d].st = "closed"

\* A player whose connection was accepted gets through or is told.
NoPlayerLeftWaiting ==
  \A c \in Player : conn[c].st = "waiting" ~> conn[c].st # "waiting"

=============================================================================
