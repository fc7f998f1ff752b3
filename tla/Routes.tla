------------------------------- MODULE Routes -------------------------------
(***************************************************************************)
(* The ways of connections through networks in which every session is used *)
(* in one direction: games are advertised down from where they are hosted, *)
(* and players connect up.  Then only one end of a session gives out ids   *)
(* for connections, and the invariant of this module shows that no two     *)
(* connections are ever mixed up.                                          *)
(***************************************************************************)
EXTENDS RelayNetwork

CONSTANT Up      \* the handles that lead towards the games

\* A session has an upper and a lower end, a relay has at most one peer above
\* it, games are hosted at the top, and no two sessions join the same relays.
ASSUME OneWay ==
  /\ Up \subseteq Handle
  /\ \A h \in Handle : h \in Up <=> Other(h) \notin Up
  /\ \A h, k \in Up : h[2] = k[2] => h = k
  /\ \A h \in Up, g \in LanGame : g.ip # h[2]
  /\ \A h, k \in Handle : h[2] = k[2] /\ Peer(h) = Peer(k) => h = k

-----------------------------------------------------------------------------
(* Routes. *)

\* The way of player c leads over connection n of session s.
Hop(c, s, n) == \E i \in 1..Len(route[c]) : route[c][i] = <<s, n>>

\* An id on a session belongs to one player, whose way takes it once.
RoutesApart ==
  \A c, d \in Player : \A i \in 1..Len(route[c]), j \in 1..Len(route[d]) :
    route[c][i] = route[d][j] => c = d /\ i = j

\* Connection d is made to a game for whoever is connection n of session s.
DialedFor(d, s, n) == d \in Dialed /\ conn[d].st # "free" /\ conn[d].tx[1] = s /\ conn[d].cid.id = n

\* Connection d of a game is where the way of player c ends.
Serves(d, c) == d \in Dialed /\ conn[d].st # "free" /\ c \in Come(conn[d].tx[1], conn[d].cid.id)

\* What comes out of x may have gone into y.
Paired(x, y) == IF x \in Player THEN Serves(y, x) ELSE Serves(x, y)

\* A player's connection starts upwards.
PlayersStart ==
  \A c \in Player :
    /\ conn[c].st \in {"free", "queued"} => route[c] = <<>>
    /\ "cid" \in DOMAIN conn[c] => conn[c].tx \in Up /\ Hop(c, conn[c].tx[1], conn[c].cid.id)

\* Connection d to a game, which is connection n of session s, comes from below,
\* is the only one for its player, and the game is the one the player chose.
DialEnds(d, s, n) ==
  /\ conn[d].tx \notin Up /\ conn[d].tx[2] = conn[d].relay
  /\ \E c \in Come(s, n) : conn[c].game = conn[d].game
  /\ \A e \in Dialed : DialedFor(e, s, n) => e = d

DialsEnd ==
  \A d \in Dialed :
    conn[d].st # "free" =>
      "cid" \in DOMAIN conn[d] /\ DialEnds(d, conn[d].tx[1], conn[d].cid.id)

-----------------------------------------------------------------------------
(* Messages under way. *)

\* A Connect is where its player's way ends so far, nobody has dialed for it,
\* and it names the game the player chose.
ConnectFits(h, m) ==
  /\ h \in Up
  /\ \A d \in Dialed : ~DialedFor(d, h[1], m.connection_id)
  /\ \E c \in Come(h[1], m.connection_id) :
       m.game_id \in DOMAIN names[Peer(h)] /\ names[Peer(h)][m.game_id] = conn[c].game

\* Data that goes up is the player's, data that goes down its game's.
DataFits(h, m) ==
  m.data # NoData =>
    \E c \in Player :
      /\ Hop(c, h[1], m.connection_id)
      /\ IF h \in Up THEN m.data[1] = c ELSE Serves(m.data[1], c)

\* What the stream from h may hold.
Fits(h, m) ==
  /\ m.type = "Game" => h \notin Up
  /\ m.type = "Connect" => ConnectFits(h, m)
  /\ m.type = "Data" => DataFits(h, m)

\* No connection was ever opened on the session of h.
Unused(h) == \A c \in Player : \A i \in 1..Len(route[c]) : route[c][i][1] # h[1]

\* What the queue of relay r may hold.
QueueFits(r, m) ==
  /\ m.msg = "Recv" => \A h \in Handle : Leads(m.peer, r, h) => Fits(h, m.message)
  /\ m.msg = "AddPeer" => /\ m.peer \notin DOMAIN tables[r].peers
                          /\ m.handle \in Up => Unused(m.handle)
  /\ m.msg = "AcceptGameConnection" =>
       /\ m.conn \in Player /\ conn[m.conn].st = "queued" /\ conn[m.conn].relay = r
       /\ m.game \in DOMAIN names[r] /\ names[r][m.game] = conn[m.conn].game
  /\ m.msg = "AddGameConnection" =>
       \A h \in Handle : Leads(r, m.peer, h) => h \notin Up /\ DialedFor(m.conn, h[1], m.cid.id)
  /\ m.msg = "AddLocalGame" => m.from.ip = r

QueuesFit == \A r \in Relay : \A i \in 1..Len(inbox[r]) : QueueFits(r, inbox[r][i])
WiresFit == \A h \in Handle : \A i \in 1..Len(wire[h]) : Fits(h, wire[h][i])

\* Two messages of a stream, or of a queue, that must not both be there.
Clash(m, k) == m.type = "Connect" /\ k.type = "Connect" /\ m.connection_id = k.connection_id

QueueClash(m, k) ==
  \/ m.msg = "Recv" /\ k.msg = "Recv" /\ m.peer = k.peer /\ Clash(m.message, k.message)
  \/ m.msg = "AddPeer" /\ k.msg = "AddPeer" /\ m.handle = k.handle
  \/ m.msg = "AcceptGameConnection" /\ k.msg = "AcceptGameConnection" /\ m.conn = k.conn

\* Every Connect is under way once.
WiresApart ==
  \A h \in Handle : \A i, j \in 1..Len(wire[h]) : Clash(wire[h][i], wire[h][j]) => i = j
QueuesApart ==
  \A r \in Relay : \A i, j \in 1..Len(inbox[r]) : QueueClash(inbox[r][i], inbox[r][j]) => i = j
WiresFromQueues ==
  \A h \in Handle : \A i \in 1..Len(wire[h]), j \in 1..Len(inbox[Peer(h)]) :
    ~QueueClash(Recv(h[2], wire[h][i]), inbox[Peer(h)][j])

-----------------------------------------------------------------------------
(* Tables. *)

\* What a table of local connections says of connection cid of handle h.
Holds(h, cid, x) ==
  IF h \in Up THEN x \in Player /\ \A c \in Player : Hop(c, h[1], cid.id) => c = x
  ELSE DialedFor(x, h[1], cid.id)

\* What is relayed is two hops of one player, one up and one down.
Joins(h, cid, g, to) ==
  /\ h \in Up <=> g \notin Up
  /\ \E c \in Player : Hop(c, h[1], cid.id) /\ Hop(c, g[1], to.id)

\* The ids for the connections of h that have not been given out.
Fresh(s, h) ==
  LET p == Peer(h)
  IN /\ \A c \in Player : \A i \in 1..Len(route[c]) :
          route[c][i][1] = h[1] => route[c][i][2] < s.next_connection_id[p].id
     /\ \A k \in DOMAIN s.local_connections : k[1] = p => k[2].id < s.next_connection_id[p].id

TableFits(r, s) ==
  /\ \A k \in DOMAIN s.local_connections : \A h \in Handle :
       Leads(r, k[1], h) => Holds(h, k[2], s.local_connections[k])
  /\ \A k \in DOMAIN s.relayed_connections : \A h, g \in Handle :
       Leads(r, k[1], h) /\ Leads(r, s.relayed_connections[k][1], g) =>
         Joins(h, k[2], g, s.relayed_connections[k][2])
  /\ \A l \in DOMAIN s.games : \A h \in Handle :
       s.games[l].kind = "remote" /\ Leads(r, s.games[l].peer_id, h) => h \in Up
  /\ \A h \in Up : h[2] = r /\ Peer(h) \in DOMAIN s.peers => Fresh(s, h)

TablesFit == \A r \in Relay : TableFits(r, tables[r])

\* A session that is not up yet is not in use.
NewUnused ==
  \A h \in Handle :
    ends[h] = "new" =>
      /\ Peer(h) \notin DOMAIN tables[h[2]].peers
      /\ h \in Up => Unused(h)
      /\ \A i \in 1..Len(inbox[h[2]]) : inbox[h[2]][i].msg = "AddPeer" => inbox[h[2]][i].handle # h

-----------------------------------------------------------------------------
(* Data that has arrived. *)

MailFits == \A x \in Conn : \A i \in 1..Len(mail[x]) : mail[x][i] # NoData => Paired(x, mail[x][i][1])
HeardFits == \A x \in Conn : \A i \in 1..Len(heard[x]) : heard[x][i] # NoData /\ Paired(x, heard[x][i][1])

\* Every id that relays give out for connections, translate and look up belongs
\* to the way of one player: the messages under way with that id, the entries of
\* the tables and the data that has arrived are those of that player and of the
\* one connection to a game that serves it.
RoutesInv ==
  /\ RoutesApart /\ PlayersStart /\ DialsEnd
  /\ QueuesFit /\ WiresFit /\ QueuesApart /\ WiresApart /\ WiresFromQueues
  /\ TablesFit /\ NewUnused
  /\ MailFits /\ HeardFits

=============================================================================
