# A TLA+ development for minecraft-relay

minecraft-relay connects Minecraft LAN games over the internet. A relay hears
the multicasts of games on its LAN, advertises them to the relays it is
connected to, opens a TCP listener for every game the others advertise, and
carries the connections of players through one or several relays. This directory
models that program, model-checks the models with TLC and proves the most
important properties with TLAPS. Line numbers refer to the sources under `src/`.

## 1. Inventory

| Part | State | Operations | Talks to |
|---|---|---|---|
| Relay main thread (`relay.rs`, `id_map.rs`) | `peers` (per peer: handle, games, local and relayed connections, next connection id), `games`, `local_games`, `listen_ports` | one method per message of its queue | all others, through the queue and through handles |
| Relay connection (`relay/connection.rs`, `PeerConnection`) | Noise transport, outgoing channel, socket | handshake, read loop, write loop with pings, Drop | peers; queue: AddPeer, Recv, RemovePeer |
| Game listener (`game/listener.rs`) | socket, `Arc<AtomicBool>` keepalive cell | accept, time out, keepalive | players; queue: AcceptGameConnection, RemoveGameListener |
| Game connection (`game/connection.rs`) | socket, incoming channel | dial, wait_for_data, read loop, write loop | players and games; queue: AddGameConnection; peers' handles: Data, CloseConnection |
| Discovery (`discovery.rs`) | UDP sockets | receive and parse, encode and send | the LAN; queue: AddLocalGame |
| Connecting and accepting (`RelayHandle::connect`, `listen`, `accept`, `relay/listener.rs`) | cancel flag, trusted peers | reconnect loop, accept loop | relay connections, user |
| Terminal (`main.rs`) | waiting peer, connect handle | ui loop, stdin loop | user, connect, accept |

All threads feed one unbounded mpsc queue; only the main thread touches the
tables. What is hard about it:

* the queue is a merge of many sources, so the main thread sees a connection,
  its messages and its end interleaved with everything else, and it keeps
  handles to threads that may be gone (dead peers, dead listeners, closed game
  connections);
* a peer is known by its static key, not by its connection: two connections of
  the same peer share one table entry;
* ids of games outlive the games: relays further away go on using them;
* the keepalive cell is shared between two threads without a lock;
* connection ids are given out by both ends of a session;
* one thread both accepts relays and waits for the user's answer about them,
  while the user's lines may be meant for another prompt;
* the cancel flag of a reconnect loop is written by two threads;
* pings bypass a cipher whose two ends have to count alike.

The properties that make each part correct are the ones the runs check (section
4) and the hazards in `PROJECT.json`; hazards whose property is still missing
carry a note.

## 2. Modules

| Module | Models |
|---|---|
| `RelayTables` | the tables of `struct Relay` and every method of the main thread, as operators from tables to an effect: new tables, messages sent, data delivered, threads started |
| `RelayProcess` | one relay: the tables, the queue, relay connections, listener threads, dialling threads, game connections, and the multicasts on their way back |
| `MCRelayProcess` | inputs and symmetry for TLC |
| `ListenerContract` | what the main thread may expect of a game listener |
| `GameListener` | the listener thread and `keepalive()`, one step per access to the shared cell |
| `RelayNetwork` | several relays, the sessions between them and the connections of players, from end to end |
| `MCRelayNetwork` | topologies for TLC |
| `Routes` | `RelayNetwork` where connections are opened from one end of every session only, and the invariant that follows a connection along its way |
| `MCRoutes` | such a topology for TLC |
| `FrontDoor` | how relay connections come about: terminal, `listen`, `accept`, `connect` |
| `MCFrontDoor` | the keys of the connections for TLC |
| `SessionContract` | what `RelayNetwork` takes a session for |
| `RelayWire` | both ends of one relay connection: handshake, frames, pings, cipher counters, lengths |
| `DiscoveryPacket` | `parse` and `encode` of the text that announces a game |
| `AdvertPath` | the way of an advertisement from LAN to LAN; composes `RelayWire` and `DiscoveryPacket` |
| `MCAdvertPath` | MOTDs and datagrams for TLC |
| `RelayTablesProofs` | lemmas about every method of the main thread |
| `RelayProcessProofs`, `RelayQueueProofs` | theorems about `RelayProcess`: the tables, and the queue with what it reports |
| `RelayNetworkProofs` | theorems about `RelayNetwork`, from the lemmas of `RelayTablesProofs` |
| `RouteProofs` | theorems about `Routes` |
| `AdvertPathProofs` | theorems about a relay connection (`AdvertPath` with `RelayWire`), its refinement of `SessionContract` included |
| `GameListenerProofs`, `FrontDoorProofs` | theorems about these two |

`RelayProcess` and `RelayNetwork` both run the operators of `RelayTables`; they
differ in what is around them. `RelayProcess` looks at one relay in an
environment that may do anything: peers that send any message at any time,
connections and listeners that end at any time, multicasts that come back late.
`RelayNetwork` closes the system: every message a relay receives was sent by
another relay, and data is followed from the socket it is read from to the socket
it is written to. `GameListener` justifies what `RelayProcess` assumes about
listeners, through `ListenerContract`. `RelayWire` justifies what `RelayNetwork`
assumes about sessions, through `SessionContract`: established at the responder
first, in order, without gaps or repetitions, losing what is under way when an
end goes. `FrontDoor` shows when the threads of relay connections begin and end
(`Handshake`, `Accept` and `Drop` of `RelayProcess`).

### How the state corresponds to the code

* `peers: HashMap<PeerId, Peer>` is flattened: `relay.peers` maps a peer to its
  handle; the maps inside `Peer` are maps from `<<peer, key>>`
  (`peer_games`, `local_connections`, `relayed_connections`). Replacing or
  dropping a `Peer` forgets all keys of that peer.
* `IdMap` is the map `games` and the counter `next_key`. `u64` counters are
  naturals: nothing in reach wraps them.
* A `RelayConnectionHandle` is live while the connection's receiver exists. Sends
  to a live handle succeed even if nothing reads them any more, as in the code
  between `Drop for PeerConnection` and the drop of its fields (actions `Drop`
  and `Release`).
* `Option<RemoteGameListener>` is a set with at most one member. A listener is
  alive while its thread owns the keepalive cell.
* Loops that send to all peers and then remove the peers that failed are
  `send_all`.
* Log messages and byte contents are left out, and the MOTD everywhere but in
  `AdvertPath`. In `RelayNetwork` a payload is `<<connection it was read from, its number>>`.
* `RelayNetwork.names`, `RelayNetwork.route` and the field `game` of its threads are
  history: they say which LAN game an id or a connection stands for, and over which
  connections of which sessions a player's Connect has travelled. No action reads
  them to decide what to do.

* `DiscoveryPacket` works on symbols: `[`, `/`, `]` and words without them. The
  brackets are what `element` looks for; the lengths count symbols, so
  `MAX_PACKET_SIZE` and `MAX_MOTD_LEN` are scaled down in the runs.
* `RelayWire` keeps byte lengths as they are. A frame carries the value of the
  sender's cipher counter; decryption succeeds when it is the receiver's.
* In `FrontDoor` a thread is a program counter. `told` says which connections
  the main thread has an AddPeer of; `approved` and `cancelled` are history.
* In `RelayProcess` the thread of a game connection is where it is (`queued` for the
  main thread, `waiting` in `wait_for_data`, `running`) and its `peer_tx`: a relay
  connection ends by itself only when no thread holds a sender of it.

Each action is one iteration of the loop it models, with everything that
iteration does. Definitions whose comment begins with "Faulty" belong to no
specification: they are plausible mistakes, kept to show that the properties
notice them (`mutants` in `PROJECT.json`).

### Assumptions of the models

* The mpsc queue, the async channels and the TCP streams are first in, first
  out; an ending session loses a suffix of what was under way.
* `GameListener::new` returns any port that no socket of this process is bound to
  at the moment, also one that a listener has just closed and that is still in
  `listen_ports`.
* In `RelayNetwork` listeners do not time out (games keep being advertised) and
  a peer that is not yet accepted is a slow one.

* The user answers a question while stdin is open. Nobody tampers with the TCP
  stream of a relay connection, and the cipher works.

## 3. Plan

Done: every part of the inventory has a module. What is left:

1. Proofs: `StreamIntact` and `NothingLost` of `RelayNetwork`, on top of `RoutesInv` (section 5
   says what they need).
2. Advertisements on cyclic topologies: no advertisement travels further than
   `MAX_FORWARDING_HOPS + 1` sessions. `RelayNetwork` can express it; its queues
   make the instances large.
3. A peer that comes back while relayed connections of others still name it
   (`relay.rs:559`): three relays and a session that replaces another, for which no
   instance was found that TLC can finish.

## 4. Runs

One relay (`MCRelayProcess`):

| Run | Instance | Checks |
|---|---|---|
| `directory` | 2 peers, 2 connections, 2 listeners on 1 port, a LAN game, advertisements to be forwarded | the maps of games agree with each other (`RelayedGamesAgree`, `LocalGamesAgree`), ids are never rebound (`IdsNeverRebound`), no dead peer and no dead listener stays unnoticed (`DeadPeerPending`, `DeadListenerPending`), a failing send removes nobody else (`LivePeerKnown`), `listen_ports` holds no port of a listener that has left the map (`ListenPortsInUse`) |
| `liveness` | 1 peer, 2 connections, 1 listener, 1 game connection, all messages | `ClosedPeersForgotten`, `DeadListenersForgotten`, `UnknownConnectionsEnd` |

Two connections of the same peer are what makes AddPeer and RemovePeer of
different connections cross; two peers make ids of one meet those of the other;
two listeners let a successor start before its predecessor's RemoveGameListener
is handled, and the one port makes the operating system hand it out again as soon as
it is free. A third of any of them only repeats these cases. `MaxInbox = 1` bounds
only what the environment may add: a thread may report its end whatever is in the
queue. An input finds the queue empty and the reports of all threads may then line up
behind it, which gives the crossings that matter: the RemovePeer of the first
connection behind the AddPeer of the second, a RemoveGameListener behind the
advertisement that replaces the listener. An input behind a report is one that comes
when the report has been handled; the theorems of section 5 have no such bound.
In `liveness` the LAN is silent: its local games, which the peer's Connect reaches, are
the relay's own multicasts that come back after their listener has gone.
`MaxConnectionId` bounds the ids given out. Deadlock is not checked: a relay with an
empty queue has nothing to do.

`UnknownConnectionsEnd` is about a connection that is running but not the one the
relay knows its peer by. The peer table, the queue, dialling threads and the threads
of game connections hold senders of it; the property says that these go one after the
other, so that the write loop ends. It has two exceptions, both what the code does:
a player's thread in `wait_for_data` that nothing wakes any more (the run `waiting`
shows the same thread from the player's side), and a connection to a game that was
dialled through the old connection and whose AddGameConnection was handled after the
peer had reconnected, so that it is entered under the new connection and serves it
while its thread sends to the old one.

The listener (`GameListener`, run on the module itself): `game_listener` checks
every interleaving of the two threads on the shared cell. `KeepsContract` is the
refinement of `ListenerContract`; `AbandonedListenerEnds` says that a listener
nobody refreshes ends. Three players are enough for accepts before, between and
after timeouts.

The network (`MCRelayNetwork`, and `MCRoutes` for `line`), `a` and `b` connected directly
or through hub `h`:

| Run | Instance | Checks |
|---|---|---|
| `stream` | 2 games at `a`, 1 player at `b`, 2 chunks each way; dials, sockets and the session may fail | `TypeOK`; an id of a game leads to the same game at both relays (`GameIdsAgree`); the player is joined to the game it chose, also when the relays number the games differently (`EndsMatch`); output is a prefix of input (`StreamIntact`) |
| `line` | `a`-`h`-`b`, a game at `a`, 2 players at `h` or `b` | every id belongs to the way of one player (`RoutesInv`, the inductive invariant of section 5); `EndsMatch` when the hub accepts and forwards; `NothingLost` |
| `ending` | 1 player, 2 chunks; dials, sockets and the session may fail | `GameEndReachesPlayer`, `PlayerEndReachesGame` |
| `opposite` | both host, 1 player each | violated: `EndsMatch` |
| `multihop` | `a`-`h`-`b`, sockets may close | violated: `PlayerEndReachesGame` |
| `waiting` | the dial may fail | violated: `NoPlayerLeftWaiting` |

Two chunks are enough for a gap or a swap, two players for a mix-up. Two
games make the numbers at `a` and `b` differ when the advertisements arrive in
another order than the games were found; that sessions come back does no harm to
`GameIdsAgree` is proved (section 5).

The passing runs show why the order of steps in the code matters: `connect_local`
queues AddGameConnection before it reads from the game, and an accepted
connection reads from its player only after the first data from the other side.
Without the wait (`FirstState_eager`) a player's first bytes are
lost.

The front door (`MCFrontDoor`): run `door` has one connection of this relay to
itself, two of one other relay, one reconnect loop, and a user who answers
questions, types up to two lines without being asked or closes stdin.

* `OnlyWelcomeRun`: only relays the user said yes to are let in, never this relay
  itself. Two connections of one relay are what it takes for a copy of
  `trusted_peers` to be out of date.
* `OneQuestion`: the relay on the screen is the one `accept_loop` waits for. That
  `fun` blocks its thread is what keeps `waiting_peer` from being overwritten.
* `EveryoneAnswered`: nobody stays at the door while stdin is open. After its end
  a relay that waits for an answer blocks all later ones.

Run `cancel` is the same module with a user who enters a host and presses Enter. It
checks `CancelHolds`, that a cancelled loop begins no further attempt, and is violated
(see below).

Advertisements (`MCAdvertPath`): run `advert` relays two datagrams, well-formed
with one of five MOTDs (empty, with brackets that do no harm, with `[`, with `[/`, too
long) or malformed, together with payloads of the smallest and the largest
size and pings, over a connection that may break at any point. The relay that
hosts the games is the responder, which is established first, so that messages
can follow its last handshake message. Its loops start only when the user has
said yes (`Run`), while its handle takes messages from AddPeer on; what the initiator
writes meanwhile, pings included, piles up unread. `MaxPings` bounds the unread pings
of an end: two from the initiator put pings before, between and behind its
messages, one from the responder puts one at any place among its.

* `IsSession` is the refinement of `SessionContract`.
* `NoOwnFault`: pings and messages keep the ciphers in step, and nothing the
  program hands over outgrows a frame. 16384 bytes, the buffer of a game
  connection, leave room; 65535 would not (`ReadBuffer_frame`).
* `PlayersSee`: what players parse are the announced MOTDs, in order, each once,
  except those `encode` refuses, at the port of the new listener.
* `AdvertArrives`: once the user has said yes, every other one arrives or the session
  ends, also what was handed over while the question was open.

A MOTD with `[` in it is relayed, but the receiving relay does not announce it
again (`discovery.rs:134` looks for `[`, not for `[/` as the literal suggests); one
with `[/` in it is not even parsed.

### What the violated runs show

* `opposite`: both ends of a session number the connections they open from 0
  and keep them in the same map as the connections the other end opens. The field
  `local` that could separate them is never true.
  The same happens between two sessions of the same two relays (a peer is its
  static key, and `add_peer` starts numbering again while data of the first
  session still arrives): give `RelayNetwork` two sessions with the same ends.
* `multihop`: `handle_close_connection` does not pass the end of a relayed
  connection on.
* `waiting`: `wait_for_data` waits on a channel it holds a sender of.
* `cancel`: "Press Enter or enter a new host to stop trying to connect"
  (`main.rs:110`), but a cancel that comes while the loop is connecting or connected is
  taken back by `store(false)` (`relay.rs:744`) when `run()` returns Ok. `ui_loop` has
  given the handle away by then, so nothing stops this loop any more. An error of
  `run()`, the usual end of a connection, breaks the loop.

One more thing the models show is not kept as a run: an own multicast is recognised by a
port in `listen_ports` (`relay.rs:270`) at the time it is handled, not sent. The peer may
have been removed before the multicast comes back, or its listener may have ended and a
new one, or another program, may have been given the port: `remove_game_listener` and
`remove_peer` take the number out of `listen_ports` whoever else uses it. The relay then
takes its own listener for a game of the LAN. `RelayProcess` includes this
(`DiscoverEcho`, `NewListener`), and its properties hold with the games that come of it;
no property says that every echo is recognised, since the code does not achieve it.
What holds is the other direction, `ListenPortsInUse`: the relay never goes on ignoring
a port it has given up.

### Fairness

`RelayProcess`: the main thread handles its queue (`Relay::run` blocks only on an
empty one), a listener thread whose `run()` has returned reports it, a dial is
answered or times out (`GAME_CONNECT_TIMEOUT`), and the write loops of relay
connections and of game connections end when they have no senders (`recv` fails),
which assumes that peers, players and games do not stop reading for ever with a
write under way. `RelayNetwork`: the main threads, the readers of
sessions and the threads of game connections go on while they have work, an end
of a session notices that the other end has closed it (`read_exact` fails), and a
dial is answered or times out (`GAME_CONNECT_TIMEOUT`). `FrontDoor`: the threads
go on unless they are blocked, connecting and sleeping are timed
(`RELAY_CONNECT_TIMEOUT`), accepting does not fail every time, the user answers;
handshakes and connections may last for ever. `AdvertPath`: a handshake message
that has arrived is read, the end that has dialled runs at once, running loops and the
main thread go on while they have work; that the user says yes is not assumed but a
premise of `AdvertArrives`. `GameListener`: both
threads run, and the accept timeout fires when no player comes. Nothing is
assumed of players, games, the LAN or of failures.

## 5. Proofs

| Theorem | Says |
|---|---|
| `RelayProcessProofs!TypeCorrect` | `Spec => []TypeOK` |
| `RelayProcessProofs!GamesAgree` | `Spec => [](RelayedGamesAgree /\ LocalGamesAgree)` |
| `RelayProcessProofs!IdsPermanent` | `Spec => IdsNeverRebound` |
| `RelayQueueProofs!DeadPeersLeave` | `Spec => []DeadPeerPending` |
| `RelayQueueProofs!LivePeersStay` | `Spec => []LivePeerKnown` |
| `RelayQueueProofs!DeadListenersLeave` | `Spec => []DeadListenerPending` |
| `RelayQueueProofs!ListenPortsReleased` | `Spec => []ListenPortsInUse` |
| `GameListenerProofs!TypeCorrect` | `Spec => []TypeOK` |
| `GameListenerProofs!ListenerKeepsContract` | `Spec => KeepsContract` |
| `FrontDoorProofs!TypeCorrect` | `Spec => []TypeOK` |
| `FrontDoorProofs!WelcomeSafe` | `Spec => []OnlyWelcomeRun` |
| `FrontDoorProofs!NobodyOverwritten` | `Spec => []OneQuestion` |
| `AdvertPathProofs!TypeCorrect` | `Spec => []TypeOK` |
| `AdvertPathProofs!ConnectionSound` | `Spec => []NoOwnFault` |
| `AdvertPathProofs!ConnectionIsSession` | `Spec => IsSession` |
| `RelayNetworkProofs!TypeCorrect` | `Spec => []TypeOK` |
| `RelayNetworkProofs!GamesEverywhere` | `Spec => []GameIdsAgree` |
| `RouteProofs!WaysApart` | `Spec => []RoutesInv`, on one-way networks |
| `RouteProofs!EndsAlwaysMatch` | `Spec => []EndsMatch`, on one-way networks |

They hold for all sets of peers, relays, sessions, handles, ports, listeners,
connections, hosts, keys and messages, from the assumptions named in the modules.
Most of these say that the constants have their types (`HopsAssumption`,
`PortAssumption`, `DataAssumption`, `LanAssumption`, `PlayersAssumption`,
`DoorAssumption`, `PathAssumption`) or compare two sizes (`SizeAssumption`). Three say more: `NetworkAssumption`, that a session
has two different ends (`ui_loop` lets no relay with its own key in, see `FrontDoor`);
`MotdAssumption`, that a MOTD is a piece of a datagram, for which
`DiscoveryListener` has a buffer of 1500 bytes; and `OneWay` of `Routes`, which
restricts the last two theorems to networks that are used in one direction:

* every session has an upper and a lower end, and a relay has at most one peer
  above it;
* games are hosted at relays with nobody above them;
* no two sessions join the same two relays.

The code does not enforce this, and without it `EndsMatch` is false: the run
`opposite` shows a session used in both directions, and "What the violated runs
show" (section 4) tells the case of two sessions between the same relays. A host with
friends who connect to it, directly or through relays that forward, is such a network.
Sessions may end at any time, but the reconnection of two relays would be a
second session of theirs and is not covered. All other theorems about the
network hold without `OneWay`.

### The tables

The inductive invariant of `RelayProcess` is `Inv == TypeOK /\ TablesInv(relay)`.
`TablesInv` adds to the two agreements what they need to survive a step:
`next_connection_id` has an entry for exactly the known peers, and every id in
`games` is below `next_key`. Without the latter a new game could be given an id
that an older map still points to. `RelayTablesProofs` proves once per handler
that it preserves `TablesInv` and `KeepsIds`, whatever its arguments (which handles
are live, which listeners alive, what the peer sent); `remove_peers` needs that
agreement makes the removed ids those of remote games only. `RelayProcessProofs`
then has one step per action. The loops that remove several peers at once are
set-valued in the model, so no induction over lists is needed.

### The queue

`DeadPeerPending` and `LivePeerKnown` are proved together, as parts of
`PeerQueue`. What makes them inductive is a statement about the order of the queue:
an AddPeer whose connection has ended has the RemovePeer of that peer *behind* it
(`ComingPeers`), since a connection reports its end after its beginning on the same
channel; and a RemovePeer in the queue belongs to a connection that has ended
(`LeavingPeers`). `DeadListenerPending` follows from `ListenerQueue`, which adds that
the thread of a game's listener was started for this very game, so that its report
carries the right id. `ListenPortsInUse` is inductive as it stands (`PortsInv`): every
method that takes a listener out of the map of games takes its port out of
`listen_ports`. It does not matter that this may be the port of another listener too,
which is why nothing has to be assumed about the ports `GameListener::new` returns. Each
method is first shown to keep peers, listeners and ports (`Keeps`), then each action the
queue.

### The listener and the front door

`ListenerKeepsContract` uses the invariant that the thread still owns its
reference exactly until it has ended, and that the flag and the main thread's
temporary reference decide nothing else.

`WelcomeSafe` uses `Vouched`: `trusted_peers`, every copy of it a connection came
with, and every yes still in a reply channel go back to a yes of the user for the
same key, and the relay on the screen is never this relay itself. `OnlyWelcomeRun`
alone is not inductive, since the yes and the copy are read long after they were
made.

`NobodyOverwritten` uses `QuestionInv`: in the queue of `ui_loop` there is at most one
question, the one `accept_loop` waits for, and while it is there nothing is on the
screen; a connection is asked about once, after its handshake and before it runs.

### A relay connection

`WireInv` has four parts besides the types: how far the two ends are apart in the
handshake (`Progress`), the keys they know (`KeysKnown`), what may be first on a
stream (`Leading`), and the counters (`Numbered`): the messages on a stream, whatever
pings are between them, carry the numbers the reader's cipher expects, up to the
writer's. `NoOwnFault` follows, with `MotdAssumption` for the lengths. For the refinement,
a message of the session is under way when it is in the channel or on the stream, and
`Messages` picks the messages of a stream from between the pings and the handshake
message: the i-th is the one with i messages up to it (`Rank`). That is a definition by
counting, not by recursion, and the lemmas say what appending a frame, reading one and
breaking off the stream do to the ranks. Each action of `AdvertPath` is then a step of
`SessionContract` or none: writing a message moves it from the channel to the stream,
and writing or reading a ping changes no rank, neither of which the session sees.

### The network

`GameIdsAgree` says of a relay's table what it means in terms of another relay's
history of names, so a message under way must not become wrong. The inductive
invariant adds to `TypeOK` and `GameIdsAgree`:

* `NamesGiven`: only ids below `next_key` have a name, so a new id is new to
  everybody;
* `HandlesLead`: the handle a relay has for a peer is an end of a session with that
  peer;
* `WiresSound`, `QueuesSound`: an advertisement on a stream or in a queue has an id
  that its sender has named, an AddPeer comes with the right handle, and a connection
  to be accepted exists.

A step never changes the name of an id (`Grows`), so what was sound stays so. The main
thread's steps are of two kinds: most handlers name no game (`Quiet`), and
`add_local_game` and `handle_game` name one, by a new id or by one that means the
same game already. That the tables stay consistent is not proved again: `RelayNetworkProofs`
instantiates `RelayTablesProofs`, with one lemma per method that the two instances of
`RelayTables` are the same (`SameTables`, `SamePeers`, ...).

### The ways of connections

`EndsMatch` is about what two sockets have heard, and nothing in it says why a
message with a certain id reaches the right one. `RoutesInv` follows the ids. The way
of a player (`route`) is the list of hops `<<session, id>>` its Connect was sent on,
and the invariant says:

* `RoutesApart`: a hop belongs to one player, once. `Fresh` keeps it so: the relay that
  opens connections on a session has given out only smaller ids than its next;
* `PlayersStart`, `DialsEnd`: a player's thread sends on a hop of its way, upwards; a
  connection to a game is the only one for its hop, which is the last of a way, and
  leads to the game that player chose;
* `WiresFit`, `QueuesFit`: a Connect under way is at the end of a way and nobody has
  dialled for it; data going up comes from the player of its hop, data going down
  from the connection to the game that serves that player;
* `WiresApart`, `QueuesApart`, `WiresFromQueues`: no Connect is under way twice, else
  two connections would be dialled for one player;
* `TablesFit`: `local_connections` leads to the player or the dialled connection of the
  hop, `relayed_connections` joins two hops of one way, one up and one down;
* `NewUnused`: over a session that is not up yet no way leads;
* `MailFits`, `HeardFits`: what has arrived comes from the other side.

A step leaves all ways as they are (`Steady`), extends one by a fresh hop (`Extends`:
`accept_game_connection`, `forward_connect`) or dials at the end of one (`Dials`:
`connect_local`). For each kind one group of lemmas shows that what was true of all
other ids stays true, then each action shows what it adds. That only one end of a
session gives out ids is what makes `Fresh` inductive; that a relay has one peer above it
keeps a relayed pair from leading up twice. `EndsAlwaysMatch` then needs `HeardFits`,
`RoutesApart` and `DialsEnd` only. `GameIdsAgree` of the previous section is what says
that the id of the game in a Connect still means the game the player chose after it
has been translated.

### Only model-checked

* Liveness: fairness and ENABLED are outside TLAPS.
* `StreamIntact`, `NothingLost`: that data arrives in order and completely depends on all
  queues along a way taken together. Put as the concatenation of these queues it is an
  induction over data; put hop by hop it needs history of how far each connection's
  data has come on every hop, and an invariant for the race of registration,
  acknowledgement and first data that tells when data may be dropped for good.
  `RoutesInv` does not say either, and this proof has not been done.
* `PlayersSee`: what `parse` makes of what `encode` wrote, for every MOTD, is an induction
  over texts.

## 6. Not modelled

The cipher itself, the bytes of protobuf messages and of addresses, how host names
are resolved, how sockets are opened, log output, the text of prompts,
`shrink_to_fit`, the generated protobuf code and the build: they keep no state the
rest depends on. Tampering with a stream is not modelled: the models say what the
program does with peers that run the same program, and `RelayProcess` with peers
that send any well-formed message.
