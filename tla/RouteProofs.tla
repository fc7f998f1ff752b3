---------------------------- MODULE RouteProofs ----------------------------
(***************************************************************************)
(* Where connections are opened from one end of every session only, no     *)
(* relay ever mixes two of them up.                                        *)
(***************************************************************************)
EXTENDS Routes, RelayNetworkProofs

-----------------------------------------------------------------------------
(* Sequences. *)

\* Every member of q is one of p, in the same order and at most as often.
Part(q, p) ==
  \E f \in [1..Len(q) -> 1..Len(p)] :
    /\ \A i \in 1..Len(q) : q[i] = p[f[i]]
    /\ \A i, j \in 1..Len(q) : f[i] = f[j] => i = j

LEMMA PartSame == ASSUME NEW S, NEW p \in Seq(S) PROVE Part(p, p)
<1> DEFINE f == [i \in 1..Len(p) |-> i]
<1>1. f \in [1..Len(p) -> 1..Len(p)]
  OBVIOUS
<1>2. \A i \in 1..Len(p) : f[i] = i
  OBVIOUS
<1> HIDE DEF f
<1>3. QED
  BY <1>1, <1>2 DEF Part

LEMMA PartEmpty == ASSUME NEW p PROVE Part(<<>>, p)
<1> DEFINE f == [i \in 1..0 |-> i]
<1>1. f \in [1..Len(<<>>) -> 1..Len(p)] /\ 1..Len(<<>>) = {}
  OBVIOUS
<1> HIDE DEF f
<1>2. QED
  BY <1>1 DEF Part

LEMMA PartTail == ASSUME NEW S, NEW p \in Seq(S), p # <<>> PROVE Part(Tail(p), p)
<1> DEFINE f == [i \in 1..Len(Tail(p)) |-> i + 1]
<1>1. Len(Tail(p)) = Len(p) - 1 /\ Len(p) \in Nat \ {0}
  OBVIOUS
<1>2. f \in [1..Len(Tail(p)) -> 1..Len(p)] /\ \A i \in 1..Len(Tail(p)) : f[i] = i + 1
  BY <1>1
<1>3. \A i \in 1..Len(Tail(p)) : Tail(p)[i] = p[i + 1]
  OBVIOUS
<1> HIDE DEF f
<1>4. \A i, j \in 1..Len(Tail(p)) : f[i] = f[j] => i = j
  BY <1>2
<1>5. QED
  BY <1>2, <1>3, <1>4 DEF Part

LEMMA PartSub ==
  ASSUME NEW S, NEW p \in Seq(S), NEW n \in 0..Len(p)
  PROVE  Part(SubSeq(p, 1, n), p)
<1> DEFINE q == SubSeq(p, 1, n)
           f == [i \in 1..Len(q) |-> i]
<1>1. Len(q) = n /\ Len(p) \in Nat /\ \A i \in 1..n : q[i] = p[i]
  OBVIOUS
<1>2. f \in [1..Len(q) -> 1..Len(p)] /\ \A i \in 1..Len(q) : f[i] = i
  BY <1>1
<1> HIDE DEF f, q
<1>3. QED
  BY <1>1, <1>2 DEF Part, q

\* The positions of a sequence after something was put at its end.
LEMMA AppendAt ==
  ASSUME NEW S, NEW p \in Seq(S), NEW m
  PROVE  /\ Len(p) \in Nat /\ Len(Append(p, m)) = Len(p) + 1
         /\ \A i \in 1..Len(Append(p, m)) :
              (i \in 1..Len(p) /\ Append(p, m)[i] = p[i]) \/ (i = Len(p) + 1 /\ Append(p, m)[i] = m)
<1>1. p \in Seq(S \cup {m})
  OBVIOUS
<1>2. QED
  BY <1>1

\* The positions of a sequence after its head was taken.
LEMMA TailAt ==
  ASSUME NEW S, NEW p \in Seq(S), p # <<>>
  PROVE  /\ 1 \in 1..Len(p) /\ Head(p) = p[1]
         /\ \A i \in 1..Len(Tail(p)) : i + 1 \in 1..Len(p) /\ i + 1 # 1 /\ Tail(p)[i] = p[i + 1]
OBVIOUS

-----------------------------------------------------------------------------
(* The topology. *)

LEMMA OneEndUp ==
  /\ \A h, k \in Handle : h[1] = k[1] => k = h \/ k = Other(h)
  /\ \A h, k \in Up : h[1] = k[1] => h = k
<1>1. ASSUME NEW h \in Handle, NEW k \in Handle, h[1] = k[1] PROVE k = h \/ k = Other(h)
  <2>1. PICK s \in Session : h = <<s, Initiator[s]>> \/ h = <<s, Responder[s]>>
    BY DEF Handle
  <2>2. PICK z \in Session : k = <<z, Initiator[z]>> \/ k = <<z, Responder[z]>>
    BY DEF Handle
  <2>3. s = z /\ Initiator[s] # Responder[s]
    BY <1>1, <2>1, <2>2, NetworkAssumption
  <2>4. QED
    BY <2>1, <2>2, <2>3 DEF Peer, Other
<1>2. QED
  BY <1>1, OneWay

LEMMA LeadsBack ==
  ASSUME NEW r, NEW p, NEW h, Leads(r, p, h)
  PROVE  /\ h \in Handle /\ r \in Relay /\ p \in Relay
         /\ Leads(p, r, Other(h)) /\ Other(h)[1] = h[1] /\ Other(Other(h)) = h
         /\ h \in Up <=> Other(h) \notin Up
         /\ \A k : Leads(r, p, k) => k = h
         /\ \A k : Leads(p, r, k) => k = Other(h)
<1>1. /\ h \in Handle /\ h[2] = r /\ Peer(h) = p
      /\ Other(h) \in Handle /\ Peer(Other(h)) = h[2] /\ Other(h)[2] = Peer(h) /\ r \in Relay /\ p \in Relay
  BY Handles DEF Leads
<1>2. Other(h)[1] = h[1] /\ Other(Other(h)) = <<h[1], h[2]>>
  BY <1>1 DEF Other
<1>3. h = <<h[1], h[2]>>
  BY <1>1 DEF Handle
<1>4. QED
  BY <1>1, <1>2, <1>3, OneWay DEF Leads

-----------------------------------------------------------------------------
(* Streams and queues. *)

LEMMA ClashBoth ==
  /\ \A m, k : Clash(m, k) <=> Clash(k, m)
  /\ \A m, k : QueueClash(m, k) <=> QueueClash(k, m)
BY DEF Clash, QueueClash

\* After the head was taken from a queue.
LEMMA QueuesTaken ==
  ASSUME TypeOK, QueuesApart, NEW r \in Relay, inbox[r] # <<>>, inbox' = [inbox EXCEPT ![r] = Tail(@)]
  PROVE  /\ QueuesApart'
         /\ \A x \in Relay : \A i \in 1..Len(inbox'[x]) : \E j \in 1..Len(inbox[x]) :
              /\ inbox'[x][i] = inbox[x][j]
              /\ x = r => j # 1 /\ ~QueueClash(inbox[r][j], Head(inbox[r]))
<1>1. \A x \in Relay : inbox[x] \in Seq(Message)
  BY DEF TypeOK
<1>2. inbox'[r] = Tail(inbox[r]) /\ \A x \in Relay : x # r => inbox'[x] = inbox[x]
  BY DEF TypeOK
<1>3. Part(inbox'[r], inbox[r])
  BY <1>1, <1>2, PartTail
<1>4. ASSUME NEW x \in Relay, NEW i \in 1..Len(inbox'[x]), NEW j \in 1..Len(inbox'[x]),
             QueueClash(inbox'[x][i], inbox'[x][j])
      PROVE  i = j
  <2>1. CASE x = r
    BY <1>3, <1>4, <2>1 DEF Part, QueuesApart
  <2>2. CASE x # r
    BY <1>2, <1>4, <2>2 DEF QueuesApart
  <2>3. QED
    BY <2>1, <2>2
<1>5. ASSUME NEW x \in Relay, NEW i \in 1..Len(inbox'[x])
      PROVE  \E j \in 1..Len(inbox[x]) :
              /\ inbox'[x][i] = inbox[x][j]
              /\ x = r => j # 1 /\ ~QueueClash(inbox[r][j], Head(inbox[r]))
  <2>1. CASE x = r
    <3>1. /\ 1 \in 1..Len(inbox[r]) /\ Head(inbox[r]) = inbox[r][1]
          /\ i + 1 \in 1..Len(inbox[r]) /\ i + 1 # 1 /\ inbox'[r][i] = inbox[r][i + 1]
      <4>1. PICK q \in Seq(Message) : q = inbox[r]
        BY <1>1
      <4>2. q # <<>> /\ inbox'[r] = Tail(q) /\ i \in 1..Len(Tail(q))
        BY <1>2, <2>1, <4>1
      <4>3. /\ 1 \in 1..Len(q) /\ Head(q) = q[1]
            /\ i + 1 \in 1..Len(q) /\ i + 1 # 1 /\ Tail(q)[i] = q[i + 1]
        BY <4>2, TailAt
      <4>4. QED
        BY <4>1, <4>2, <4>3
    <3>2. ~QueueClash(inbox[r][i + 1], inbox[r][1])
      BY <3>1 DEF QueuesApart
    <3>3. QED
      BY <2>1, <3>1, <3>2
  <2>2. CASE x # r
    BY <1>2, <2>2
  <2>3. QED
    BY <2>1, <2>2
<1>6. QED
  BY <1>4, <1>5 DEF QueuesApart

\* After something was put into a queue.
LEMMA QueuesAdded ==
  ASSUME TypeOK, QueuesApart, NEW r \in Relay, NEW m, inbox' = [inbox EXCEPT ![r] = Append(@, m)],
         \A j \in 1..Len(inbox[r]) : ~QueueClash(inbox[r][j], m)
  PROVE  /\ QueuesApart'
         /\ \A x \in Relay : \A i \in 1..Len(inbox'[x]) :
              (\E j \in 1..Len(inbox[x]) : inbox'[x][i] = inbox[x][j]) \/ (x = r /\ inbox'[x][i] = m)
<1>1. \A x \in Relay : inbox[x] \in Seq(Message)
  BY DEF TypeOK
<1>2. inbox'[r] = Append(inbox[r], m) /\ \A x \in Relay : x # r => inbox'[x] = inbox[x]
  BY DEF TypeOK
<1>3. \A i \in 1..Len(inbox'[r]) : \/ i \in 1..Len(inbox[r]) /\ inbox'[r][i] = inbox[r][i]
                                   \/ i = Len(inbox[r]) + 1 /\ inbox'[r][i] = m
  BY <1>1, <1>2, AppendAt
<1>4. ASSUME NEW x \in Relay, NEW i \in 1..Len(inbox'[x]), NEW j \in 1..Len(inbox'[x]),
             QueueClash(inbox'[x][i], inbox'[x][j])
      PROVE  i = j
  <2>1. CASE x = r
    BY <1>3, <1>4, <2>1, ClashBoth DEF QueuesApart
  <2>2. CASE x # r
    BY <1>2, <1>4, <2>2 DEF QueuesApart
  <2>3. QED
    BY <2>1, <2>2
<1>5. ASSUME NEW x \in Relay, NEW i \in 1..Len(inbox'[x])
      PROVE  (\E j \in 1..Len(inbox[x]) : inbox'[x][i] = inbox[x][j]) \/ (x = r /\ inbox'[x][i] = m)
  BY <1>2, <1>3
<1>6. QED
  BY <1>4, <1>5 DEF QueuesApart

\* A message that is not a second Connect for a connection of the stream.
NewTo(h, m) ==
  /\ \A j \in 1..Len(wire[h]) : ~Clash(wire[h][j], m)
  /\ \A j \in 1..Len(inbox[Peer(h)]) : ~QueueClash(Recv(h[2], m), inbox[Peer(h)][j])

\* A stream loses something, or takes a message.
WireStep(h) == Part(wire'[h], wire[h]) \/ \E m : wire'[h] = Append(wire[h], m) /\ NewTo(h, m)

LEMMA WiresMoved ==
  ASSUME TypeOK, WiresApart, NEW h \in Handle, WireStep(h)
  PROVE  /\ \A i, j \in 1..Len(wire'[h]) : Clash(wire'[h][i], wire'[h][j]) => i = j
         /\ \A i \in 1..Len(wire'[h]) :
              (\E j \in 1..Len(wire[h]) : wire'[h][i] = wire[h][j]) \/ NewTo(h, wire'[h][i])
<1>1. wire[h] \in Seq(RelayMessage)
  BY DEF TypeOK
<1>2. CASE Part(wire'[h], wire[h])
  BY <1>2 DEF Part, WiresApart
<1>3. CASE \E m : wire'[h] = Append(wire[h], m) /\ NewTo(h, m)
  <2>1. PICK m : wire'[h] = Append(wire[h], m) /\ NewTo(h, m)
    BY <1>3
  <2>2. \A i \in 1..Len(wire'[h]) : \/ i \in 1..Len(wire[h]) /\ wire'[h][i] = wire[h][i]
                                    \/ i = Len(wire[h]) + 1 /\ wire'[h][i] = m
    BY <1>1, <2>1, AppendAt
  <2>3. \A j \in 1..Len(wire[h]) : ~Clash(wire[h][j], m)
    BY <2>1 DEF NewTo
  <2>4. \A i, j \in 1..Len(wire'[h]) : Clash(wire'[h][i], wire'[h][j]) => i = j
    BY <2>2, <2>3, ClashBoth DEF WiresApart
  <2>5. QED
    BY <2>1, <2>2, <2>4
<1>4. QED
  BY <1>2, <1>3 DEF WireStep

\* Streams move while queues only lose messages, or take some that come from
\* no stream.
LEMMA FlightsApart ==
  ASSUME TypeOK, WiresApart, WiresFromQueues, \A h \in Handle : WireStep(h),
         \A r \in Relay : \A i \in 1..Len(inbox'[r]) :
           (\E j \in 1..Len(inbox[r]) : inbox'[r][i] = inbox[r][j]) \/ inbox'[r][i].msg # "Recv"
  PROVE  WiresApart' /\ WiresFromQueues'
<1>1. WiresApart'
  BY WiresMoved DEF WiresApart
<1>2. ASSUME NEW h \in Handle, NEW i \in 1..Len(wire'[h]), NEW j \in 1..Len(inbox'[Peer(h)]),
             QueueClash(Recv(h[2], wire'[h][i]), inbox'[Peer(h)][j])
      PROVE  FALSE
  <2>1. PICK m, k : m = wire'[h][i] /\ k = inbox'[Peer(h)][j]
    OBVIOUS
  <2>2. Peer(h) \in Relay
    BY Handles
  <2>3. Recv(h[2], m).msg = "Recv"
    BY DEF Recv
  <2>4. k.msg = "Recv"
    BY <1>2, <2>1, <2>3 DEF QueueClash
  <2>5. PICK b \in 1..Len(inbox[Peer(h)]) : k = inbox[Peer(h)][b]
    BY <2>1, <2>2, <2>4
  <2>6. (\E a \in 1..Len(wire[h]) : m = wire[h][a]) \/ NewTo(h, m)
    BY <2>1, WiresMoved
  <2>7. ~QueueClash(Recv(h[2], m), k)
    BY <2>5, <2>6 DEF NewTo, WiresFromQueues
  <2>8. QED
    BY <1>2, <2>1, <2>7
<1>3. QED
  BY <1>1, <1>2 DEF WiresFromQueues

-----------------------------------------------------------------------------
(* Steps that leave the ways of players as they are. *)

\* The ids of games keep what they stand for.
NamesGrow == \A r \in Relay : \A l \in DOMAIN names[r] : l \in DOMAIN names'[r] /\ names'[r][l] = names[r][l]

Steady ==
  /\ route' = route /\ NamesGrow
  /\ \A d, s, n : DialedFor(d, s, n)' <=> DialedFor(d, s, n)
  /\ \A d, c : Serves(d, c)' <=> Serves(d, c)
  /\ \A c \in Player : conn[c].st # "free" => conn'[c].game = conn[c].game
  /\ \A c \in Player : conn[c].st = "queued" => conn'[c].st = "queued" /\ conn'[c].relay = conn[c].relay

\* A thread is where it was, or goes on.
Advances(t, u) ==
  \/ u = t
  \/ /\ t.st \notin {"free", "queued"}
     /\ \E z \in {"waiting", "dialing", "running", "closed"} : u = [t EXCEPT !.st = z]

LEMMA ThreadAdvances ==
  ASSUME NEW t \in Thread, NEW u, Advances(t, u)
  PROVE  /\ u.st = "free" <=> t.st = "free"
         /\ u.st = "queued" <=> t.st = "queued"
         /\ t.st # "free" => u.game = t.game /\ u.relay = t.relay
         /\ "cid" \in DOMAIN u <=> "cid" \in DOMAIN t
         /\ "cid" \in DOMAIN t => u.cid = t.cid /\ u.tx = t.tx
<1>1. CASE u = t
  BY <1>1
<1>2. CASE /\ t.st \notin {"free", "queued"}
           /\ \E z \in {"waiting", "dialing", "running", "closed"} : u = [t EXCEPT !.st = z]
  <2>1. PICK z \in {"waiting", "dialing", "running", "closed"} : u = [t EXCEPT !.st = z]
    BY <1>2
  <2>2. CASE t \in [st : {"waiting", "dialing", "running", "closed"}, relay : Relay, game : LanGame,
                    cid : ConnectionId, tx : Handle]
    BY <1>2, <2>1, <2>2
  <2>3. CASE t \in [st : {"closed"}, relay : Relay, game : LanGame]
    BY <1>2, <2>1, <2>3
  <2>4. QED
    BY <1>2, <2>2, <2>3 DEF Thread
<1>3. QED
  BY <1>1, <1>2 DEF Advances

LEMMA SteadyThreads ==
  ASSUME TypeOK, RoutesApart, PlayersStart, DialsEnd, route' = route, NamesGrow,
         \A c \in Conn : Advances(conn[c], conn'[c])
  PROVE  Steady /\ RoutesApart' /\ PlayersStart' /\ DialsEnd'
<1>1. ASSUME NEW c \in Conn
      PROVE  /\ conn'[c].st = "free" <=> conn[c].st = "free"
             /\ conn'[c].st = "queued" <=> conn[c].st = "queued"
             /\ conn[c].st # "free" => conn'[c].game = conn[c].game /\ conn'[c].relay = conn[c].relay
             /\ "cid" \in DOMAIN conn'[c] <=> "cid" \in DOMAIN conn[c]
             /\ "cid" \in DOMAIN conn[c] => conn'[c].cid = conn[c].cid /\ conn'[c].tx = conn[c].tx
  <2>1. conn[c] \in Thread
    BY DEF TypeOK
  <2>2. QED
    BY <2>1, ThreadAdvances
<1>2. \A d \in Dialed : d \in Conn /\ (conn[d].st # "free" => "cid" \in DOMAIN conn[d])
  BY DEF DialsEnd, Conn
<1>3. \A c \in Player : c \in Conn
  BY DEF Conn
<1>4. \A d, s, n : DialedFor(d, s, n)' <=> DialedFor(d, s, n)
  BY <1>1, <1>2 DEF DialedFor
<1>5. \A s, n : Come(s, n)' = Come(s, n)
  BY DEF Come
<1>6. \A d, c : Serves(d, c)' <=> Serves(d, c)
  BY <1>1, <1>2, <1>5 DEF Serves
<1>7. Steady
  BY <1>1, <1>3, <1>4, <1>6 DEF Steady
<1>8. RoutesApart'
  BY DEF RoutesApart
<1>9. PlayersStart'
  BY <1>1, <1>3 DEF PlayersStart, Hop
<1>10. DialsEnd'
  <2>1. ASSUME NEW d \in Dialed, conn'[d].st # "free"
        PROVE  ("cid" \in DOMAIN conn[d] /\ DialEnds(d, conn[d].tx[1], conn[d].cid.id))'
    <3>1. /\ "cid" \in DOMAIN conn'[d] /\ conn'[d].cid = conn[d].cid /\ conn'[d].tx = conn[d].tx
          /\ conn'[d].game = conn[d].game /\ conn'[d].relay = conn[d].relay /\ conn[d].st # "free"
      BY <1>1, <1>2, <2>1
    <3>2. PICK s, n : s = conn[d].tx[1] /\ n = conn[d].cid.id
      OBVIOUS
    <3>3. DialEnds(d, s, n)
      BY <3>1, <3>2 DEF DialsEnd
    <3>4. PICK c \in Come(s, n) : conn[c].game = conn[d].game
      BY <3>3 DEF DialEnds
    <3>5. c \in Player /\ conn[c].st # "free"
      BY <3>4 DEF Come, PlayersStart
    <3>6. conn'[c].game = conn[c].game
      BY <1>1, <1>3, <3>5
    <3>7. DialEnds(d, s, n)'
      BY <1>4, <1>5, <3>1, <3>3, <3>4, <3>6 DEF DialEnds
    <3>8. QED
      BY <3>1, <3>2, <3>7
  <2>2. QED
    BY <2>1 DEF DialsEnd
<1>11. QED
  BY <1>7, <1>8, <1>9, <1>10

\* What fits still does.
LEMMA SteadyFits ==
  ASSUME Steady, PlayersStart, NEW h \in Handle, NEW m, Fits(h, m)
  PROVE  Fits(h, m)'
<1>1. Peer(h) \in Relay
  BY Handles
<1>2. ASSUME ConnectFits(h, m) PROVE ConnectFits(h, m)'
  <2>1. PICK c \in Come(h[1], m.connection_id) :
          m.game_id \in DOMAIN names[Peer(h)] /\ names[Peer(h)][m.game_id] = conn[c].game
    BY <1>2 DEF ConnectFits
  <2>2. c \in Player /\ conn[c].st # "free" /\ c \in Come(h[1], m.connection_id)'
    BY <2>1 DEF Come, PlayersStart, Steady
  <2>3. conn'[c].game = conn[c].game
    BY <2>2 DEF Steady
  <2>4. m.game_id \in DOMAIN names'[Peer(h)] /\ names'[Peer(h)][m.game_id] = conn'[c].game
    BY <1>1, <2>1, <2>3 DEF Steady, NamesGrow
  <2>5. QED
    BY <1>2, <2>2, <2>4 DEF ConnectFits, Steady
<1>3. ASSUME DataFits(h, m) PROVE DataFits(h, m)'
  BY <1>3 DEF DataFits, Steady, Hop
<1>4. QED
  BY <1>2, <1>3 DEF Fits

LEMMA SteadyQueue ==
  ASSUME Steady, PlayersStart, NEW r \in Relay, NEW m, QueueFits(r, m),
         m.msg = "AddPeer" => m.peer \notin DOMAIN tables'[r].peers
  PROVE  QueueFits(r, m)'
<1>1. m.msg = "Recv" => \A h \in Handle : Leads(m.peer, r, h) => Fits(h, m.message)'
  BY SteadyFits DEF QueueFits
<1>2. m.msg = "AddPeer" => m.peer \notin DOMAIN tables'[r].peers /\ (m.handle \in Up => Unused(m.handle)')
  BY DEF QueueFits, Unused, Steady
<1>3. m.msg = "AcceptGameConnection" =>
       /\ m.conn \in Player /\ conn'[m.conn].st = "queued" /\ conn'[m.conn].relay = r
       /\ m.game \in DOMAIN names'[r] /\ names'[r][m.game] = conn'[m.conn].game
  BY DEF QueueFits, Steady, NamesGrow
<1>4. m.msg = "AddGameConnection" =>
       \A h \in Handle : Leads(r, m.peer, h) => h \notin Up /\ DialedFor(m.conn, h[1], m.cid.id)'
  BY DEF QueueFits, Steady
<1>5. m.msg = "AddLocalGame" => m.from.ip = r
  BY DEF QueueFits
<1>6. QED
  BY <1>1, <1>2, <1>3, <1>4, <1>5 DEF QueueFits

LEMMA SteadyTables ==
  ASSUME Steady, NEW r, NEW s, TableFits(r, s)
  PROVE  TableFits(r, s)'
<1>1. \A h, cid, x : Holds(h, cid, x) => Holds(h, cid, x)'
  BY DEF Holds, Steady, Hop
<1>2. \A h, cid, g, to : Joins(h, cid, g, to) => Joins(h, cid, g, to)'
  BY DEF Joins, Steady, Hop
<1>3. \A h : Fresh(s, h) => Fresh(s, h)'
  BY DEF Fresh, Steady
<1>4. QED
  BY <1>1, <1>2, <1>3 DEF TableFits

LEMMA SteadyPaired == Steady => \A x, y : Paired(x, y)' <=> Paired(x, y)
BY DEF Steady, Paired

-----------------------------------------------------------------------------
(* Steps of the main threads. *)

LEMMA Applied ==
  ASSUME TypeOK, NEW r \in Relay, NEW e, Apply(r, e)
  PROVE  /\ tables'[r] = e.relay /\ \A x \in Relay : x # r => tables'[x] = tables[x]
         /\ \A h \in Handle :
              \/ wire'[h] = wire[h]
              \/ \E o \in e.out : o.to = h /\ wire'[h] = Append(wire[h], o.msg)
         /\ \A c \in Conn :
              \/ mail'[c] = mail[c]
              \/ \E d \in e.deliver : d.tx = c /\ mail'[c] = Append(mail[c], d.data)
<1>1. tables'[r] = e.relay /\ \A x \in Relay : x # r => tables'[x] = tables[x]
  BY DEF Apply, TypeOK
<1>2. ASSUME NEW h \in Handle
      PROVE  \/ wire'[h] = wire[h]
             \/ \E o \in e.out : o.to = h /\ wire'[h] = Append(wire[h], o.msg)
  <2>1. PICK o : o = (CHOOSE x \in e.out : x.to = h)
    OBVIOUS
  <2>2. wire'[h] = IF \E x \in e.out : x.to = h THEN Pushed(h, o.msg) ELSE wire[h]
    BY <2>1 DEF Apply
  <2>3. (\E x \in e.out : x.to = h) => o \in e.out /\ o.to = h
    BY <2>1
  <2>4. QED
    BY <2>2, <2>3 DEF Pushed
<1>3. ASSUME NEW c \in Conn
      PROVE  \/ mail'[c] = mail[c]
             \/ \E d \in e.deliver : d.tx = c /\ mail'[c] = Append(mail[c], d.data)
  <2>1. PICK d : d = (CHOOSE x \in e.deliver : x.tx = c)
    OBVIOUS
  <2>2. mail'[c] = IF \E x \in e.deliver : x.tx = c THEN Append(mail[c], d.data) ELSE mail[c]
    BY <2>1 DEF Apply
  <2>3. (\E x \in e.deliver : x.tx = c) => d \in e.deliver /\ d.tx = c
    BY <2>1
  <2>4. QED
    BY <2>2, <2>3
<1>4. QED
  BY <1>1, <1>2, <1>3

\* What is under way after a step of the main thread.
LEMMA MainFlight ==
  ASSUME TypeOK, RoutesInv, NEW r \in Relay, NEW e, Apply(r, e),
         inbox[r] # <<>>, inbox' = [inbox EXCEPT ![r] = Tail(@)],
         \A x \in Relay : \A j, m :
           j \in 1..Len(inbox[x]) /\ m = inbox[x][j] /\ (x = r => j # 1 /\ ~QueueClash(m, Head(inbox[r])))
             => QueueFits(x, m)',
         \A h \in Handle : \A j, m : j \in 1..Len(wire[h]) /\ m = wire[h][j] => Fits(h, m)',
         \A o \in e.out : Fits(o.to, o.msg)' /\ NewTo(o.to, o.msg)
  PROVE  QueuesFit' /\ WiresFit' /\ QueuesApart' /\ WiresApart' /\ WiresFromQueues'
<1>0. QueuesApart /\ WiresApart /\ WiresFromQueues /\ WiresFit
  BY DEF RoutesInv
<1>1. /\ QueuesApart'
      /\ \A x \in Relay : \A i \in 1..Len(inbox'[x]) : \E j \in 1..Len(inbox[x]) :
              /\ inbox'[x][i] = inbox[x][j]
              /\ x = r => j # 1 /\ ~QueueClash(inbox[r][j], Head(inbox[r]))
  BY <1>0, QueuesTaken
<1>2. QueuesFit'
  <2>1. ASSUME NEW x \in Relay, NEW i \in 1..Len(inbox'[x]) PROVE QueueFits(x, inbox[x][i])'
    <3>1. PICK j \in 1..Len(inbox[x]) : /\ inbox'[x][i] = inbox[x][j]
                                        /\ x = r => j # 1 /\ ~QueueClash(inbox[r][j], Head(inbox[r]))
      BY <1>1
    <3>2. PICK m : m = inbox[x][j]
      OBVIOUS
    <3>3. QueueFits(x, m)'
      BY <3>1, <3>2
    <3>4. QED
      BY <3>1, <3>2, <3>3
  <2>2. QED
    BY <2>1 DEF QueuesFit
<1>3. \A h \in Handle : \/ wire'[h] = wire[h]
                        \/ \E o \in e.out : o.to = h /\ wire'[h] = Append(wire[h], o.msg)
  BY Applied
<1>4. ASSUME NEW h \in Handle PROVE WireStep(h)
  <2>1. wire'[h] = wire[h] => Part(wire'[h], wire[h])
    BY PartSame DEF TypeOK
  <2>2. QED
    BY <1>3, <2>1 DEF WireStep
<1>5. WiresApart' /\ WiresFromQueues'
  BY <1>0, <1>1, <1>4, FlightsApart
<1>6. WiresFit'
  <2>1. ASSUME NEW h \in Handle, NEW i \in 1..Len(wire'[h]) PROVE Fits(h, wire[h][i])'
    <3>1. wire[h] \in Seq(RelayMessage)
      BY DEF TypeOK
    <3>2. PICK m : m = wire'[h][i]
      OBVIOUS
    <3>3. (\E j \in 1..Len(wire[h]) : m = wire[h][j]) \/ \E o \in e.out : o.to = h /\ m = o.msg
      BY <1>3, <3>1, <3>2, AppendAt
    <3>4. Fits(h, m)'
      <4>1. CASE \E j \in 1..Len(wire[h]) : m = wire[h][j]
        BY <4>1
      <4>2. CASE \E o \in e.out : o.to = h /\ m = o.msg
        BY <4>2
      <4>3. QED
        BY <3>3, <4>1, <4>2
    <3>5. QED
      BY <3>2, <3>4
  <2>2. QED
    BY <2>1 DEF WiresFit
<1>7. QED
  BY <1>1, <1>2, <1>5, <1>6

\* Data that waits to be written.
LEMMA MainMail ==
  ASSUME TypeOK, MailFits, NEW r \in Relay, NEW e, Apply(r, e),
         \A x, y : Paired(x, y) => Paired(x, y)',
         \A d \in e.deliver : d.data # NoData => Paired(d.tx, d.data[1])'
  PROVE  MailFits'
<1>1. ASSUME NEW c \in Conn, NEW i \in 1..Len(mail'[c]), mail'[c][i] # NoData
      PROVE  Paired(c, mail[c][i][1])'
  <2>1. mail[c] \in Seq(Data)
    BY DEF TypeOK
  <2>2. PICK m : m = mail'[c][i]
    OBVIOUS
  <2>3. \/ mail'[c] = mail[c]
        \/ \E d \in e.deliver : d.tx = c /\ mail'[c] = Append(mail[c], d.data)
    BY Applied
  <2>4. (\E j \in 1..Len(mail[c]) : m = mail[c][j]) \/ \E d \in e.deliver : d.tx = c /\ m = d.data
    BY <2>1, <2>2, <2>3, AppendAt
  <2>5. Paired(c, m[1])'
    <3>1. CASE \E j \in 1..Len(mail[c]) : m = mail[c][j]
      <4>1. Paired(c, m[1])
        BY <1>1, <2>2, <3>1 DEF MailFits
      <4>2. PICK y : y = m[1]
        OBVIOUS
      <4>3. QED
        BY <4>1, <4>2
    <3>2. CASE \E d \in e.deliver : d.tx = c /\ m = d.data
      BY <1>1, <2>2, <3>2
    <3>3. QED
      BY <2>4, <3>1, <3>2
  <2>6. QED
    BY <2>2, <2>5
<1>2. QED
  BY <1>1 DEF MailFits

\* A handler that opens no connection and starts no thread.
LEMMA MainSteady ==
  ASSUME Inv, RoutesInv, NEW r \in Relay, NEW e, Apply(r, e),
         inbox[r] # <<>>, inbox' = [inbox EXCEPT ![r] = Tail(@)],
         UNCHANGED <<ends, conn, heard, route>>, NamesGrow,
         \A p \in DOMAIN e.relay.peers : \A h :
           p \notin DOMAIN tables[r].peers /\ Leads(r, p, h) =>
             /\ ends[h] # "new"
             /\ \A j \in 1..Len(inbox[r]) : j # 1 /\ inbox[r][j].msg = "AddPeer" => inbox[r][j].peer # p,
         TableFits(r, e.relay),
         \A o \in e.out : o.to \in Handle /\ o.msg.type # "Connect" /\ Fits(o.to, o.msg),
         \A d \in e.deliver : d.data # NoData => Paired(d.tx, d.data[1])
  PROVE  RoutesInv'
<1>1. /\ TypeOK /\ RoutesApart /\ PlayersStart /\ DialsEnd /\ QueuesFit /\ WiresFit /\ TablesFit /\ NewUnused
      /\ MailFits /\ HeardFits
  BY DEF Inv, RoutesInv
<1>2. Steady /\ RoutesApart' /\ PlayersStart' /\ DialsEnd'
  BY <1>1, SteadyThreads DEF Advances
<1>3. tables'[r] = e.relay /\ \A x \in Relay : x # r => tables'[x] = tables[x]
  BY <1>1, Applied
<1>4. ASSUME NEW x \in Relay, NEW j, NEW m, j \in 1..Len(inbox[x]), m = inbox[x][j], x = r => j # 1
      PROVE  QueueFits(x, m)'
  <2>1. QueueFits(x, m)
    BY <1>1, <1>4 DEF QueuesFit
  <2>2. m.msg = "AddPeer" => m.peer \notin DOMAIN tables'[x].peers
    <3>1. CASE x # r
      BY <1>3, <2>1, <3>1 DEF QueueFits
    <3>2. CASE x = r
      <4>1. m.msg = "AddPeer" => m.peer \notin DOMAIN tables[r].peers /\ Leads(r, m.peer, m.handle)
        <5>1. inbox[x] \in Seq({k \in Message : Sound(x, k)})
          BY DEF Inv, QueuesSound
        <5>2. Sound(x, m)
          BY <1>4, <5>1
        <5>3. QED
          BY <2>1, <3>2, <5>2 DEF QueueFits, Sound
      <4>2. QED
        BY <1>3, <1>4, <3>2, <4>1
    <3>3. QED
      BY <3>1, <3>2
  <2>3. QED
    BY <1>1, <1>2, <2>1, <2>2, SteadyQueue
<1>5. ASSUME NEW h \in Handle, NEW j, NEW m, j \in 1..Len(wire[h]), m = wire[h][j]
      PROVE  Fits(h, m)'
  <2>1. Fits(h, m)
    BY <1>1, <1>5 DEF WiresFit
  <2>2. QED
    BY <1>1, <1>2, <2>1, SteadyFits
<1>6. ASSUME NEW o \in e.out PROVE Fits(o.to, o.msg)' /\ NewTo(o.to, o.msg)
  <2>1. PICK h, m : h = o.to /\ m = o.msg
    OBVIOUS
  <2>2. h \in Handle /\ m.type # "Connect" /\ Fits(h, m)
    BY <2>1
  <2>3. Fits(h, m)'
    BY <1>1, <1>2, <2>2, SteadyFits
  <2>4. NewTo(h, m)
    BY <2>2 DEF NewTo, Clash, QueueClash, Recv
  <2>5. QED
    BY <2>1, <2>3, <2>4
<1>7. QueuesFit' /\ WiresFit' /\ QueuesApart' /\ WiresApart' /\ WiresFromQueues'
  BY <1>1, <1>4, <1>5, <1>6, MainFlight
<1>8. TablesFit'
  <2>1. ASSUME NEW x \in Relay PROVE TableFits(x, tables[x])'
    <3>1. PICK s : s = tables'[x]
      OBVIOUS
    <3>2. TableFits(x, s)
      BY <1>1, <1>3, <3>1 DEF TablesFit
    <3>3. TableFits(x, s)'
      BY <1>2, <3>2, SteadyTables
    <3>4. QED
      BY <3>1, <3>3
  <2>2. QED
    BY <2>1 DEF TablesFit
<1>9. NewUnused'
  <2>1. ASSUME NEW h \in Handle, ends[h] = "new"
        PROVE  /\ Peer(h) \notin DOMAIN tables'[h[2]].peers
               /\ h \in Up => Unused(h)'
               /\ \A i \in 1..Len(inbox'[h[2]]) : inbox'[h[2]][i].msg = "AddPeer" => inbox'[h[2]][i].handle # h
    <3>1. h[2] \in Relay /\ Leads(h[2], Peer(h), h)
      BY Handles DEF Leads
    <3>2. /\ Peer(h) \notin DOMAIN tables[h[2]].peers /\ (h \in Up => Unused(h))
          /\ \A i \in 1..Len(inbox[h[2]]) : inbox[h[2]][i].msg = "AddPeer" => inbox[h[2]][i].handle # h
      BY <1>1, <2>1 DEF NewUnused
    <3>3. Peer(h) \notin DOMAIN tables'[h[2]].peers
      BY <1>3, <2>1, <3>1, <3>2
    <3>4. h \in Up => Unused(h)'
      BY <1>2, <3>2 DEF Unused, Steady
    <3>5. \A i \in 1..Len(inbox'[h[2]]) : \E j \in 1..Len(inbox[h[2]]) : inbox'[h[2]][i] = inbox[h[2]][j]
      BY <1>1, <3>1, QueuesTaken DEF RoutesInv
    <3>6. QED
      BY <3>2, <3>3, <3>4, <3>5
  <2>2. QED
    BY <2>1 DEF NewUnused
<1>10. MailFits'
  <2>1. \A x, y : Paired(x, y) => Paired(x, y)'
    BY <1>2, SteadyPaired
  <2>2. \A d \in e.deliver : d.data # NoData => Paired(d.tx, d.data[1])'
    BY <2>1
  <2>3. QED
    BY <1>1, <2>1, <2>2, MainMail
<1>11. HeardFits'
  BY <1>1, <1>2, SteadyPaired DEF HeardFits
<1>12. QED
  BY <1>2, <1>7, <1>8, <1>9, <1>10, <1>11 DEF RoutesInv

\* Tables that lost entries.
Shrinks(s, t) ==
  /\ FewerPeers(s, t)
  /\ \A p \in DOMAIN t.peers : t.next_connection_id[p] = s.next_connection_id[p]
  /\ \A k \in DOMAIN t.local_connections :
       k \in DOMAIN s.local_connections /\ t.local_connections[k] = s.local_connections[k]
  /\ \A k \in DOMAIN t.relayed_connections :
       k \in DOMAIN s.relayed_connections /\ t.relayed_connections[k] = s.relayed_connections[k]
  /\ \A l \in DOMAIN t.games : l \in DOMAIN s.games /\ t.games[l] = s.games[l]

LEMMA ShrunkFits ==
  ASSUME NEW r, NEW s, NEW t, TableFits(r, s), Shrinks(s, t)
  PROVE  TableFits(r, t)
<1>1. \A k \in DOMAIN t.local_connections : \A h \in Handle :
       Leads(r, k[1], h) => Holds(h, k[2], t.local_connections[k])
  BY DEF TableFits, Shrinks
<1>2. \A k \in DOMAIN t.relayed_connections : \A h, g \in Handle :
       Leads(r, k[1], h) /\ Leads(r, t.relayed_connections[k][1], g) =>
         Joins(h, k[2], g, t.relayed_connections[k][2])
  BY DEF TableFits, Shrinks
<1>3. \A h \in Up : h[2] = r /\ Peer(h) \in DOMAIN t.peers => Fresh(t, h)
  <2>1. ASSUME NEW h \in Up, h[2] = r, Peer(h) \in DOMAIN t.peers PROVE Fresh(t, h)
    <3>1. Fresh(s, h) /\ t.next_connection_id[Peer(h)] = s.next_connection_id[Peer(h)]
      BY <2>1 DEF TableFits, Shrinks, FewerPeers
    <3>2. QED
      BY <3>1 DEF Fresh, Shrinks
  <2>2. QED
    BY <2>1
<1>4. QED
  BY <1>1, <1>2, <1>3 DEF TableFits, Shrinks

LEMMA RemoveShrinks ==
  ASSUME NEW s, DOMAIN s = RelayFields, DOMAIN s.next_connection_id = DOMAIN s.peers, NEW P
  PROVE  Shrinks(s, remove_peers(s, P))
<1>1. PICK t : t = remove_peers(s, P)
  OBVIOUS
<1>2. /\ t.peers = Restrict(s.peers, DOMAIN s.peers \ P)
      /\ t.local_connections = ForgetPeers(s.local_connections, P)
      /\ t.relayed_connections = ForgetPeers(s.relayed_connections, P)
      /\ t.next_connection_id = Restrict(s.next_connection_id, DOMAIN s.next_connection_id \ P)
      /\ t.games = Restrict(s.games, DOMAIN s.games \ games_of(s, P))
  BY <1>1 DEF remove_peers, RelayFields
<1>3. FewerPeers(s, t)
  BY <1>2 DEF FewerPeers, Restrict
<1>4. QED
  BY <1>1, <1>2, <1>3 DEF Shrinks, ForgetPeers, RestrictDomain, Restrict

LEMMA ShrinksTwice ==
  ASSUME NEW s, NEW t, NEW u, Shrinks(s, t), Shrinks(t, u)
  PROVE  Shrinks(s, u)
BY DEF Shrinks, FewerPeers

\* What send_all leaves, and whom it sends to.
LEMMA SendShrinks ==
  ASSUME NEW s, DOMAIN s = RelayFields, DOMAIN s.next_connection_id = DOMAIN s.peers,
         NEW live, NEW to, NEW msg
  PROVE  LET e == send_all(s, live, to, msg)
         IN /\ Shrinks(s, e.relay)
            /\ \A o \in e.out : o.msg = msg /\ \E p \in to : o.to = s.peers[p]
<1> DEFINE P == {p \in to : s.peers[p] \notin live}
           e == send_all(s, live, to, msg)
<1>1. e.relay = remove_peers(s, P) /\ e.out = {[to |-> s.peers[p], msg |-> msg] : p \in to \ P}
  BY DEF send_all, Effect
<1>2. Shrinks(s, e.relay)
  BY <1>1, RemoveShrinks
<1>3. QED
  BY <1>1, <1>2

\* A handler that only takes entries out.
LEMMA ShrinkStep ==
  ASSUME Inv, RoutesInv, NEW r \in Relay, NEW e, Apply(r, e),
         inbox[r] # <<>>, inbox' = [inbox EXCEPT ![r] = Tail(@)],
         UNCHANGED <<ends, conn, heard, names, route>>,
         Quiet(tables[r], e), Shrinks(tables[r], e.relay),
         \A o \in e.out : o.msg.type # "Connect" /\ Fits(o.to, o.msg),
         \A d \in e.deliver : d.data # NoData => Paired(d.tx, d.data[1])
  PROVE  RoutesInv'
<1>1. TypeOK /\ TableFits(r, tables[r]) /\ TablesInv(tables[r])
  BY DEF Inv, RoutesInv, TablesFit, TypeOK
<1>2. TableFits(r, e.relay)
  BY <1>1, ShrunkFits
<1>4. \A o \in e.out : o.to \in Handle
  BY <1>1, TablesHold DEF Quiet, ToPeers
<1>5. \A p \in DOMAIN e.relay.peers : p \in DOMAIN tables[r].peers
  BY DEF Shrinks, FewerPeers
<1>6. NamesGrow
  BY DEF NamesGrow
<1>7. QED
  BY <1>2, <1>4, <1>5, <1>6, MainSteady

\* The head of a queue fits.
LEMMA HeadFits ==
  ASSUME Inv, RoutesInv, NEW r \in Relay, inbox[r] # <<>>
  PROVE  1 \in 1..Len(inbox[r]) /\ Head(inbox[r]) = inbox[r][1] /\ QueueFits(r, Head(inbox[r]))
<1>1. PICK q \in Seq(Message) : q = inbox[r]
  BY DEF Inv, TypeOK
<1>2. 1 \in 1..Len(q) /\ Head(q) = q[1]
  BY <1>1, TailAt
<1>3. QED
  BY <1>1, <1>2 DEF RoutesInv, QueuesFit

\* A peer is added with a session that is new.
LEMMA AddPeerFits ==
  ASSUME NEW r \in Relay, NEW s, TablesInv(s), TableFits(r, s), NEW p, NEW h, Leads(r, p, h),
         h \in Up => Unused(h)
  PROVE  TableFits(r, add_peer(s, p, h))
<1>1. PICK t : t = add_peer(s, p, h)
  OBVIOUS
<1>2. /\ t.peers = Insert(s.peers, p, h) /\ t.games = s.games
      /\ t.local_connections = ForgetPeers(s.local_connections, {p})
      /\ t.relayed_connections = ForgetPeers(s.relayed_connections, {p})
      /\ t.next_connection_id = Insert(s.next_connection_id, p, FirstConnectionId)
  BY <1>1 DEF add_peer, TablesInv, RelayType, RelayFields
<1>3. /\ \A k \in DOMAIN t.local_connections :
            /\ k \in DOMAIN s.local_connections /\ k[1] # p
            /\ t.local_connections[k] = s.local_connections[k]
      /\ \A k \in DOMAIN t.relayed_connections :
            k \in DOMAIN s.relayed_connections /\ t.relayed_connections[k] = s.relayed_connections[k]
  BY <1>2 DEF ForgetPeers, RestrictDomain, Restrict
<1>4. ASSUME NEW k \in Up, k[2] = r, Peer(k) \in DOMAIN t.peers
      PROVE  Fresh(t, k)
  <2>1. CASE Peer(k) = p
    <3>1. k = h
      BY <1>4, <2>1, LeadsBack, OneWay DEF Leads
    <3>2. QED
      BY <1>3, <1>4, <2>1, <3>1 DEF Fresh, Unused
  <2>2. CASE Peer(k) # p
    <3>1. Peer(k) \in DOMAIN s.peers /\ DOMAIN s.next_connection_id = DOMAIN s.peers
      BY <1>2, <1>4, <2>2 DEF Insert, TablesInv
    <3>2. t.next_connection_id[Peer(k)] = s.next_connection_id[Peer(k)]
      BY <1>2, <2>2, <3>1 DEF Insert
    <3>3. Fresh(s, k)
      BY <1>4, <3>1 DEF TableFits
    <3>4. QED
      BY <1>3, <3>2, <3>3 DEF Fresh
  <2>3. QED
    BY <2>1, <2>2
<1>5. TableFits(r, t)
  BY <1>2, <1>3, <1>4 DEF TableFits
<1>6. QED
  BY <1>1, <1>5

LEMMA RunPeerRoutes ==
  ASSUME Inv, RoutesInv, NEW r \in Relay, RunPeer(r)
  PROVE  RoutesInv'
<1>1. PICK m, s : m = Head(inbox[r]) /\ s = tables[r]
  OBVIOUS
<1>2. UNCHANGED <<ends, conn, heard, names, route>> /\ TypeOK /\ TablesInv(s) /\ TableFits(r, s)
  BY <1>1 DEF RunPeer, history, Inv, TypeOK, RoutesInv, TablesFit
<1>3. CASE /\ Take(r, "AddPeer")
           /\ Apply(r, Effect(add_peer(tables[r], Head(inbox[r]).peer, Head(inbox[r]).handle)))
  <2>1. PICK p, h, e : p = m.peer /\ h = m.handle /\ e = Effect(add_peer(s, p, h))
    OBVIOUS
  <2>2. /\ inbox[r] # <<>> /\ inbox' = [inbox EXCEPT ![r] = Tail(@)]
        /\ m \in Message /\ Sound(r, m) /\ m.msg = "AddPeer"
    BY <1>1, <1>3, Taken
  <2>3. Apply(r, e) /\ e.out = {} /\ e.deliver = {} /\ e.relay = add_peer(s, p, h)
    BY <1>1, <1>3, <2>1 DEF Effect
  <2>4. Leads(r, p, h) /\ (h \in Up => Unused(h)) /\ 1 \in 1..Len(inbox[r]) /\ m = inbox[r][1]
    BY <1>1, <2>1, <2>2, HeadFits DEF Sound, QueueFits
  <2>5. TableFits(r, e.relay)
    BY <1>2, <2>3, <2>4, AddPeerFits
  <2>6. ends[h] # "new"
    BY <2>1, <2>2, <2>4 DEF RoutesInv, NewUnused, Leads
  <2>7. ASSUME NEW j \in 1..Len(inbox[r]), j # 1, inbox[r][j].msg = "AddPeer", inbox[r][j].peer = p
        PROVE  FALSE
    <3>1. PICK k : k = inbox[r][j]
      OBVIOUS
    <3>2. Sound(r, k)
      <4>1. inbox[r] \in Seq({x \in Message : Sound(r, x)})
        BY DEF Inv, QueuesSound
      <4>2. QED
        BY <3>1, <4>1
    <3>3. k.handle = h
      BY <2>4, <2>7, <3>1, <3>2, LeadsBack DEF Sound
    <3>4. QueueClash(k, m)
      BY <2>1, <2>2, <2>7, <3>1, <3>3 DEF QueueClash
    <3>5. QED
      BY <2>4, <2>7, <3>1, <3>4 DEF RoutesInv, QueuesApart
  <2>8. \A q \in DOMAIN e.relay.peers : q \notin DOMAIN s.peers => q = p
    <3>1. e.relay.peers = Insert(s.peers, p, h)
      BY <2>3 DEF add_peer, TablesInv, RelayType, RelayFields
    <3>2. QED
      BY <3>1 DEF Insert
  <2>9. \A q \in DOMAIN e.relay.peers : \A k :
          q \notin DOMAIN tables[r].peers /\ Leads(r, q, k) =>
            /\ ends[k] # "new"
            /\ \A j \in 1..Len(inbox[r]) : j # 1 /\ inbox[r][j].msg = "AddPeer" => inbox[r][j].peer # q
    <3>1. ASSUME NEW q \in DOMAIN e.relay.peers, NEW k, q \notin DOMAIN s.peers, Leads(r, q, k)
          PROVE  q = p /\ k = h
      <4>1. \A x : Leads(r, p, x) => x = h
        BY ONLY <2>4, LeadsBack
      <4>2. QED
        BY <2>8, <3>1, <4>1
    <3>2. QED
      BY <1>1, <2>6, <2>7, <3>1
  <2>10. NamesGrow
    BY <1>2 DEF NamesGrow
  <2>11. QED
    BY <1>2, <2>2, <2>3, <2>5, <2>9, <2>10, MainSteady
<1>4. CASE /\ Take(r, "RemovePeer")
           /\ Apply(r, Effect(remove_peer(tables[r], Head(inbox[r]).peer)))
  <2>1. PICK p, e : p = m.peer /\ e = Effect(remove_peer(s, p))
    OBVIOUS
  <2>2. inbox[r] # <<>> /\ inbox' = [inbox EXCEPT ![r] = Tail(@)] /\ m \in Message /\ m.msg = "RemovePeer"
    BY <1>1, <1>4, Taken
  <2>3. Apply(r, e) /\ e.out = {} /\ e.deliver = {} /\ e.relay = remove_peers(s, {p}) /\ p \in Relay
    BY <1>1, <1>4, <2>1, <2>2 DEF Effect, remove_peer, Message
  <2>4. Quiet(s, e)
    BY <1>2, <2>1, <2>3, RemovePeerQuiet
  <2>5. Shrinks(s, e.relay)
    BY <1>2, <2>3, RemoveShrinks DEF TablesInv, RelayType
  <2>6. QED
    BY <1>1, <1>2, <2>2, <2>3, <2>4, <2>5, ShrinkStep
<1>5. QED
  BY <1>3, <1>4 DEF RunPeer

LEMMA RunCloseConnectionRoutes ==
  ASSUME Inv, RoutesInv, NEW r \in Relay, RunCloseConnection(r)
  PROVE  RoutesInv'
<1>1. PICK f, p, s : f = Head(inbox[r]).message /\ p = Head(inbox[r]).peer /\ s = tables[r]
  OBVIOUS
<1>2. PICK e : e = handle_close_connection(s, p, f)
  OBVIOUS
<1>3. /\ UNCHANGED <<ends, conn, heard, names, route>> /\ TypeOK /\ TablesInv(s)
      /\ Take(r, "Recv") /\ Apply(r, e)
  BY <1>1, <1>2 DEF RunCloseConnection, TakeRecv, history, Inv, TypeOK
<1>4. inbox[r] # <<>> /\ inbox' = [inbox EXCEPT ![r] = Tail(@)]
  BY <1>3, Taken
<1>5. Quiet(s, e)
  BY <1>2, <1>3, CloseQuiet
<1>6. Shrinks(s, e.relay) /\ e.out = {} /\ e.deliver = {}
  <2> DEFINE key == <<p, [id |-> f.connection_id, local |-> f.connection_local]>>
             t == [s EXCEPT !.local_connections = Remove(@, key), !.relayed_connections = Remove(@, key)]
             u == [t EXCEPT !.relayed_connections = Remove(@, s.relayed_connections[key])]
  <2>1. e.relay \in {s, t, u} /\ e.out = {} /\ e.deliver = {}
    BY <1>2 DEF handle_close_connection, Effect
  <2>2. DOMAIN s = RelayFields
    BY <1>3 DEF TablesInv, RelayType
  <2>3. Shrinks(s, s)
    BY DEF Shrinks, FewerPeers
  <2>4. Shrinks(s, t)
    <3>1. /\ t.peers = s.peers /\ t.next_connection_id = s.next_connection_id /\ t.games = s.games
          /\ t.local_connections = Remove(s.local_connections, key)
          /\ t.relayed_connections = Remove(s.relayed_connections, key)
      BY <2>2 DEF RelayFields
    <3> HIDE DEF t
    <3>2. QED
      BY <3>1 DEF Shrinks, FewerPeers, Remove, Restrict
  <2>5. Shrinks(t, u)
    <3>1. DOMAIN t = RelayFields
      BY <2>2
    <3>2. /\ u.peers = t.peers /\ u.next_connection_id = t.next_connection_id /\ u.games = t.games
          /\ u.local_connections = t.local_connections
          /\ u.relayed_connections = Remove(t.relayed_connections, s.relayed_connections[key])
      BY <3>1 DEF RelayFields
    <3> HIDE DEF t, u
    <3>3. QED
      BY <3>2 DEF Shrinks, FewerPeers, Remove, Restrict
  <2> HIDE DEF t, u
  <2>6. QED
    BY <2>1, <2>3, <2>4, <2>5, ShrinksTwice
<1>7. QED
  BY <1>1, <1>3, <1>4, <1>5, <1>6, ShrinkStep

\* The peers of a relay, the ends that lead to them, and what comes from them.
LEMMA PeersLead ==
  ASSUME Inv, NEW r \in Relay, NEW p \in DOMAIN tables[r].peers
  PROVE  Leads(r, p, tables[r].peers[p])
BY DEF Inv, HandlesLead

\* A game of the relay's own LAN is advertised downwards.
LEMMA RunAddLocalGameRoutes ==
  ASSUME Inv, RoutesInv, NEW r \in Relay, RunAddLocalGame(r)
  PROVE  RoutesInv'
<1>1. PICK m, s, from, port, live : /\ m = Head(inbox[r]) /\ s = tables[r] /\ live = Live
                                    /\ from = m.from /\ port = m.port
  OBVIOUS
<1>2. PICK e : e = add_local_game(s, live, from, port)
  OBVIOUS
<1>3. /\ UNCHANGED <<ends, conn, heard, route>> /\ TypeOK /\ TablesInv(s) /\ TableFits(r, s)
      /\ Take(r, "AddLocalGame") /\ Apply(r, e)
  BY <1>1, <1>2 DEF RunAddLocalGame, Inv, TypeOK, RoutesInv, TablesFit
<1>4. NamesGrow
  BY RunAddLocalGameInv DEF Grows, NamesGrow
<1>5. /\ inbox[r] # <<>> /\ inbox' = [inbox EXCEPT ![r] = Tail(@)]
      /\ m \in Message /\ m.msg = "AddLocalGame" /\ Sound(r, m)
  BY <1>1, <1>3, Taken
<1>6. from.ip = r /\ from.port # 0 /\ [ip |-> r, port |-> port] \in LanGame
  BY <1>1, <1>5, HeadFits DEF QueueFits, Sound
<1>7. \A h \in Up : h[2] # r
  BY <1>6, OneWay
<1> DEFINE addr == [ip |-> from.ip, port |-> port]
           known == addr \in DOMAIN s.local_games
           id == IF known THEN s.local_games[addr] ELSE s.next_key
           t == IF known THEN s
                ELSE [s EXCEPT !.local_games = Insert(@, addr, id),
                               !.games = Insert(@, id, Local(addr)),
                               !.next_key = @ + 1]
           msg == RelayGame(id, 0)
<1>8. e = send_all(t, live, DOMAIN t.peers, msg)
  BY <1>2, <1>6 DEF add_local_game, next_id
<1>9. /\ DOMAIN t = RelayFields /\ t.peers = s.peers /\ t.next_connection_id = s.next_connection_id
      /\ t.local_connections = s.local_connections /\ t.relayed_connections = s.relayed_connections
      /\ t.games = s.games \/ t.games = Insert(s.games, id, Local(addr))
  BY <1>3 DEF TablesInv, RelayType, RelayFields
<1>10. DOMAIN t.next_connection_id = DOMAIN t.peers
  BY <1>3, <1>9 DEF TablesInv
<1>11. msg.type = "Game" /\ Local(addr).kind = "local"
  BY DEF RelayGame, Local
<1> HIDE DEF t, msg, id, addr
<1>12. Shrinks(t, e.relay) /\ \A o \in e.out : o.msg = msg /\ \E p \in DOMAIN t.peers : o.to = t.peers[p]
  BY <1>8, <1>9, <1>10, SendShrinks
<1>13. TableFits(r, t)
  <2>1. \A l \in DOMAIN t.games : t.games[l].kind = "remote" => l \in DOMAIN s.games /\ t.games[l] = s.games[l]
    BY <1>9, <1>11 DEF Insert
  <2>2. QED
    BY <1>3, <1>7, <1>9, <2>1 DEF TableFits
<1>14. TableFits(r, e.relay)
  BY <1>12, <1>13, ShrunkFits
<1>15. ASSUME NEW o \in e.out PROVE o.to \in Handle /\ o.msg.type # "Connect" /\ Fits(o.to, o.msg)
  <2>1. PICK p \in DOMAIN s.peers : o.to = s.peers[p]
    BY <1>9, <1>12
  <2>2. o.to \in Handle /\ o.to[2] = r
    BY <1>1, <2>1, PeersLead DEF Leads
  <2>3. QED
    BY <1>7, <1>11, <1>12, <2>2 DEF Fits
<1>16. \A p \in DOMAIN e.relay.peers : p \in DOMAIN tables[r].peers
  BY <1>1, <1>9, <1>12 DEF Shrinks, FewerPeers
<1>17. e.deliver = {}
  BY <1>8, <1>9, SendAllIs
<1>18. QED
  BY <1>3, <1>4, <1>5, <1>14, <1>15, <1>16, <1>17, MainSteady

\* A game that comes from above is advertised downwards.
LEMMA RunGameRoutes ==
  ASSUME Inv, RoutesInv, NEW r \in Relay, RunGame(r)
  PROVE  RoutesInv'
<1>1. PICK p, m, s, x, live, alive :
             /\ p = Head(inbox[r]).peer /\ m = Head(inbox[r]).message /\ s = tables[r]
             /\ x = {[id |-> s.next_key, port |-> s.next_key]} /\ live = Live /\ alive = Nat
  OBVIOUS
<1>2. PICK e : e = handle_game(s, live, p, m, alive, x)
  OBVIOUS
<1>3. /\ UNCHANGED <<ends, conn, heard, route>> /\ TypeOK /\ TablesInv(s) /\ TableFits(r, s)
      /\ Take(r, "Recv") /\ Apply(r, e) /\ m.type = "Game"
  BY <1>1, <1>2 DEF RunGame, TakeRecv, Inv, TypeOK, RoutesInv, TablesFit
<1>4. NamesGrow
  BY RunGameInv DEF Grows, NamesGrow
<1>5. inbox[r] # <<>> /\ inbox' = [inbox EXCEPT ![r] = Tail(@)] /\ Head(inbox[r]).msg = "Recv"
  BY <1>3, Taken
<1>6. CASE p \notin DOMAIN s.peers
  <2>1. e.relay = s /\ e.out = {} /\ e.deliver = {}
    BY <1>2, <1>6 DEF handle_game, Effect
  <2>2. QED
    BY <1>1, <1>3, <1>4, <1>5, <2>1, MainSteady
<1>7. CASE p \in DOMAIN s.peers
  <2>1. PICK h : h = s.peers[p]
    OBVIOUS
  <2>2. Leads(r, p, h)
    BY <1>1, <1>7, <2>1, PeersLead
  <2>3. /\ Leads(p, r, Other(h)) /\ Other(h) \in Handle /\ (h \in Up <=> Other(h) \notin Up)
        /\ \A k : Leads(r, p, k) => k = h
    BY <2>2, LeadsBack, Handles
  <2>4. h \in Up
    BY <1>1, <1>3, <1>5, <2>3, HeadFits DEF QueueFits, Fits
  <2> DEFINE added == add_game(s, p, m.id, alive, x)
             a == added.relay
             k == a.peer_games[<<p, m.id>>]
             passed == forward_game(a, live, p, k, m.hops)
             l == LocalId(s, p, m.id)
             game == IF l \in DOMAIN s.games THEN s.games[l] ELSE Remote(p, m.id, {})
  <2>5. /\ DOMAIN a = RelayFields /\ a.peers = s.peers /\ a.next_connection_id = s.next_connection_id
        /\ a.local_connections = s.local_connections /\ a.relayed_connections = s.relayed_connections
        /\ \/ a.games = s.games
           \/ game.kind # "local" /\ \E z : a.games = Insert(s.games, l, Remote(game.peer_id, game.remote_game_id, z))
        /\ added.deliver = {} /\ added.out = {} /\ "relay" \in DOMAIN added /\ "out" \in DOMAIN added
        /\ "deliver" \in DOMAIN added
    BY <1>3 DEF add_game, Effect, TablesInv, RelayType, RelayFields
  <2>6. e = added \/ e = [added EXCEPT !.relay = passed.relay, !.out = passed.out]
    BY <1>2, <1>7 DEF handle_game
  <2>7. l \in DOMAIN s.games \/ game.peer_id = p
    BY DEF Remote
  <2>8. TableFits(r, a)
    <3>1. ASSUME NEW y \in DOMAIN a.games, NEW g \in Handle, a.games[y].kind = "remote", Leads(r, a.games[y].peer_id, g)
          PROVE  g \in Up
      <4>1. CASE a.games = s.games
        BY <1>3, <3>1, <4>1 DEF TableFits
      <4>2. CASE game.kind # "local" /\ \E z : a.games = Insert(s.games, l, Remote(game.peer_id, game.remote_game_id, z))
        <5>1. \/ y = l /\ a.games[y].peer_id = game.peer_id
              \/ y # l /\ y \in DOMAIN s.games /\ a.games[y] = s.games[y]
          <6> HIDE DEF a, l, game
          <6>1. PICK z : a.games = Insert(s.games, l, Remote(game.peer_id, game.remote_game_id, z))
            BY <4>2
          <6>2. Remote(game.peer_id, game.remote_game_id, z).peer_id = game.peer_id
            BY DEF Remote
          <6>3. QED
            BY <3>1, <6>1, <6>2 DEF Insert
        <5>2. l \in DOMAIN s.games => game = s.games[l] /\ game.kind = "remote"
          BY <1>3, <4>2, TablesHold DEF LocalGame, RemoteGame
        <5> HIDE DEF a, l, game
        <5>3. CASE y = l /\ l \in DOMAIN s.games
          BY <1>3, <3>1, <5>1, <5>2, <5>3 DEF TableFits
        <5>4. CASE y = l /\ game.peer_id = p
          BY <2>3, <2>4, <3>1, <5>1, <5>4
        <5>5. CASE y # l
          BY <1>3, <3>1, <5>1, <5>5 DEF TableFits
        <5>6. QED
          BY <2>7, <5>3, <5>4, <5>5
      <4>3. QED
        BY <2>5, <4>1, <4>2
    <3> HIDE DEF a
    <3>2. \A g \in Up : Fresh(s, g) => Fresh(a, g)
      BY <2>5 DEF Fresh
    <3>3. QED
      BY <1>3, <2>5, <3>1, <3>2 DEF TableFits
  <2>9. e.deliver = {} /\ ((e.relay = a /\ e.out = {}) \/ (e.relay = passed.relay /\ e.out = passed.out))
    BY <2>5, <2>6
  <2> DEFINE to == DOMAIN a.peers \ {p}
             msg == RelayGame(k, m.hops + 1)
  <2>10. passed = Effect(a) \/ passed = send_all(a, live, to, msg)
    BY DEF forward_game
  <2>11. DOMAIN a.next_connection_id = DOMAIN a.peers
    BY <1>3, <2>5 DEF TablesInv
  <2> HIDE DEF a, passed, to, msg, added, k
  <2>12. /\ Shrinks(a, e.relay)
         /\ \A o \in e.out : o.msg = msg /\ \E q \in to : o.to = a.peers[q]
    <3>1. Shrinks(a, a)
      BY DEF Shrinks, FewerPeers
    <3>2. CASE passed = Effect(a)
      <4>1. passed.relay = a /\ passed.out = {}
        BY <3>2 DEF Effect
      <4>2. QED
        BY <2>9, <3>1, <4>1
    <3>3. CASE passed = send_all(a, live, to, msg)
      <4>1. /\ Shrinks(a, passed.relay)
            /\ \A o \in passed.out : o.msg = msg /\ \E q \in to : o.to = a.peers[q]
        BY <2>5, <2>11, <3>3, SendShrinks
      <4>2. QED
        BY <2>9, <3>1, <4>1
    <3>4. QED
      BY <2>10, <3>2, <3>3
  <2>13. TableFits(r, e.relay)
    BY <2>8, <2>12, ShrunkFits
  <2>14. ASSUME NEW o \in e.out PROVE o.to \in Handle /\ o.msg.type # "Connect" /\ Fits(o.to, o.msg)
    <3>1. PICK q \in DOMAIN s.peers : q # p /\ o.to = s.peers[q]
      BY <2>5, <2>12 DEF to
    <3>2. Leads(r, q, o.to)
      BY <1>1, <3>1, PeersLead
    <3>3. o.to \notin Up
      BY <2>2, <2>4, <3>1, <3>2, OneWay DEF Leads
    <3>4. msg.type = "Game"
      BY DEF msg, RelayGame
    <3>5. QED
      BY <2>12, <3>2, <3>3, <3>4 DEF Fits, Leads
  <2>15. \A q \in DOMAIN e.relay.peers : q \in DOMAIN tables[r].peers
    BY <1>1, <2>5, <2>12 DEF Shrinks, FewerPeers
  <2>16. QED
    BY <1>3, <1>4, <1>5, <2>9, <2>13, <2>14, <2>15, MainSteady
<1>8. QED
  BY <1>6, <1>7

-----------------------------------------------------------------------------
(* Data. *)

LEMMA HopsApart ==
  ASSUME RoutesApart, NEW s, NEW n
  PROVE  \A c, d \in Player : Hop(c, s, n) /\ Hop(d, s, n) => c = d
BY DEF RoutesApart, Hop

LEMMA ComeHop ==
  ASSUME TypeOK, NEW s, NEW n, NEW c \in Come(s, n)
  PROVE  c \in Player /\ Hop(c, s, n) /\ Len(route[c]) \in Nat /\ Len(route[c]) # 0
         /\ route[c][Len(route[c])] = <<s, n>>
<1>1. c \in Player /\ route[c] # <<>> /\ route[c][Len(route[c])] = <<s, n>>
  BY DEF Come
<1>2. PICK q \in Seq(Session \X Nat) : q = route[c]
  BY <1>1 DEF TypeOK
<1>3. Len(q) \in 1..Len(q) /\ Len(q) \in Nat /\ Len(q) # 0
  BY <1>1, <1>2
<1>4. QED
  BY <1>1, <1>2, <1>3 DEF Hop

\* Where the way of a player ends, there is nobody else.
LEMMA ComeAlone ==
  ASSUME TypeOK, RoutesApart, NEW s, NEW n, NEW c \in Come(s, n)
  PROVE  \A d \in Player : Hop(d, s, n) => d = c
BY ComeHop, HopsApart

\* Data that came over a session goes to the connection that the table has.
LEMMA DataDelivered ==
  ASSUME TypeOK, RoutesApart, DialsEnd, NEW h \in Handle, NEW m, DataFits(Other(h), m), m.data # NoData,
         NEW cid, cid.id = m.connection_id, NEW x, Holds(h, cid, x)
  PROVE  Paired(x, m.data[1])
<1>1. Other(h)[1] = h[1] /\ (h \in Up <=> Other(h) \notin Up)
  BY OneWay DEF Other
<1>2. PICK c \in Player : /\ Hop(c, h[1], cid.id)
                          /\ IF Other(h) \in Up THEN m.data[1] = c ELSE Serves(m.data[1], c)
  BY <1>1 DEF DataFits
<1>3. CASE h \in Up
  BY <1>1, <1>2, <1>3 DEF Holds, Paired
<1>4. CASE h \notin Up
  <2>1. DialedFor(x, h[1], cid.id) /\ m.data[1] = c
    BY <1>1, <1>2, <1>4 DEF Holds
  <2>2. /\ x \in Dialed /\ conn[x].st # "free" /\ conn[x].tx[1] = h[1] /\ conn[x].cid.id = cid.id
        /\ x \notin Player
    BY <2>1, NetworkAssumption DEF DialedFor
  <2>3. PICK d : d \in Come(h[1], cid.id)
    BY <2>2 DEF DialsEnd, DialEnds
  <2>4. c = d
    BY <1>2, <2>3, ComeAlone
  <2>5. QED
    BY <2>1, <2>2, <2>3, <2>4 DEF Paired, Serves
<1>5. QED
  BY <1>3, <1>4

\* Data that came over a session fits the one it is relayed to.
LEMMA DataRelayed ==
  ASSUME RoutesApart, NEW h \in Handle, NEW m, DataFits(Other(h), m), NEW k,
         NEW cid, cid.id = m.connection_id, NEW to, Joins(h, cid, k, to)
  PROVE  Fits(k, RelayData(to, m.data)) /\ RelayData(to, m.data).type # "Connect"
<1>1. Other(h)[1] = h[1] /\ (h \in Up <=> Other(h) \notin Up)
  BY OneWay DEF Other
<1>2. PICK f : f = RelayData(to, m.data)
  OBVIOUS
<1>3. f.type = "Data" /\ f.connection_id = to.id /\ f.data = m.data
  BY <1>2 DEF RelayData
<1>4. (h \in Up <=> k \notin Up) /\ \E c \in Player : Hop(c, h[1], cid.id) /\ Hop(c, k[1], to.id)
  BY DEF Joins
<1>5. ASSUME m.data # NoData
      PROVE  \E c \in Player : /\ Hop(c, k[1], to.id)
                               /\ IF k \in Up THEN m.data[1] = c ELSE Serves(m.data[1], c)
  <2>1. PICK c \in Player : /\ Hop(c, h[1], cid.id)
                            /\ IF Other(h) \in Up THEN m.data[1] = c ELSE Serves(m.data[1], c)
    BY <1>1, <1>5 DEF DataFits
  <2>2. PICK d \in Player : Hop(d, h[1], cid.id) /\ Hop(d, k[1], to.id)
    BY <1>4
  <2>3. c = d
    BY <2>1, <2>2, HopsApart
  <2>4. QED
    BY <1>1, <1>4, <2>1, <2>2, <2>3
<1>6. DataFits(k, f)
  BY <1>3, <1>5 DEF DataFits
<1>7. QED
  BY <1>2, <1>3, <1>6 DEF Fits

LEMMA RunDataRoutes ==
  ASSUME Inv, RoutesInv, NEW r \in Relay, RunData(r)
  PROVE  RoutesInv'
<1>1. PICK p, m, s, live, open : /\ p = Head(inbox[r]).peer /\ m = Head(inbox[r]).message /\ s = tables[r]
                                 /\ live = Live /\ open = Open
  OBVIOUS
<1>2. PICK e : e = handle_data(s, live, open, p, m)
  OBVIOUS
<1>3. /\ UNCHANGED <<ends, conn, heard, names, route>> /\ TypeOK /\ TablesInv(s) /\ TableFits(r, s)
      /\ Take(r, "Recv") /\ Apply(r, e) /\ m.type = "Data" /\ RoutesApart /\ DialsEnd
  BY <1>1, <1>2 DEF RunData, TakeRecv, history, Inv, TypeOK, RoutesInv, TablesFit
<1>4. /\ inbox[r] # <<>> /\ inbox' = [inbox EXCEPT ![r] = Tail(@)]
      /\ Head(inbox[r]) \in Message /\ Head(inbox[r]).msg = "Recv"
  BY <1>3, Taken
<1>5. m.data \in Data
  <2>1. m \in RelayMessage
    BY <1>1, <1>4 DEF Message
  <2>2. QED
    BY <1>3, <2>1 DEF RelayMessage, RelayPing
<1>6. Quiet(s, e)
  BY <1>2, <1>3, <1>5, DataQuiet
<1> DEFINE cid == [id |-> m.connection_id, local |-> m.connection_local]
           key == <<p, cid>>
<1>7. cid.id = m.connection_id /\ key[1] = p /\ key[2] = cid
  OBVIOUS
<1>8. ASSUME p \in DOMAIN s.peers
      PROVE  /\ Leads(r, p, s.peers[p]) /\ s.peers[p] \in Handle
             /\ DataFits(Other(s.peers[p]), m)
  <2>1. Leads(r, p, s.peers[p]) /\ s.peers[p] \in Handle
    BY <1>1, <1>8, PeersLead DEF Leads
  <2>2. Leads(p, r, Other(s.peers[p])) /\ Other(s.peers[p]) \in Handle
    BY <2>1, LeadsBack, Handles
  <2>3. QED
    BY <1>1, <1>3, <1>4, <2>1, <2>2, HeadFits DEF QueueFits, Fits
<1> HIDE DEF cid
<1>9. Shrinks(s, s)
  BY DEF Shrinks, FewerPeers
<1>10. CASE p \notin DOMAIN s.peers
  <2>1. e.relay = s /\ e.out = {} /\ e.deliver = {}
    BY <1>2, <1>10 DEF handle_data, Effect
  <2>2. QED
    BY <1>1, <1>3, <1>4, <1>6, <1>9, <2>1, ShrinkStep
<1>11. CASE p \in DOMAIN s.peers /\ key \in DOMAIN s.local_connections
  <2> DEFINE t == [s EXCEPT !.local_connections = Remove(@, key)]
  <2>1. PICK x : x = s.local_connections[key]
    OBVIOUS
  <2>2. /\ e.out = {}
        /\ \/ e.relay = t /\ e.deliver = {}
           \/ e.relay = s /\ e.deliver = {[tx |-> x, data |-> m.data]}
    BY <1>2, <1>11, <2>1 DEF handle_data, Effect, cid
  <2>3. Shrinks(s, t)
    <3>1. /\ t.peers = s.peers /\ t.next_connection_id = s.next_connection_id /\ t.games = s.games
          /\ t.local_connections = Remove(s.local_connections, key)
          /\ t.relayed_connections = s.relayed_connections
      BY <1>3 DEF TablesInv, RelayType, RelayFields
    <3> HIDE DEF t
    <3>2. QED
      BY <3>1 DEF Shrinks, FewerPeers, Remove, Restrict
  <2> HIDE DEF t
  <2>4. Holds(s.peers[p], cid, x)
    BY <1>3, <1>7, <1>8, <1>11, <2>1 DEF TableFits
  <2>5. m.data # NoData => Paired(x, m.data[1])
    BY <1>3, <1>7, <1>8, <1>11, <2>4, DataDelivered
  <2>6. \A d \in e.deliver : d.data # NoData => Paired(d.tx, d.data[1])
    <3>1. \A d \in e.deliver : d.tx = x /\ d.data = m.data
      BY <2>2
    <3>2. QED
      BY <2>5, <3>1
  <2>7. Shrinks(s, e.relay)
    BY <1>9, <2>2, <2>3
  <2>8. QED
    BY <1>1, <1>3, <1>4, <1>6, <2>2, <2>6, <2>7, ShrinkStep
<1>12. CASE /\ p \in DOMAIN s.peers /\ key \notin DOMAIN s.local_connections
            /\ key \in DOMAIN s.relayed_connections /\ s.relayed_connections[key][1] \in DOMAIN s.peers
  <2>1. PICK to, msg : to = s.relayed_connections[key] /\ msg = RelayData(to[2], m.data)
    OBVIOUS
  <2>2. e = send_all(s, live, {to[1]}, msg)
    BY <1>2, <1>12, <2>1 DEF handle_data, cid
  <2>3. DOMAIN s = RelayFields /\ DOMAIN s.next_connection_id = DOMAIN s.peers
    BY <1>3 DEF TablesInv, RelayType
  <2>4. Shrinks(s, e.relay) /\ \A o \in e.out : o.msg = msg /\ o.to = s.peers[to[1]]
    BY <2>2, <2>3, SendShrinks
  <2>5. Leads(r, to[1], s.peers[to[1]]) /\ s.peers[to[1]] \in Handle
    BY <1>1, <1>12, <2>1, PeersLead DEF Leads
  <2>6. Joins(s.peers[p], cid, s.peers[to[1]], to[2])
    BY <1>3, <1>7, <1>8, <1>12, <2>1, <2>5 DEF TableFits
  <2>7. Fits(s.peers[to[1]], msg) /\ msg.type # "Connect"
    BY <1>3, <1>7, <1>8, <1>12, <2>1, <2>6, DataRelayed
  <2>8. e.deliver = {}
    BY <2>2, <2>3, SendAllIs
  <2>9. QED
    BY <1>1, <1>3, <1>4, <1>6, <2>4, <2>7, <2>8, ShrinkStep
<1>13. CASE /\ p \in DOMAIN s.peers /\ key \notin DOMAIN s.local_connections
            /\ ~ (key \in DOMAIN s.relayed_connections /\ s.relayed_connections[key][1] \in DOMAIN s.peers)
  <2>1. e.relay = s /\ e.out = {} /\ e.deliver = {}
    BY <1>2, <1>13 DEF handle_data, Effect, cid
  <2>2. QED
    BY <1>1, <1>3, <1>4, <1>6, <1>9, <2>1, ShrinkStep
<1>14. QED
  BY <1>10, <1>11, <1>12, <1>13

\* A connection to a game is registered under the id it was dialed for.
LEMMA RunAddGameConnectionRoutes ==
  ASSUME Inv, RoutesInv, NEW r \in Relay, RunAddGameConnection(r)
  PROVE  RoutesInv'
<1>1. PICK m, p, cid, c, s, live : /\ m = Head(inbox[r]) /\ p = m.peer /\ cid = m.cid /\ c = m.conn
                                   /\ s = tables[r] /\ live = Live
  OBVIOUS
<1>2. PICK e : e = add_game_connection(s, live, p, cid, c)
  OBVIOUS
<1>3. /\ UNCHANGED <<ends, conn, heard, names, route>> /\ TypeOK /\ TablesInv(s) /\ TableFits(r, s)
      /\ Take(r, "AddGameConnection") /\ Apply(r, e)
  BY <1>1, <1>2 DEF RunAddGameConnection, history, Inv, TypeOK, RoutesInv, TablesFit
<1>4. inbox[r] # <<>> /\ inbox' = [inbox EXCEPT ![r] = Tail(@)] /\ m.msg = "AddGameConnection"
  BY <1>1, <1>3, Taken
<1>5. \A h \in Handle : Leads(r, p, h) => h \notin Up /\ DialedFor(c, h[1], cid.id)
  BY <1>1, <1>4, HeadFits DEF QueueFits
<1>6. NamesGrow
  BY <1>3 DEF NamesGrow
<1>7. CASE p \notin DOMAIN s.peers
  <2>1. e.relay = s /\ e.out = {} /\ e.deliver = {}
    BY <1>2, <1>7 DEF add_game_connection, Effect
  <2>2. QED
    BY <1>1, <1>3, <1>4, <1>6, <2>1, MainSteady
<1>8. CASE p \in DOMAIN s.peers
  <2> DEFINE key == <<p, cid>>
             t == [s EXCEPT !.local_connections = Insert(@, key, c)]
             msg == RelayData(cid, NoData)
  <2>1. e = send_all(t, live, {p}, msg)
    BY <1>2, <1>8 DEF add_game_connection
  <2>2. /\ DOMAIN t = RelayFields /\ t.peers = s.peers /\ t.next_connection_id = s.next_connection_id
        /\ t.relayed_connections = s.relayed_connections /\ t.games = s.games
        /\ t.local_connections = Insert(s.local_connections, key, c)
    BY <1>3 DEF TablesInv, RelayType, RelayFields
  <2>3. DOMAIN t.next_connection_id = DOMAIN t.peers
    BY <1>3, <2>2 DEF TablesInv
  <2>4. msg.type = "Data" /\ msg.data = NoData /\ key[1] = p /\ key[2] = cid
    BY DEF RelayData
  <2>5. Leads(r, p, s.peers[p]) /\ s.peers[p] \in Handle
    BY <1>1, <1>8, PeersLead DEF Leads
  <2> HIDE DEF t, msg, key
  <2>6. Shrinks(t, e.relay) /\ e.deliver = {} /\ \A o \in e.out : o.msg = msg /\ o.to = s.peers[p]
    BY <2>1, <2>2, <2>3, SendShrinks, SendAllIs
  <2>7. TableFits(r, t)
    <3>1. ASSUME NEW k \in DOMAIN t.local_connections, NEW h \in Handle, Leads(r, k[1], h)
          PROVE  Holds(h, k[2], t.local_connections[k])
      <4>1. CASE k = key
        <5>1. t.local_connections[k] = c
          BY <2>2, <4>1 DEF Insert
        <5>2. QED
          BY <1>5, <2>4, <3>1, <4>1, <5>1 DEF Holds
      <4>2. CASE k # key
        <5>1. k \in DOMAIN s.local_connections /\ t.local_connections[k] = s.local_connections[k]
          BY <2>2, <3>1, <4>2 DEF Insert
        <5>2. QED
          BY <1>3, <3>1, <5>1 DEF TableFits
      <4>3. QED
        BY <4>1, <4>2
    <3>2. ASSUME NEW h \in Up, h[2] = r, Peer(h) \in DOMAIN t.peers PROVE Fresh(t, h)
      <4>1. Fresh(s, h)
        BY <1>3, <2>2, <3>2 DEF TableFits
      <4>2. Peer(h) # p
        BY <1>5, <3>2, OneWay DEF Leads
      <4>3. \A k \in DOMAIN t.local_connections : k[1] = Peer(h) => k \in DOMAIN s.local_connections
        BY <2>2, <2>4, <4>2 DEF Insert
      <4>4. QED
        BY <2>2, <4>1, <4>3 DEF Fresh
    <3>3. QED
      BY <1>3, <2>2, <3>1, <3>2 DEF TableFits
  <2>8. TableFits(r, e.relay)
    BY <2>6, <2>7, ShrunkFits
  <2>9. \A o \in e.out : o.to \in Handle /\ o.msg.type # "Connect" /\ Fits(o.to, o.msg)
    BY <2>4, <2>5, <2>6 DEF Fits, DataFits
  <2>10. \A q \in DOMAIN e.relay.peers : q \in DOMAIN tables[r].peers
    BY <1>1, <2>2, <2>6 DEF Shrinks, FewerPeers
  <2>11. QED
    BY <1>3, <1>4, <1>6, <2>6, <2>8, <2>9, <2>10, MainSteady
<1>9. QED
  BY <1>7, <1>8

-----------------------------------------------------------------------------
(* The way of a player goes on. *)

\* Nobody is, or was, connection n of the session of h.
FreshId(h, n) == \A d \in Player : \A i \in 1..Len(route[d]) : route[d][i] # <<h[1], n>>

\* The Connect of player c is sent to h as connection n.
SentTo(c, h, n) == route' = [route EXCEPT ![c] = Append(@, <<h[1], n>>)]
Grew(c, h, n) == h \in Up /\ n \in Nat /\ FreshId(h, n) /\ SentTo(c, h, n)

\* Nothing else happens to anybody's way or thread.
Extends(c, h, n) ==
  /\ c \in Player /\ names' = names
  /\ route' = route \/ Grew(c, h, n)
  /\ \A d \in Dialed : ~Serves(d, c)
  /\ \A x \in Conn : x # c => conn'[x] = conn[x]
  /\ conn'[c].game = conn[c].game

LEMMA ExtendsHops ==
  ASSUME TypeOK, NEW c, NEW h, NEW n, Extends(c, h, n)
  PROVE  /\ \A x \in Player : x # c => route'[x] = route[x]
         /\ \A x \in Player : \A i \in 1..Len(route[x]) :
              i \in 1..Len(route'[x]) /\ route'[x][i] = route[x][i]
         /\ \A x \in Player : \A i \in 1..Len(route'[x]) :
              \/ i \in 1..Len(route[x]) /\ route'[x][i] = route[x][i]
              \/ /\ x = c /\ Grew(c, h, n) /\ i = Len(route[c]) + 1 /\ i = Len(route'[c])
                 /\ route'[c][i] = <<h[1], n>>
         /\ Grew(c, h, n) => /\ route'[c] # <<>> /\ route'[c][Len(route'[c])] = <<h[1], n>>
                             /\ Len(route'[c]) \in 1..Len(route'[c])
<1>1. c \in Player /\ \A x \in Player : route[x] \in Seq(Session \X Nat)
  BY DEF Extends, TypeOK
<1>2. CASE route' = route
  <2>1. ~Grew(c, h, n)
    <3>1. SUFFICES ASSUME Grew(c, h, n) PROVE FALSE
      OBVIOUS
    <3>2. PICK q \in Seq(Session \X Nat) : q = route[c]
      BY <1>1
    <3>3. route'[c] = Append(q, <<h[1], n>>)
      BY <1>1, <3>1, <3>2 DEF Grew, SentTo, TypeOK
    <3>4. Len(Append(q, <<h[1], n>>)) = Len(q) + 1 /\ Len(q) \in Nat
      BY AppendAt
    <3>5. Append(q, <<h[1], n>>) # q
      BY <3>4
    <3>6. QED
      BY <1>2, <3>2, <3>3, <3>5
  <2>2. QED
    BY <1>2, <2>1
<1>3. CASE Grew(c, h, n)
  <2>1. PICK q, v : q \in Seq(Session \X Nat) /\ q = route[c] /\ v = <<h[1], n>>
    BY <1>1
  <2>2. route'[c] = Append(q, v) /\ \A x \in Player : x # c => route'[x] = route[x]
    BY <1>1, <1>3, <2>1 DEF Grew, SentTo, TypeOK
  <2>3. /\ Len(q) \in Nat /\ Len(Append(q, v)) = Len(q) + 1
        /\ \A i \in 1..Len(Append(q, v)) :
             (i \in 1..Len(q) /\ Append(q, v)[i] = q[i]) \/ (i = Len(q) + 1 /\ Append(q, v)[i] = v)
    BY <2>1, AppendAt
  <2>4. Len(q) + 1 \in 1..Len(Append(q, v)) /\ Len(q) + 1 \notin 1..Len(q) /\ 1..Len(q) \subseteq 1..Len(Append(q, v))
    BY <2>3
  <2>5. Append(q, v)[Len(q) + 1] = v /\ Append(q, v) # <<>>
    BY <2>3, <2>4
  <2>6. \A i \in 1..Len(q) : Append(q, v)[i] = q[i]
    <3>1. ASSUME NEW i \in 1..Len(q) PROVE Append(q, v)[i] = q[i]
      <4>1. i \in 1..Len(Append(q, v)) /\ i # Len(q) + 1
        BY <2>4
      <4>2. QED
        BY <2>3, <4>1
    <3>2. QED
      BY <3>1
  <2>7. QED
    BY <1>3, <2>1, <2>2, <2>3, <2>4, <2>5, <2>6
<1>4. QED
  BY <1>2, <1>3 DEF Extends

LEMMA ExtendsEnds ==
  ASSUME TypeOK, RoutesApart, PlayersStart, DialsEnd, NEW c, NEW h, NEW n, Extends(c, h, n)
  PROVE  /\ RoutesApart' /\ DialsEnd'
         /\ \A d, s, m : DialedFor(d, s, m)' <=> DialedFor(d, s, m)
         /\ \A d, x : Serves(d, x)' <=> Serves(d, x)
         /\ \A x \in Player : \A s, m : Hop(x, s, m) => Hop(x, s, m)'
         /\ \A x \in Player : \A s, m :
              Hop(x, s, m)' => Hop(x, s, m) \/ (x = c /\ Grew(c, h, n) /\ s = h[1] /\ m = n)
         /\ \A s, m : \A x \in Come(s, m) : x # c => x \in Come(s, m)' /\ conn'[x].game = conn[x].game
         /\ Grew(c, h, n) => c \in Come(h[1], n)' /\ \A d \in Dialed : ~DialedFor(d, h[1], n)
<1>1. c \in Player /\ (\A d \in Dialed : d # c /\ d \in Conn) /\ \A d \in Player : d \in Conn
  BY NetworkAssumption DEF Extends, Conn
<1>2. \A d \in Dialed : conn'[d] = conn[d]
  BY <1>1 DEF Extends
<1>3. \A x \in Player : x # c => route'[x] = route[x]
  BY ExtendsHops
<1>4. \A x \in Player : \A i \in 1..Len(route[x]) : i \in 1..Len(route'[x]) /\ route'[x][i] = route[x][i]
  BY ExtendsHops
<1>5. \A x \in Player : \A i \in 1..Len(route'[x]) :
        \/ i \in 1..Len(route[x]) /\ route'[x][i] = route[x][i]
        \/ /\ x = c /\ Grew(c, h, n) /\ i = Len(route[c]) + 1 /\ i = Len(route'[c])
           /\ route'[c][i] = <<h[1], n>>
  BY ExtendsHops
<1>6. Grew(c, h, n) => \A d \in Player : \A i \in 1..Len(route[d]) : route[d][i] # <<h[1], n>>
  BY DEF Grew, FreshId
<1>7. RoutesApart'
  <2>1. ASSUME NEW x \in Player, NEW y \in Player, NEW i \in 1..Len(route'[x]), NEW j \in 1..Len(route'[y]),
               route'[x][i] = route'[y][j]
        PROVE  x = y /\ i = j
    <3>1. CASE i \in 1..Len(route[x]) /\ route'[x][i] = route[x][i]
      <4>1. CASE j \in 1..Len(route[y]) /\ route'[y][j] = route[y][j]
        <5>1. i \in 1..Len(route[x]) /\ j \in 1..Len(route[y]) /\ route[x][i] = route[y][j]
          BY <2>1, <3>1, <4>1
        <5>2. QED
          BY <5>1 DEF RoutesApart
      <4>2. CASE Grew(c, h, n) /\ y = c /\ route'[c][j] = <<h[1], n>>
        BY <1>6, <2>1, <3>1, <4>2
      <4>3. QED
        BY <1>5, <4>1, <4>2
    <3>2. CASE Grew(c, h, n) /\ x = c /\ route'[c][i] = <<h[1], n>> /\ i = Len(route[c]) + 1
      <4>1. CASE j \in 1..Len(route[y]) /\ route'[y][j] = route[y][j]
        BY <1>6, <2>1, <3>2, <4>1
      <4>2. CASE y = c /\ j = Len(route[c]) + 1
        BY <3>2, <4>2
      <4>3. QED
        BY <1>5, <4>1, <4>2
    <3>3. QED
      BY <1>5, <3>1, <3>2
  <2>2. QED
    BY <2>1 DEF RoutesApart
<1>8. \A d, s, m : DialedFor(d, s, m)' <=> DialedFor(d, s, m)
  BY <1>2 DEF DialedFor
<1>9. \A s, m : \A x \in Come(s, m) : x # c => x \in Come(s, m)' /\ conn'[x].game = conn[x].game
  BY <1>1, <1>3 DEF Come, Extends
<1>10. \A s, m : \A x \in Come(s, m)' : x # c => x \in Come(s, m)
  BY <1>3 DEF Come
<1>11. ASSUME Grew(c, h, n) PROVE Come(h[1], n) = {} /\ c \in Come(h[1], n)'
  <2>1. Come(h[1], n) = {}
    BY <1>6, <1>11, ComeHop DEF Hop
  <2>2. c \in Come(h[1], n)'
    BY <1>1, <1>11, ExtendsHops DEF Come
  <2>3. QED
    BY <2>1, <2>2
<1>12. ASSUME NEW d \in Dialed, conn[d].st # "free"
       PROVE  /\ "cid" \in DOMAIN conn[d] /\ DialEnds(d, conn[d].tx[1], conn[d].cid.id)
              /\ Come(conn[d].tx[1], conn[d].cid.id) # {} /\ c \notin Come(conn[d].tx[1], conn[d].cid.id)
  <2>1. "cid" \in DOMAIN conn[d] /\ DialEnds(d, conn[d].tx[1], conn[d].cid.id)
    BY <1>12 DEF DialsEnd
  <2>2. c \notin Come(conn[d].tx[1], conn[d].cid.id)
    BY <1>12 DEF Extends, Serves
  <2>3. QED
    BY <2>1, <2>2 DEF DialEnds
<1>13. Grew(c, h, n) => \A d \in Dialed : ~DialedFor(d, h[1], n)
  BY <1>11, <1>12 DEF DialedFor
<1>14. \A d, x : Serves(d, x)' <=> Serves(d, x)
  <2>1. ASSUME NEW d, NEW x, Serves(d, x) PROVE Serves(d, x)'
    <3>1. PICK s, m : s = conn[d].tx[1] /\ m = conn[d].cid.id
      OBVIOUS
    <3>2. d \in Dialed /\ conn[d].st # "free" /\ x \in Come(s, m) /\ x # c
      BY <1>12, <2>1, <3>1 DEF Serves
    <3>3. x \in Come(s, m)'
      BY <1>9, <3>2
    <3>4. QED
      BY <1>2, <3>1, <3>2, <3>3 DEF Serves
  <2>2. ASSUME NEW d, NEW x, Serves(d, x)' PROVE Serves(d, x)
    <3>1. PICK s, m : s = conn[d].tx[1] /\ m = conn[d].cid.id
      OBVIOUS
    <3>2. d \in Dialed /\ conn[d].st # "free" /\ x \in Come(s, m)'
      BY <1>2, <2>2, <3>1 DEF Serves
    <3>3. x # c
      <4>1. SUFFICES ASSUME x = c PROVE FALSE
        OBVIOUS
      <4>2. c \in Player /\ route'[c] # <<>> /\ route'[c][Len(route'[c])] = <<s, m>>
        BY <3>2, <4>1 DEF Come
      <4>3. CASE Grew(c, h, n)
        <5>1. <<s, m>> = <<h[1], n>>
          BY <4>2, <4>3, ExtendsHops
        <5>2. DialedFor(d, h[1], n)
          BY <3>1, <3>2, <5>1 DEF DialedFor
        <5>3. QED
          BY <1>13, <3>2, <4>3, <5>2
      <4>4. CASE route' = route
        <5>1. c \in Come(s, m)
          BY <4>2, <4>4 DEF Come
        <5>2. QED
          BY <1>12, <3>1, <3>2, <5>1
      <4>5. QED
        BY <4>3, <4>4 DEF Extends
    <3>4. x \in Come(s, m)
      BY <1>10, <3>2, <3>3
    <3>5. QED
      BY <3>1, <3>2, <3>4 DEF Serves
  <2>3. QED
    BY <2>1, <2>2
<1>15. DialsEnd'
  <2>1. ASSUME NEW d \in Dialed, conn'[d].st # "free"
        PROVE  ("cid" \in DOMAIN conn[d] /\ DialEnds(d, conn[d].tx[1], conn[d].cid.id))'
    <3>1. conn'[d] = conn[d] /\ conn[d].st # "free"
      BY <1>2, <2>1
    <3>2. PICK s, m : s = conn[d].tx[1] /\ m = conn[d].cid.id
      OBVIOUS
    <3>3. "cid" \in DOMAIN conn[d] /\ DialEnds(d, s, m) /\ c \notin Come(s, m)
      BY <1>12, <3>1, <3>2
    <3>4. PICK x \in Come(s, m) : conn[x].game = conn[d].game
      BY <3>3 DEF DialEnds
    <3>5. x \in Come(s, m)' /\ conn'[x].game = conn[x].game
      BY <1>9, <3>3, <3>4
    <3>6. DialEnds(d, s, m)'
      BY <1>8, <3>1, <3>3, <3>4, <3>5 DEF DialEnds
    <3>7. QED
      BY <3>1, <3>2, <3>3, <3>6
  <2>2. QED
    BY <2>1 DEF DialsEnd
<1>16. \A x \in Player : \A s, m : Hop(x, s, m) => Hop(x, s, m)'
  BY <1>4 DEF Hop
<1>17. \A x \in Player : \A s, m :
              Hop(x, s, m)' => Hop(x, s, m) \/ (x = c /\ Grew(c, h, n) /\ s = h[1] /\ m = n)
  BY <1>5 DEF Hop
<1>18. QED
  BY <1>7, <1>8, <1>9, <1>11, <1>13, <1>14, <1>15, <1>16, <1>17

\* What fits still does, but for the Connect of c itself.
LEMMA ExtendsFits ==
  ASSUME TypeOK, RoutesApart, PlayersStart, DialsEnd, NEW c, NEW h, NEW n, Extends(c, h, n),
         NEW g \in Handle, NEW m, Fits(g, m),
         m.type = "Connect" => c \notin Come(g[1], m.connection_id)
  PROVE  Fits(g, m)'
<1>1. ASSUME m.type = "Connect" PROVE ConnectFits(g, m)'
  <2>1. ConnectFits(g, m)
    BY <1>1 DEF Fits
  <2>2. PICK s, k : s = g[1] /\ k = m.connection_id
    OBVIOUS
  <2>3. PICK x \in Come(s, k) :
          m.game_id \in DOMAIN names[Peer(g)] /\ names[Peer(g)][m.game_id] = conn[x].game
    BY <2>1, <2>2 DEF ConnectFits
  <2>4. x \in Come(s, k)' /\ conn'[x].game = conn[x].game
    BY <1>1, <2>2, <2>3, ExtendsEnds
  <2>5. \A d \in Dialed : ~DialedFor(d, s, k)'
    BY <2>1, <2>2, ExtendsEnds DEF ConnectFits
  <2>6. names' = names
    BY DEF Extends
  <2>7. QED
    BY <2>1, <2>2, <2>3, <2>4, <2>5, <2>6 DEF ConnectFits
<1>2. DataFits(g, m) => DataFits(g, m)'
  <2>1. \A x \in Player : \A s, k : Hop(x, s, k) => Hop(x, s, k)'
    BY ExtendsEnds
  <2>2. \A d, x : Serves(d, x)' <=> Serves(d, x)
    BY ExtendsEnds
  <2>3. QED
    BY <2>1, <2>2 DEF DataFits
<1>3. QED
  BY <1>1, <1>2 DEF Fits

LEMMA ExtendsUnused ==
  ASSUME TypeOK, NEW c, NEW h, NEW n, Extends(c, h, n), NEW g \in Up, Unused(g), g # h
  PROVE  Unused(g)'
<1>1. Grew(c, h, n) => g[1] # h[1]
  BY OneEndUp DEF Grew
<1>2. ASSUME NEW x \in Player, NEW i \in 1..Len(route'[x]) PROVE route'[x][i][1] # g[1]
  <2>1. CASE i \in 1..Len(route[x]) /\ route'[x][i] = route[x][i]
    BY <2>1 DEF Unused
  <2>2. CASE x = c /\ Grew(c, h, n) /\ route'[c][i] = <<h[1], n>>
    BY <1>1, <2>2
  <2>3. QED
    BY <2>1, <2>2, ExtendsHops
<1>3. QED
  BY <1>2 DEF Unused

LEMMA ExtendsTables ==
  ASSUME TypeOK, RoutesApart, PlayersStart, DialsEnd, NEW c, NEW h, NEW n, Extends(c, h, n)
  PROVE  /\ \A g, cid, x : Holds(g, cid, x) /\ (Grew(c, h, n) /\ g = h => cid.id # n) => Holds(g, cid, x)'
         /\ \A g, cid, f, to : Joins(g, cid, f, to) => Joins(g, cid, f, to)'
         /\ \A s : \A g \in Up : Fresh(s, g) /\ (Grew(c, h, n) => g # h) => Fresh(s, g)'
<1>1. /\ \A d, s, m : DialedFor(d, s, m)' <=> DialedFor(d, s, m)
      /\ \A x \in Player : \A s, m : Hop(x, s, m) => Hop(x, s, m)'
      /\ \A x \in Player : \A s, m :
           Hop(x, s, m)' => Hop(x, s, m) \/ (x = c /\ Grew(c, h, n) /\ s = h[1] /\ m = n)
  BY ExtendsEnds
<1>2. \A g \in Up : Grew(c, h, n) /\ g[1] = h[1] => g = h
  BY OneEndUp DEF Grew
<1>3. ASSUME NEW g, NEW cid, NEW x, Holds(g, cid, x), Grew(c, h, n) /\ g = h => cid.id # n
      PROVE  Holds(g, cid, x)'
  BY <1>1, <1>2, <1>3 DEF Holds
<1>4. \A g, cid, f, to : Joins(g, cid, f, to) => Joins(g, cid, f, to)'
  BY <1>1 DEF Joins
<1>5. ASSUME NEW s, NEW g \in Up, Fresh(s, g), Grew(c, h, n) => g # h
      PROVE  Fresh(s, g)'
  <2>1. PICK b : b = s.next_connection_id[Peer(g)].id
    OBVIOUS
  <2>2. ASSUME NEW x \in Player, NEW i \in 1..Len(route'[x]), route'[x][i][1] = g[1]
        PROVE  route'[x][i][2] < b
    <3>1. CASE i \in 1..Len(route[x]) /\ route'[x][i] = route[x][i]
      BY <1>5, <2>1, <2>2, <3>1 DEF Fresh
    <3>2. CASE x = c /\ Grew(c, h, n) /\ route'[c][i] = <<h[1], n>>
      BY <1>2, <1>5, <2>2, <3>2
    <3>3. QED
      BY <3>1, <3>2, ExtendsHops
  <2>3. QED
    BY <1>5, <2>1, <2>2 DEF Fresh
<1>6. QED
  BY <1>3, <1>4, <1>5

\* A Connect that is sent with a new id.
LEMMA ConnectNew ==
  ASSUME Inv, RoutesInv, NEW h \in Up, NEW n, FreshId(h, n), NEW m, m.type = "Connect", m.connection_id = n
  PROVE  NewTo(h, m)
<1>1. TypeOK /\ QueuesFit /\ WiresFit /\ h \in Handle /\ Peer(h) \in Relay /\ Leads(h[2], Peer(h), h)
  BY Handles, OneWay DEF Inv, RoutesInv, Leads
<1>2. Come(h[1], n) = {}
  BY <1>1, ComeHop DEF Hop, FreshId
<1>3. ASSUME NEW f, Fits(h, f), Clash(f, m) PROVE FALSE
  BY <1>2, <1>3 DEF Fits, ConnectFits, Clash
<1>4. \A j \in 1..Len(wire[h]) : ~Clash(wire[h][j], m)
  BY <1>1, <1>3 DEF WiresFit
<1>5. ASSUME NEW j \in 1..Len(inbox[Peer(h)]), QueueClash(Recv(h[2], m), inbox[Peer(h)][j])
      PROVE  FALSE
  <2>1. PICK k : k = inbox[Peer(h)][j]
    OBVIOUS
  <2>2. k.msg = "Recv" /\ k.peer = h[2] /\ Clash(k.message, m)
    BY <1>5, <2>1, ClashBoth DEF QueueClash, Recv
  <2>3. Fits(h, k.message)
    BY <1>1, <2>1, <2>2 DEF QueuesFit, QueueFits
  <2>4. QED
    BY <1>3, <2>2, <2>3
<1>6. QED
  BY <1>4, <1>5 DEF NewTo

\* Nothing but the head of the queue of r opens the connection of c.
OnlyHead(c, r) ==
  /\ \A x \in Relay : \A j \in 1..Len(inbox[x]) :
       (x = r => j # 1 /\ ~QueueClash(inbox[x][j], Head(inbox[r]))) =>
         /\ inbox[x][j].msg = "AcceptGameConnection" => inbox[x][j].conn # c
         /\ inbox[x][j].msg = "Recv" /\ inbox[x][j].message.type = "Connect" =>
              \A g \in Handle :
                Leads(inbox[x][j].peer, x, g) => c \notin Come(g[1], inbox[x][j].message.connection_id)
  /\ \A g \in Handle : \A j \in 1..Len(wire[g]) :
       wire[g][j].type = "Connect" => c \notin Come(g[1], wire[g][j].connection_id)

\* A handler that sends the Connect of c on, or gives c up.
LEMMA MainExtends ==
  ASSUME Inv, RoutesInv, NEW r \in Relay, NEW e, Apply(r, e),
         inbox[r] # <<>>, inbox' = [inbox EXCEPT ![r] = Tail(@)], UNCHANGED <<ends, heard>>,
         NEW c, NEW h, NEW n, Extends(c, h, n),
         Grew(c, h, n) => h[2] = r /\ Peer(h) \in DOMAIN tables[r].peers,
         PlayersStart', TableFits(r, e.relay)',
         \A p \in DOMAIN e.relay.peers : p \in DOMAIN tables[r].peers,
         OnlyHead(c, r),
         \A o \in e.out : Fits(o.to, o.msg)' /\ NewTo(o.to, o.msg),
         e.deliver = {}
  PROVE  RoutesInv'
<1>1. /\ TypeOK /\ RoutesApart /\ PlayersStart /\ DialsEnd /\ QueuesFit /\ WiresFit /\ TablesFit /\ NewUnused
      /\ MailFits /\ HeardFits
  BY DEF Inv, RoutesInv
<1>2. /\ RoutesApart' /\ DialsEnd'
      /\ \A d, s, m : DialedFor(d, s, m)' <=> DialedFor(d, s, m)
      /\ \A d, x : Serves(d, x)' <=> Serves(d, x)
  BY <1>1, ExtendsEnds
<1>3. tables'[r] = e.relay /\ \A x \in Relay : x # r => tables'[x] = tables[x]
  BY <1>1, Applied
<1>4. \A x \in Relay : \A p : p \notin DOMAIN tables[x].peers => p \notin DOMAIN tables'[x].peers
  BY <1>3
<1>5. c \in Player /\ names' = names /\ \A d \in Player : d # c => conn'[d] = conn[d]
  BY DEF Extends, Conn
<1>6. ASSUME NEW x \in Relay, NEW j, NEW m, j \in 1..Len(inbox[x]), m = inbox[x][j],
             x = r => j # 1 /\ ~QueueClash(m, Head(inbox[r]))
      PROVE  QueueFits(x, m)'
  <2>1. QueueFits(x, m)
    BY <1>1, <1>6 DEF QueuesFit
  <2>2. ASSUME m.msg = "Recv" PROVE \A g \in Handle : Leads(m.peer, x, g) => Fits(g, m.message)'
    <3>1. ASSUME NEW g \in Handle, Leads(m.peer, x, g) PROVE Fits(g, m.message)'
      <4>1. PICK f : f = m.message
        OBVIOUS
      <4>2. Fits(g, f) /\ (f.type = "Connect" => c \notin Come(g[1], f.connection_id))
        BY <1>6, <2>1, <2>2, <3>1, <4>1 DEF QueueFits, OnlyHead
      <4>3. Fits(g, f)'
        BY <1>1, <4>2, ExtendsFits
      <4>4. QED
        BY <4>1, <4>3
    <3>2. QED
      BY <3>1
  <2>3. ASSUME m.msg = "AddPeer"
        PROVE  m.peer \notin DOMAIN tables'[x].peers /\ (m.handle \in Up => Unused(m.handle)')
    <3>1. m.peer \notin DOMAIN tables[x].peers /\ (m.handle \in Up => Unused(m.handle))
      BY <2>1, <2>3 DEF QueueFits
    <3>2. Leads(x, m.peer, m.handle)
      <4>1. inbox[x] \in Seq({k \in Message : Sound(x, k)})
        BY DEF Inv, QueuesSound
      <4>2. Sound(x, m)
        BY <1>6, <4>1
      <4>3. QED
        BY <2>3, <4>2 DEF Sound
    <3>3. PICK g : g = m.handle
      OBVIOUS
    <3>4. Grew(c, h, n) => g # h
      BY <3>1, <3>2, <3>3 DEF Leads
    <3>5. g \in Up => Unused(g)'
      <4>1. CASE Grew(c, h, n)
        BY <1>1, <3>1, <3>3, <3>4, <4>1, ExtendsUnused
      <4>2. CASE route' = route
        BY <3>1, <3>3, <4>2 DEF Unused
      <4>3. QED
        BY <4>1, <4>2 DEF Extends
    <3>6. QED
      BY <1>4, <3>1, <3>3, <3>5
  <2>4. ASSUME m.msg = "AcceptGameConnection"
        PROVE  /\ m.conn \in Player /\ conn'[m.conn].st = "queued" /\ conn'[m.conn].relay = x
               /\ m.game \in DOMAIN names'[x] /\ names'[x][m.game] = conn'[m.conn].game
    BY <1>5, <1>6, <2>1, <2>4 DEF QueueFits, OnlyHead
  <2>5. m.msg = "AddGameConnection" =>
          \A g \in Handle : Leads(x, m.peer, g) => g \notin Up /\ DialedFor(m.conn, g[1], m.cid.id)'
    BY <1>2, <2>1 DEF QueueFits
  <2>6. m.msg = "AddLocalGame" => m.from.ip = x
    BY <2>1 DEF QueueFits
  <2>7. QED
    BY <2>2, <2>3, <2>4, <2>5, <2>6 DEF QueueFits
<1>7. ASSUME NEW g \in Handle, NEW j, NEW m, j \in 1..Len(wire[g]), m = wire[g][j]
      PROVE  Fits(g, m)'
  BY <1>1, <1>7, ExtendsFits DEF WiresFit, OnlyHead
<1>8. QueuesFit' /\ WiresFit' /\ QueuesApart' /\ WiresApart' /\ WiresFromQueues'
  BY <1>1, <1>6, <1>7, MainFlight
<1>9. TablesFit'
  <2>1. ASSUME NEW x \in Relay, x # r PROVE TableFits(x, tables[x])'
    <3>1. PICK s : s = tables[x]
      OBVIOUS
    <3>2. tables'[x] = s /\ TableFits(x, s)
      BY <1>1, <1>3, <2>1, <3>1 DEF TablesFit
    <3>3. \A g : Grew(c, h, n) /\ g[2] = x => g # h
      BY <2>1
    <3>4. /\ \A g, cid, y : Holds(g, cid, y) /\ (Grew(c, h, n) /\ g = h => cid.id # n) => Holds(g, cid, y)'
          /\ \A g, cid, f, to : Joins(g, cid, f, to) => Joins(g, cid, f, to)'
          /\ \A g \in Up : Fresh(s, g) /\ (Grew(c, h, n) => g # h) => Fresh(s, g)'
      BY <1>1, ExtendsTables
    <3>5. TableFits(x, s)'
      BY <3>2, <3>3, <3>4 DEF TableFits, Leads
    <3>6. QED
      BY <3>2, <3>5
  <2>2. TableFits(r, tables[r])'
    BY <1>3
  <2>3. QED
    BY <2>1, <2>2 DEF TablesFit
<1>10. NewUnused'
  <2>1. ASSUME NEW g \in Handle, ends[g] = "new"
        PROVE  /\ Peer(g) \notin DOMAIN tables'[g[2]].peers
               /\ g \in Up => Unused(g)'
               /\ \A i \in 1..Len(inbox'[g[2]]) : inbox'[g[2]][i].msg = "AddPeer" => inbox'[g[2]][i].handle # g
    <3>1. g[2] \in Relay
      BY Handles
    <3>2. /\ Peer(g) \notin DOMAIN tables[g[2]].peers /\ (g \in Up => Unused(g))
          /\ \A i \in 1..Len(inbox[g[2]]) : inbox[g[2]][i].msg = "AddPeer" => inbox[g[2]][i].handle # g
      BY <1>1, <2>1 DEF NewUnused
    <3>3. g \in Up => Unused(g)'
      <4>1. CASE Grew(c, h, n)
        BY <1>1, <3>2, <4>1, ExtendsUnused
      <4>2. CASE route' = route
        BY <3>2, <4>2 DEF Unused
      <4>3. QED
        BY <4>1, <4>2 DEF Extends
    <3>4. \A i \in 1..Len(inbox'[g[2]]) : \E j \in 1..Len(inbox[g[2]]) : inbox'[g[2]][i] = inbox[g[2]][j]
      BY <1>1, <3>1, QueuesTaken DEF RoutesInv
    <3>5. QED
      BY <1>4, <3>1, <3>2, <3>3, <3>4
  <2>2. QED
    BY <2>1 DEF NewUnused
<1>11. \A x, y : Paired(x, y)' <=> Paired(x, y)
  BY <1>2 DEF Paired
<1>12. MailFits'
  BY <1>1, <1>11, MainMail
<1>13. HeardFits'
  BY <1>1, <1>11 DEF HeardFits
<1>14. QED
  BY <1>2, <1>8, <1>9, <1>10, <1>12, <1>13 DEF RoutesInv

LEMMA NotGrown ==
  ASSUME TypeOK, NEW c \in Player, NEW h, NEW n, route' = route
  PROVE  ~Grew(c, h, n)
<1>1. SUFFICES ASSUME Grew(c, h, n) PROVE FALSE
  OBVIOUS
<1>2. PICK q \in Seq(Session \X Nat) : q = route[c]
  BY DEF TypeOK
<1>3. route'[c] = Append(q, <<h[1], n>>)
  BY <1>1, <1>2 DEF Grew, SentTo, TypeOK
<1>4. Len(Append(q, <<h[1], n>>)) = Len(q) + 1 /\ Len(q) \in Nat
  BY AppendAt
<1>5. QED
  BY <1>2, <1>3, <1>4

\* The next id for a connection upwards is new.
LEMMA NextFresh ==
  ASSUME Inv, RoutesInv, NEW r \in Relay, NEW s, s = tables[r], NEW p \in DOMAIN s.peers,
         NEW h \in Up, Leads(r, p, h), NEW n, n = s.next_connection_id[p].id
  PROVE  /\ n \in Nat /\ FreshId(h, n) /\ Fresh(s, h)
         /\ \A k \in DOMAIN s.local_connections : k[1] = p => k[2].id # n
<1>1. TablesInv(s) /\ TableFits(r, s)
  BY DEF Inv, TypeOK, RoutesInv, TablesFit
<1>2. n \in Nat
  BY <1>1, TablesHold DEF ConnectionId
<1>3. Fresh(s, h) /\ Peer(h) = p
  BY <1>1 DEF TableFits, Leads
<1>4. FreshId(h, n)
  BY <1>2, <1>3 DEF Fresh, FreshId
<1>5. QED
  BY <1>2, <1>3, <1>4 DEF Fresh

\* After it was given out the one after it is.
LEMMA AfterFresh ==
  ASSUME TypeOK, NEW c, NEW h \in Up, NEW n \in Nat, Extends(c, h, n), NEW s, TablesInv(s), Fresh(s, h),
         NEW t, n = s.next_connection_id[Peer(h)].id, t.next_connection_id[Peer(h)].id = n + 1,
         \A k \in DOMAIN t.local_connections :
           k[1] = Peer(h) => k \in DOMAIN s.local_connections \/ k[2].id = n
  PROVE  Fresh(t, h)'
<1>1. ASSUME NEW x \in Player, NEW i \in 1..Len(route'[x]), route'[x][i][1] = h[1]
      PROVE  route'[x][i][2] < n + 1
  <2>1. CASE i \in 1..Len(route[x]) /\ route'[x][i] = route[x][i]
    <3>1. PICK q \in Seq(Session \X Nat) : q = route[x]
      BY DEF TypeOK
    <3>2. q[i][2] \in Nat
      BY <2>1, <3>1
    <3>3. q[i][2] < n
      BY <1>1, <2>1, <3>1 DEF Fresh
    <3>4. QED
      BY <2>1, <3>1, <3>2, <3>3
  <2>2. CASE route'[x][i] = <<h[1], n>>
    BY <2>2
  <2>3. QED
    BY <2>1, <2>2, ExtendsHops
<1>2. ASSUME NEW k \in DOMAIN t.local_connections, k[1] = Peer(h) PROVE k[2].id < n + 1
  <2>1. CASE k \in DOMAIN s.local_connections
    <3>1. k[2].id \in Nat
      BY <2>1 DEF TablesInv, RelayType, IsMap, PeerKey, ConnectionId
    <3>2. k[2].id < n
      BY <1>2, <2>1 DEF Fresh
    <3>3. QED
      BY <3>1, <3>2
  <2>2. CASE k[2].id = n
    BY <2>2
  <2>3. QED
    BY <1>2, <2>1, <2>2
<1>3. QED
  BY <1>1, <1>2 DEF Fresh

\* The Connect that is sent names the game by what the peer calls it.
LEMMA ConnectSent ==
  ASSUME Inv, RoutesInv, NEW c, NEW h, NEW n, Extends(c, h, n), Grew(c, h, n),
         NEW l, l \in DOMAIN names[Peer(h)], names[Peer(h)][l] = conn[c].game, NEW hops
  PROVE  Fits(h, RelayConnect(l, n, hops))' /\ NewTo(h, RelayConnect(l, n, hops))
<1>1. PICK m : m = RelayConnect(l, n, hops)
  OBVIOUS
<1>2. m.type = "Connect" /\ m.connection_id = n /\ m.game_id = l
  BY <1>1 DEF RelayConnect
<1>3. TypeOK /\ RoutesApart /\ PlayersStart /\ DialsEnd /\ h \in Up /\ FreshId(h, n)
  BY DEF Inv, RoutesInv, Grew
<1>4. /\ c \in Come(h[1], n)' /\ \A d \in Dialed : ~DialedFor(d, h[1], n)
      /\ \A d, x, y : DialedFor(d, x, y)' <=> DialedFor(d, x, y)
  BY <1>3, ExtendsEnds
<1>5. names' = names /\ conn'[c].game = conn[c].game
  BY DEF Extends
<1>6. ConnectFits(h, m)'
  BY <1>2, <1>3, <1>4, <1>5 DEF ConnectFits
<1>7. NewTo(h, m)
  BY <1>2, <1>3, ConnectNew
<1>8. QED
  BY <1>1, <1>2, <1>6, <1>7 DEF Fits

\* The tables after a player's connection was given an id.
LEMMA AcceptFits ==
  ASSUME Inv, RoutesInv, NEW r \in Relay, NEW s, s = tables[r], NEW p \in DOMAIN s.peers,
         NEW h \in Up, Leads(r, p, h), NEW cid, cid = s.next_connection_id[p],
         NEW c, Extends(c, h, cid.id),
         NEW t, t = [s EXCEPT !.next_connection_id = Insert(@, p, After(cid)),
                              !.local_connections = Insert(@, <<p, cid>>, c)]
  PROVE  TableFits(r, t)'
<1>1. PICK n, key : n = cid.id /\ key = <<p, cid>>
  OBVIOUS
<1>2. TypeOK /\ TablesInv(s) /\ TableFits(r, s) /\ RoutesApart /\ PlayersStart /\ DialsEnd
  BY DEF Inv, TypeOK, RoutesInv, TablesFit
<1>3. /\ t.games = s.games /\ t.peers = s.peers /\ t.relayed_connections = s.relayed_connections
      /\ t.next_connection_id = Insert(s.next_connection_id, p, After(cid))
      /\ t.local_connections = Insert(s.local_connections, key, c)
  BY <1>1, <1>2 DEF TablesInv, RelayType, RelayFields
<1>4. cid \in ConnectionId /\ Peer(h) = p /\ Extends(c, h, n) /\ c \in Player
  BY <1>1, <1>2, TablesHold DEF Leads, Extends
<1>5. t.next_connection_id[p].id = n + 1
  BY <1>1, <1>3, <1>4 DEF Insert, After, ConnectionId
<1>6. /\ n \in Nat /\ FreshId(h, n) /\ Fresh(s, h)
      /\ \A k \in DOMAIN s.local_connections : k[1] = p => k[2].id # n
  BY <1>1, NextFresh
<1>7. /\ \A g, cd, x : Holds(g, cd, x) /\ (Grew(c, h, n) /\ g = h => cd.id # n) => Holds(g, cd, x)'
      /\ \A g, cd, f, to : Joins(g, cd, f, to) => Joins(g, cd, f, to)'
  BY <1>2, <1>4, ExtendsTables
<1>8. ASSUME NEW k \in DOMAIN t.local_connections, NEW g \in Handle, Leads(r, k[1], g)
      PROVE  Holds(g, k[2], t.local_connections[k])'
  <2>1. CASE k = key
    <3>1. t.local_connections[k] = c /\ k[1] = p /\ k[2] = cid
      BY <1>1, <1>3, <2>1 DEF Insert
    <3>2. g = h
      BY <1>8, <3>1, LeadsBack
    <3>3. \A x \in Player : Hop(x, h[1], n)' => Hop(x, h[1], n) \/ x = c
      BY <1>2, <1>4, ExtendsEnds
    <3>4. \A x \in Player : ~Hop(x, h[1], n)
      BY <1>6 DEF FreshId, Hop
    <3>5. Holds(h, cid, c)'
      BY <1>1, <1>4, <3>3, <3>4 DEF Holds
    <3>6. QED
      BY <3>1, <3>2, <3>5
  <2>2. CASE k # key
    <3>1. k \in DOMAIN s.local_connections /\ t.local_connections[k] = s.local_connections[k]
      BY <1>3, <1>8, <2>2 DEF Insert
    <3>2. Holds(g, k[2], s.local_connections[k])
      BY <1>2, <1>8, <3>1 DEF TableFits
    <3>3. g = h => k[2].id # n
      BY <1>4, <1>6, <1>8, <3>1 DEF Leads
    <3>4. PICK cd, x : cd = k[2] /\ x = s.local_connections[k]
      OBVIOUS
    <3>5. Holds(g, cd, x)'
      BY <1>7, <3>2, <3>3, <3>4
    <3>6. QED
      BY <3>1, <3>4, <3>5
  <2>3. QED
    BY <2>1, <2>2
<1>9. ASSUME NEW g \in Up, g[2] = r PROVE Fresh(t, g)'
  <2>1. g = h
    BY <1>9, OneWay DEF Leads
  <2>2. \A k \in DOMAIN t.local_connections : k[1] = p => k \in DOMAIN s.local_connections \/ k[2].id = n
    BY <1>1, <1>3 DEF Insert
  <2>3. /\ n = s.next_connection_id[Peer(h)].id /\ t.next_connection_id[Peer(h)].id = n + 1
        /\ \A k \in DOMAIN t.local_connections :
             k[1] = Peer(h) => k \in DOMAIN s.local_connections \/ k[2].id = n
        /\ h \in Up
    BY <1>1, <1>4, <1>5, <2>2
  <2>4. Fresh(t, h)'
    BY ONLY <1>2, <1>4, <1>6, <2>3, AfterFresh
  <2>5. QED
    BY <2>1, <2>4
<1>10. \A k \in DOMAIN t.relayed_connections : \A g, f \in Handle :
         Leads(r, k[1], g) /\ Leads(r, t.relayed_connections[k][1], f) =>
           Joins(g, k[2], f, t.relayed_connections[k][2])'
  BY <1>2, <1>3, <1>7 DEF TableFits
<1>11. \A l \in DOMAIN t.games : \A g \in Handle :
         t.games[l].kind = "remote" /\ Leads(r, t.games[l].peer_id, g) => g \in Up
  BY <1>2, <1>3 DEF TableFits
<1>12. QED
  BY <1>8, <1>9, <1>10, <1>11 DEF TableFits

\* The tables when no connection was opened.
LEMMA SameFits ==
  ASSUME TypeOK, RoutesApart, PlayersStart, DialsEnd, NEW r, NEW s, TableFits(r, s),
         NEW c, NEW h, NEW n, Extends(c, h, n), route' = route
  PROVE  TableFits(r, s)'
<1>1. ~Grew(c, h, n)
  BY NotGrown DEF Extends
<1>2. /\ \A g, cd, x : Holds(g, cd, x) => Holds(g, cd, x)'
      /\ \A g, cd, f, to : Joins(g, cd, f, to) => Joins(g, cd, f, to)'
      /\ \A g \in Up : Fresh(s, g) => Fresh(s, g)'
  BY <1>1, ExtendsTables
<1>3. QED
  BY <1>2 DEF TableFits

\* What Goes does to the way of one player.
LEMMA GoesOn ==
  ASSUME TypeOK, NEW c \in Player, NEW C, \A x \in Player : x \in C <=> x = c, NEW e, Goes(C, e)
  PROVE  /\ e.out = {} => route' = route
         /\ \A h, m : e.out = {[to |-> h, msg |-> m]} => SentTo(c, h, m.connection_id)
<1>1. route = [x \in Player |-> route[x]]
  BY DEF TypeOK
<1>2. ASSUME e.out = {} PROVE route' = route
  BY <1>1, <1>2 DEF Goes
<1>3. ASSUME NEW h, NEW m, e.out = {[to |-> h, msg |-> m]}
      PROVE  SentTo(c, h, m.connection_id)
  <2>1. PICK o : o = (CHOOSE x \in e.out : TRUE)
    OBVIOUS
  <2>2. o \in e.out /\ e.out # {}
    BY <1>3, <2>1
  <2>3. o.to = h /\ o.msg = m
    BY <1>3, <2>2
  <2>4. route' = [x \in Player |->
                    IF x \in C THEN Append(route[x], <<h[1], m.connection_id>>) ELSE route[x]]
    BY <2>1, <2>2, <2>3 DEF Goes
  <2>5. QED
    BY <1>1, <2>4 DEF SentTo
<1>4. QED
  BY <1>2, <1>3

\* A player that waits to be accepted is accepted, or sent away.
LEMMA RunAcceptGameConnectionRoutes ==
  ASSUME Inv, RoutesInv, NEW r \in Relay, RunAcceptGameConnection(r)
  PROVE  RoutesInv'
<1>1. PICK m, c, l, s, live : /\ m = Head(inbox[r]) /\ c = m.conn /\ l = m.game /\ s = tables[r]
                              /\ live = Live
  OBVIOUS
<1>2. PICK e : e = accept_game_connection(s, live, l, c)
  OBVIOUS
<1>3. PICK old : old = conn[c]
  OBVIOUS
<1>4. /\ UNCHANGED <<ends, heard, names>> /\ TypeOK /\ TablesInv(s) /\ TableFits(r, s)
      /\ RoutesApart /\ PlayersStart /\ DialsEnd
      /\ Take(r, "AcceptGameConnection") /\ Apply(r, e) /\ Goes({c}, e)
  BY <1>1, <1>2 DEF RunAcceptGameConnection, Inv, TypeOK, RoutesInv, TablesFit
<1>5. inbox[r] # <<>> /\ inbox' = [inbox EXCEPT ![r] = Tail(@)] /\ m.msg = "AcceptGameConnection"
  BY <1>1, <1>4, Taken
<1>6. /\ c \in Player /\ old.st = "queued" /\ old.relay = r
      /\ l \in DOMAIN names[r] /\ names[r][l] = old.game
  BY <1>1, <1>3, <1>5, HeadFits DEF QueueFits
<1>7. c \in Conn /\ old \in Thread /\ old \in [st : {"queued"}, relay : Relay, game : LanGame]
  <2>1. c \in Conn
    BY <1>6 DEF Conn
  <2>2. old \in Thread
    BY <1>3, <1>4, <2>1 DEF TypeOK
  <2>3. QED
    BY <1>6, <2>1, <2>2 DEF Thread
<1>8. route[c] = <<>> /\ \A x, y : c \notin Come(x, y)
  BY <1>3, <1>4, <1>6 DEF PlayersStart, Come
<1>9. \A d \in Dialed : ~Serves(d, c)
  BY <1>8 DEF Serves
<1>10. conn' = [conn EXCEPT ![c] =
             IF e.spawn = {} THEN [old EXCEPT !.st = "closed"]
             ELSE LET y == CHOOSE y \in e.spawn : TRUE
                  IN [st |-> "waiting", relay |-> r, game |-> old.game, cid |-> y.cid, tx |-> y.peer_tx]]
  BY <1>1, <1>2, <1>3, <1>4, <1>7 DEF RunAcceptGameConnection, FirstState, TypeOK
<1>11. \A x \in Conn : x # c => conn'[x] = conn[x]
  BY <1>4, <1>10 DEF TypeOK
<1>12. ASSUME NEW x \in Relay, NEW j, NEW k, j \in 1..Len(inbox[x]), k = inbox[x][j],
              x = r => j # 1 /\ ~QueueClash(k, Head(inbox[r]))
       PROVE  /\ k.msg = "AcceptGameConnection" => k.conn # c
              /\ k.msg = "Recv" /\ k.message.type = "Connect" =>
                   \A g \in Handle : Leads(k.peer, x, g) => c \notin Come(g[1], k.message.connection_id)
  <2>1. QueueFits(x, k)
    BY <1>12 DEF RoutesInv, QueuesFit
  <2>2. ASSUME k.msg = "AcceptGameConnection", k.conn = c PROVE FALSE
    <3>1. x = r
      BY <1>3, <1>6, <2>1, <2>2 DEF QueueFits
    <3>2. QueueClash(k, m)
      BY <1>1, <1>5, <2>2 DEF QueueClash
    <3>3. QED
      BY <1>1, <1>12, <3>1, <3>2
  <2>3. QED
    BY <1>8, <2>2
<1>13. OnlyHead(c, r)
  BY <1>8, <1>12 DEF OnlyHead
<1>14. /\ FewerPeers(s, e.relay) /\ \A x \in Player : x \in {c} <=> x = c
  BY <1>2, <1>4, <1>7, AcceptQuiet
<1>15. \A p \in DOMAIN e.relay.peers : p \in DOMAIN tables[r].peers
  BY <1>1, <1>14 DEF FewerPeers
\* c is sent away, and its way ends before it began.
<1>16. ASSUME e.spawn = {}, e.out = {}
       PROVE  /\ \A h, n : Extends(c, h, n)
              /\ PlayersStart' /\ route' = route
  <2>1. route' = route
    BY <1>4, <1>6, <1>14, <1>16, GoesOn
  <2>2. conn'[c] = [old EXCEPT !.st = "closed"]
    BY <1>4, <1>7, <1>10, <1>16 DEF TypeOK
  <2>3. conn'[c].st = "closed" /\ conn'[c].game = conn[c].game /\ "cid" \notin DOMAIN conn'[c]
    BY <1>3, <1>7, <2>2
  <2>4. \A h, n : Extends(c, h, n)
    BY <1>4, <1>6, <1>9, <1>11, <2>1, <2>3 DEF Extends
  <2>5. PlayersStart'
    <3>1. ASSUME NEW x \in Player
          PROVE  /\ conn'[x].st \in {"free", "queued"} => route'[x] = <<>>
                 /\ "cid" \in DOMAIN conn'[x] => conn'[x].tx \in Up /\ Hop(x, conn[x].tx[1], conn[x].cid.id)'
      <4>1. CASE x = c
        BY <1>8, <2>1, <2>3, <4>1
      <4>2. CASE x # c
        <5>1. conn'[x] = conn[x]
          BY <1>11, <4>2 DEF Conn
        <5>2. QED
          BY <1>4, <2>1, <5>1 DEF PlayersStart, Hop
      <4>3. QED
        BY <4>1, <4>2
    <3>2. QED
      BY <3>1 DEF PlayersStart
  <2>6. QED
    BY <2>1, <2>4, <2>5
<1>17. CASE ~ (l \in DOMAIN s.games /\ s.games[l].kind = "remote" /\ s.games[l].peer_id \in DOMAIN s.peers)
  <2>1. e.relay = s /\ e.out = {} /\ e.deliver = {} /\ e.spawn = {}
    BY <1>2, <1>17 DEF accept_game_connection, Effect
  <2>2. PICK h, n : h = c /\ n = c
    OBVIOUS
  <2>3. Extends(c, h, n) /\ PlayersStart' /\ route' = route
    BY <1>16, <2>1
  <2>4. ~Grew(c, h, n)
    BY <1>4, <1>6, <2>3, NotGrown
  <2>5. TableFits(r, s)'
    BY <1>4, <2>3, SameFits
  <2>6. PICK t : t = e.relay
    OBVIOUS
  <2>7. TableFits(r, t)'
    BY <2>1, <2>5, <2>6
  <2>8. QED
    BY <1>4, <1>5, <1>13, <1>15, <2>1, <2>3, <2>4, <2>6, <2>7, MainExtends
<1>18. CASE l \in DOMAIN s.games /\ s.games[l].kind = "remote" /\ s.games[l].peer_id \in DOMAIN s.peers
  <2>1. PICK p, cid, h, n : /\ p = s.games[l].peer_id /\ cid = s.next_connection_id[p] /\ h = s.peers[p]
                            /\ n = cid.id
    OBVIOUS
  <2>2. p \in DOMAIN s.peers /\ Leads(r, p, h) /\ Peer(h) = p /\ h[2] = r /\ h \in Handle
    BY <1>1, <1>18, <2>1, PeersLead DEF Leads
  <2>3. h \in Up
    BY <1>4, <1>18, <2>1, <2>2 DEF TableFits
  <2>4. n \in Nat /\ FreshId(h, n)
    BY <1>1, <2>1, <2>2, <2>3, NextFresh
  <2>5. PICK t : t = [s EXCEPT !.next_connection_id = Insert(@, p, After(cid)),
                               !.local_connections = Insert(@, <<p, cid>>, c)]
    OBVIOUS
  <2>6. ASSUME Extends(c, h, n) PROVE TableFits(r, t)'
    <3>1. /\ Inv /\ RoutesInv /\ r \in Relay /\ s = tables[r] /\ p \in DOMAIN s.peers /\ h \in Up
          /\ Leads(r, p, h) /\ cid = s.next_connection_id[p] /\ Extends(c, h, cid.id)
      BY <1>1, <2>1, <2>2, <2>3, <2>6
    <3>2. QED
      BY ONLY <2>5, <3>1, AcceptFits
  <2>7. CASE h \notin live
    <3>1. e.relay = t /\ e.out = {} /\ e.deliver = {} /\ e.spawn = {}
      BY <1>2, <1>18, <2>1, <2>5, <2>7 DEF accept_game_connection, NewConnectionId, Effect
    <3>2. Extends(c, h, n) /\ PlayersStart' /\ route' = route
      BY <1>16, <3>1
    <3>3. TableFits(r, t)'
      BY <2>6, <3>2
    <3>4. TableFits(r, e.relay)'
      BY <3>1, <3>3
    <3>5. QED
      BY <1>1, <1>4, <1>5, <1>13, <1>15, <2>2, <3>1, <3>2, <3>4, MainExtends
  <2>8. CASE h \in live
    <3>1. PICK rid, msg : rid = s.games[l].remote_game_id /\ msg = RelayConnect(rid, n, 0)
      OBVIOUS
    <3>2. /\ e.relay = t /\ e.out = {[to |-> h, msg |-> msg]} /\ e.deliver = {}
          /\ e.spawn = {[kind |-> "accepted", conn |-> c, cid |-> cid, peer_tx |-> h]}
      BY <1>2, <1>18, <2>1, <2>5, <2>8, <3>1 DEF accept_game_connection, NewConnectionId, RemoteId, Effect
    <3>3. conn'[c] = [st |-> "waiting", relay |-> r, game |-> old.game, cid |-> cid, tx |-> h]
      <4>1. PICK y : y = (CHOOSE z \in e.spawn : TRUE)
        OBVIOUS
      <4>2. y.cid = cid /\ y.peer_tx = h /\ e.spawn # {}
        <5>1. y \in e.spawn /\ e.spawn # {}
          BY <3>2, <4>1
        <5>2. y = [kind |-> "accepted", conn |-> c, cid |-> cid, peer_tx |-> h]
          BY <3>2, <5>1
        <5>3. QED
          BY <5>1, <5>2
      <4>3. conn'[c] = [st |-> "waiting", relay |-> r, game |-> old.game, cid |-> y.cid, tx |-> y.peer_tx]
        BY <1>4, <1>7, <1>10, <4>1, <4>2 DEF TypeOK
      <4>4. QED
        BY <4>2, <4>3
    <3>4. conn'[c].game = conn[c].game /\ conn'[c].st = "waiting" /\ conn'[c].tx = h /\ conn'[c].cid.id = n
      BY <1>3, <2>1, <3>3
    <3>5. msg.connection_id = n
      BY <3>1 DEF RelayConnect
    <3>6. Grew(c, h, n)
      <4>1. SentTo(c, h, msg.connection_id)
        <5>1. PICK C : C = {c}
          OBVIOUS
        <5>2. TypeOK /\ c \in Player /\ (\A x \in Player : x \in C <=> x = c) /\ Goes(C, e)
          BY <1>4, <1>6, <1>14, <5>1
        <5>3. \A g, k : e.out = {[to |-> g, msg |-> k]} => SentTo(c, g, k.connection_id)
          BY ONLY <5>2, GoesOn
        <5>4. QED
          BY <3>2, <5>3
      <4>2. QED
        BY <2>3, <2>4, <3>5, <4>1 DEF Grew
    <3>7. Extends(c, h, n)
      BY <1>4, <1>6, <1>9, <1>11, <3>4, <3>6 DEF Extends
    <3>8. TableFits(r, t)'
      BY <2>6, <3>7
    <3>9. TableFits(r, e.relay)'
      BY <3>2, <3>8
    <3>10. PlayersStart'
      <4>1. ASSUME NEW x \in Player
            PROVE  /\ conn'[x].st \in {"free", "queued"} => route'[x] = <<>>
                   /\ "cid" \in DOMAIN conn'[x] => conn'[x].tx \in Up /\ Hop(x, conn[x].tx[1], conn[x].cid.id)'
        <5>1. CASE x = c
          <6>1. route'[c][Len(route'[c])] = <<h[1], n>> /\ Len(route'[c]) \in 1..Len(route'[c])
            BY <1>4, <3>6, <3>7, ExtendsHops
          <6>2. Hop(c, h[1], n)'
            BY <6>1 DEF Hop
          <6>3. QED
            BY <2>3, <3>4, <5>1, <6>2
        <5>2. CASE x # c
          <6>1. conn'[x] = conn[x] /\ route'[x] = route[x]
            BY <1>4, <1>11, <3>7, <5>2, ExtendsHops DEF Conn
          <6>2. QED
            BY <1>4, <6>1 DEF PlayersStart, Hop
        <5>3. QED
          BY <5>1, <5>2
      <4>2. QED
        BY <4>1 DEF PlayersStart
    <3>11. rid \in DOMAIN names[Peer(h)] /\ names[Peer(h)][rid] = conn[c].game
      <4>1. GameAgrees(r, l, s.games[l])
        BY <1>1, <1>18, AgreeIs DEF Inv
      <4>2. rid \in DOMAIN names[p] /\ names[r][l] = names[p][rid]
        BY <1>18, <2>1, <3>1, <4>1 DEF GameAgrees
      <4>3. QED
        BY <1>3, <1>6, <2>2, <4>2
    <3>12. Fits(h, msg)' /\ NewTo(h, msg)
      BY <3>1, <3>6, <3>7, <3>11, ConnectSent
    <3>13. \A o \in e.out : Fits(o.to, o.msg)' /\ NewTo(o.to, o.msg)
      BY <3>2, <3>12
    <3>14. QED
      BY <1>1, <1>4, <1>5, <1>13, <1>15, <2>2, <3>2, <3>7, <3>9, <3>10, <3>13, MainExtends
  <2>9. QED
    BY <2>7, <2>8
<1>19. QED
  BY <1>17, <1>18

-----------------------------------------------------------------------------
(* A Connect that arrives. *)

LEMMA GoesNowhere ==
  ASSUME TypeOK, NEW C, NEW e, Goes(C, e), e.out = {}
  PROVE  route' = route
<1>1. route = [x \in Player |-> route[x]]
  BY DEF TypeOK
<1>2. QED
  BY <1>1 DEF Goes

\* It is where its player's way ends, and there is no other one for it.
LEMMA HeadConnect ==
  ASSUME Inv, RoutesInv, NEW r \in Relay, inbox[r] # <<>>, Head(inbox[r]).msg = "Recv",
         NEW p, p = Head(inbox[r]).peer, NEW m, m = Head(inbox[r]).message, m.type = "Connect",
         NEW k, Leads(r, p, k)
  PROVE  /\ k \notin Up /\ \A d \in Dialed : ~DialedFor(d, k[1], m.connection_id)
         /\ \E c \in Come(k[1], m.connection_id) :
              /\ OnlyHead(c, r)
              /\ m.game_id \in DOMAIN names[r] /\ names[r][m.game_id] = conn[c].game
<1>1. PICK f, n : f = Other(k) /\ n = m.connection_id
  OBVIOUS
<1>2. TypeOK /\ RoutesApart /\ PlayersStart /\ QueuesFit /\ WiresFit /\ QueuesApart /\ WiresFromQueues
  BY DEF Inv, RoutesInv
<1>3. /\ f \in Handle /\ f[1] = k[1] /\ f[2] = p /\ Peer(f) = r /\ Leads(p, r, f)
      /\ k \in Up <=> f \notin Up
  BY <1>1, LeadsBack, Handles DEF Leads
<1>4. Fits(f, m) /\ 1 \in 1..Len(inbox[r]) /\ Head(inbox[r]) = inbox[r][1]
  BY <1>3, HeadFits DEF QueueFits
<1>5. ConnectFits(f, m)
  BY <1>4 DEF Fits
<1>6. f \in Up /\ \A d \in Dialed : ~DialedFor(d, k[1], n)
  BY <1>1, <1>3, <1>5 DEF ConnectFits
<1>7. PICK c \in Come(k[1], n) : m.game_id \in DOMAIN names[r] /\ names[r][m.game_id] = conn[c].game
  BY <1>1, <1>3, <1>5 DEF ConnectFits
<1>8. c \in Player /\ route[c] # <<>> /\ route[c][Len(route[c])] = <<k[1], n>>
  BY <1>7 DEF Come
<1>9. ASSUME NEW g \in Handle, NEW x, Fits(g, x), x.type = "Connect", c \in Come(g[1], x.connection_id)
      PROVE  g = f /\ x.connection_id = n
  <2>1. <<g[1], x.connection_id>> = <<k[1], n>>
    BY <1>8, <1>9 DEF Come
  <2>2. g \in Up
    BY <1>9 DEF Fits, ConnectFits
  <2>3. QED
    BY <1>3, <1>6, <2>1, <2>2, OneEndUp
<1>10. ASSUME NEW g \in Handle, NEW j \in 1..Len(wire[g]), wire[g][j].type = "Connect",
              c \in Come(g[1], wire[g][j].connection_id)
       PROVE  FALSE
  <2>1. PICK x : x = wire[g][j]
    OBVIOUS
  <2>2. g = f /\ x.connection_id = n
    BY <1>2, <1>9, <1>10, <2>1 DEF WiresFit
  <2>3. QueueClash(Recv(f[2], x), inbox[r][1])
    BY <1>1, <1>3, <1>4, <1>10, <2>1, <2>2 DEF QueueClash, Clash, Recv
  <2>4. QED
    BY <1>2, <1>3, <1>4, <2>1, <2>2, <2>3 DEF WiresFromQueues
<1>11. ASSUME NEW x \in Relay, NEW j \in 1..Len(inbox[x]),
              x = r => j # 1 /\ ~QueueClash(inbox[x][j], Head(inbox[r])),
              inbox[x][j].msg = "Recv", inbox[x][j].message.type = "Connect",
              NEW g \in Handle, Leads(inbox[x][j].peer, x, g), c \in Come(g[1], inbox[x][j].message.connection_id)
       PROVE  FALSE
  <2>1. PICK y : y = inbox[x][j]
    OBVIOUS
  <2>2. Fits(g, y.message)
    BY <1>2, <1>11, <2>1 DEF QueuesFit, QueueFits
  <2>3. g = f /\ y.message.connection_id = n
    BY <1>9, <1>11, <2>1, <2>2
  <2>4. x = r /\ y.peer = p
    BY <1>3, <1>11, <2>1, <2>3 DEF Leads
  <2>5. QueueClash(y, Head(inbox[r]))
    BY <1>1, <1>11, <2>1, <2>3, <2>4 DEF QueueClash, Clash
  <2>6. QED
    BY <1>11, <2>1, <2>4, <2>5
<1>12. ASSUME NEW x \in Relay, NEW j \in 1..Len(inbox[x]), inbox[x][j].msg = "AcceptGameConnection"
       PROVE  inbox[x][j].conn # c
  <2>1. QueueFits(x, inbox[x][j])
    BY <1>2 DEF QueuesFit
  <2>2. conn[inbox[x][j].conn].st = "queued"
    BY <1>12, <2>1 DEF QueueFits
  <2>3. QED
    BY <1>2, <1>8, <2>2 DEF PlayersStart
<1>13. OnlyHead(c, r)
  BY <1>10, <1>11, <1>12 DEF OnlyHead
<1>14. QED
  BY <1>1, <1>3, <1>6, <1>7, <1>13

\* Connection d is dialed for c, which is connection n of the session of k.
Dials(d, c, k, n) ==
  /\ d \in Dialed /\ conn[d].st = "free" /\ c \in Come(k[1], n) /\ k \notin Up
  /\ \A x \in Dialed : ~DialedFor(x, k[1], n)
  /\ route' = route /\ names' = names /\ \A x \in Conn : x # d => conn'[x] = conn[x]
  /\ conn'[d].st # "free" /\ "cid" \in DOMAIN conn'[d]
  /\ conn'[d].tx = k /\ conn'[d].relay = k[2] /\ conn'[d].cid.id = n /\ conn'[d].game = conn[c].game

LEMMA DialsThreads ==
  ASSUME TypeOK, RoutesApart, PlayersStart, DialsEnd, NEW d, NEW c, NEW k, NEW n, Dials(d, c, k, n)
  PROVE  /\ RoutesApart' /\ PlayersStart' /\ DialsEnd'
         /\ \A x, s, m : DialedFor(x, s, m) => DialedFor(x, s, m)'
         /\ \A x, s, m : DialedFor(x, s, m)' => DialedFor(x, s, m) \/ (x = d /\ s = k[1] /\ m = n)
         /\ \A x, y : Serves(x, y) => Serves(x, y)'
         /\ \A x \in Player : conn'[x] = conn[x]
         /\ \A s, m : Come(s, m)' = Come(s, m)
<1>1. /\ d \in Dialed /\ d \in Conn /\ d \notin Player /\ conn[d].st = "free" /\ route' = route /\ names' = names
      /\ \A x \in Conn : x # d => conn'[x] = conn[x]
  BY NetworkAssumption DEF Dials, Conn
<1>2. /\ \A x \in Player : x \in Conn /\ x # d /\ conn'[x] = conn[x]
      /\ \A x \in Dialed : x \in Conn
  BY <1>1 DEF Conn
<1>3. RoutesApart' /\ PlayersStart'
  <2>1. RoutesApart'
    BY <1>1 DEF RoutesApart
  <2>2. \A x, s, m : Hop(x, s, m)' <=> Hop(x, s, m)
    BY <1>1 DEF Hop
  <2>3. PlayersStart'
    BY <1>1, <1>2, <2>2 DEF PlayersStart
  <2>4. QED
    BY <2>1, <2>3
<1>4. \A s, m : Come(s, m)' = Come(s, m)
  BY <1>1 DEF Come
<1>5. \A x, s, m : DialedFor(x, s, m) => DialedFor(x, s, m)'
  BY <1>1, <1>2 DEF DialedFor
<1>6. \A x, s, m : DialedFor(x, s, m)' => DialedFor(x, s, m) \/ (x = d /\ s = k[1] /\ m = n)
  BY <1>1, <1>2 DEF DialedFor, Dials
<1>7. \A x, y : Serves(x, y) => Serves(x, y)'
  BY <1>1, <1>2, <1>4 DEF Serves
<1>8. DialsEnd'
  <2>1. ASSUME NEW x \in Dialed, conn'[x].st # "free"
        PROVE  ("cid" \in DOMAIN conn[x] /\ DialEnds(x, conn[x].tx[1], conn[x].cid.id))'
    <3>1. CASE x = d
      <4>1. PICK s : s = k[1]
        OBVIOUS
      <4>2. /\ c \in Come(s, n)' /\ conn'[c].game = conn'[d].game /\ conn'[d].tx \notin Up
            /\ conn'[d].tx[1] = s /\ conn'[d].cid.id = n /\ "cid" \in DOMAIN conn'[d]
            /\ conn'[d].tx[2] = conn'[d].relay
        BY <1>2, <1>4, <4>1 DEF Dials, Come
      <4>3. \A y \in Dialed : DialedFor(y, s, n)' => y = d
        BY <1>6, <4>1 DEF Dials
      <4>4. DialEnds(d, s, n)'
        BY <4>2, <4>3 DEF DialEnds
      <4>5. QED
        BY <3>1, <4>2, <4>4
    <3>2. CASE x # d
      <4>1. conn'[x] = conn[x] /\ conn[x].st # "free"
        BY <1>1, <1>2, <2>1, <3>2
      <4>2. PICK s, m : s = conn[x].tx[1] /\ m = conn[x].cid.id
        OBVIOUS
      <4>3. "cid" \in DOMAIN conn[x] /\ DialEnds(x, s, m) /\ DialedFor(x, s, m)
        BY <4>1, <4>2 DEF DialsEnd, DialedFor
      <4>4. PICK y \in Come(s, m) : conn[y].game = conn[x].game
        BY <4>3 DEF DialEnds
      <4>5. y \in Come(s, m)' /\ conn'[y].game = conn'[x].game
        BY <1>2, <1>4, <4>1, <4>4 DEF Come
      <4>6. \A z \in Dialed : DialedFor(z, s, m)' => z = x
        BY <1>6, <4>3 DEF Dials, DialEnds
      <4>7. DialEnds(x, s, m)'
        BY <4>1, <4>3, <4>5, <4>6 DEF DialEnds
      <4>8. QED
        BY <4>1, <4>2, <4>3, <4>7
    <3>3. QED
      BY <3>1, <3>2
  <2>2. QED
    BY <2>1 DEF DialsEnd
<1>9. QED
  BY <1>2, <1>3, <1>4, <1>5, <1>6, <1>7, <1>8

LEMMA DialsFits ==
  ASSUME TypeOK, RoutesApart, PlayersStart, DialsEnd, NEW d, NEW c, NEW k, NEW n, Dials(d, c, k, n),
         NEW g \in Handle, NEW m, Fits(g, m),
         m.type = "Connect" => c \notin Come(g[1], m.connection_id)
  PROVE  Fits(g, m)'
<1>1. ASSUME m.type = "Connect" PROVE ConnectFits(g, m)'
  <2>1. ConnectFits(g, m)
    BY <1>1 DEF Fits
  <2>2. PICK s, i : s = g[1] /\ i = m.connection_id
    OBVIOUS
  <2>3. PICK x \in Come(s, i) :
          m.game_id \in DOMAIN names[Peer(g)] /\ names[Peer(g)][m.game_id] = conn[x].game
    BY <2>1, <2>2 DEF ConnectFits
  <2>4. x \in Come(s, i)' /\ conn'[x].game = conn[x].game
    <3>1. Come(s, i)' = Come(s, i) /\ \A y \in Player : conn'[y] = conn[y]
      BY DialsThreads
    <3>2. x \in Player
      BY <2>3 DEF Come
    <3>3. QED
      BY <2>3, <3>1, <3>2
  <2>5. ~ (s = k[1] /\ i = n)
    BY <1>1, <2>2 DEF Dials
  <2>6. \A y \in Dialed : ~DialedFor(y, s, i)'
    BY <2>1, <2>2, <2>5, DialsThreads DEF ConnectFits
  <2>7. names' = names
    BY DEF Dials
  <2>8. QED
    BY <2>1, <2>2, <2>3, <2>4, <2>6, <2>7 DEF ConnectFits
<1>2. DataFits(g, m) => DataFits(g, m)'
  <2>1. \A x, s, i : Hop(x, s, i)' <=> Hop(x, s, i)
    BY DEF Hop, Dials
  <2>2. \A y, x : Serves(y, x) => Serves(y, x)'
    BY DialsThreads
  <2>3. QED
    BY <2>1, <2>2 DEF DataFits
<1>3. QED
  BY <1>1, <1>2 DEF Fits

LEMMA DialStep ==
  ASSUME Inv, RoutesInv, NEW r \in Relay, NEW e, Apply(r, e), e.relay = tables[r], e.out = {}, e.deliver = {},
         inbox[r] # <<>>, inbox' = [inbox EXCEPT ![r] = Tail(@)], UNCHANGED <<ends, heard>>,
         NEW d, NEW c, NEW k, NEW n, Dials(d, c, k, n), OnlyHead(c, r)
  PROVE  RoutesInv'
<1>1. /\ TypeOK /\ RoutesApart /\ PlayersStart /\ DialsEnd /\ QueuesFit /\ WiresFit /\ TablesFit /\ NewUnused
      /\ MailFits /\ HeardFits
  BY DEF Inv, RoutesInv
<1>2. /\ RoutesApart' /\ PlayersStart' /\ DialsEnd'
      /\ \A x, s, m : DialedFor(x, s, m) => DialedFor(x, s, m)'
      /\ \A x, y : Serves(x, y) => Serves(x, y)'
      /\ \A x \in Player : conn'[x] = conn[x]
  BY <1>1, DialsThreads
<1>3. route' = route /\ names' = names
  BY DEF Dials
<1>4. \A x \in Relay : tables'[x] = tables[x]
  BY <1>1, Applied
<1>5. ASSUME NEW x \in Relay, NEW j, NEW m, j \in 1..Len(inbox[x]), m = inbox[x][j],
             x = r => j # 1 /\ ~QueueClash(m, Head(inbox[r]))
      PROVE  QueueFits(x, m)'
  <2>1. QueueFits(x, m)
    BY <1>1, <1>5 DEF QueuesFit
  <2>2. ASSUME m.msg = "Recv" PROVE \A g \in Handle : Leads(m.peer, x, g) => Fits(g, m.message)'
    <3>1. ASSUME NEW g \in Handle, Leads(m.peer, x, g) PROVE Fits(g, m.message)'
      <4>1. PICK f : f = m.message
        OBVIOUS
      <4>2. Fits(g, f) /\ (f.type = "Connect" => c \notin Come(g[1], f.connection_id))
        BY <1>5, <2>1, <2>2, <3>1, <4>1 DEF QueueFits, OnlyHead
      <4>3. Fits(g, f)'
        BY <1>1, <4>2, DialsFits
      <4>4. QED
        BY <4>1, <4>3
    <3>2. QED
      BY <3>1
  <2>3. m.msg = "AddPeer" => m.peer \notin DOMAIN tables'[x].peers /\ (m.handle \in Up => Unused(m.handle)')
    BY <1>3, <1>4, <2>1 DEF QueueFits, Unused
  <2>4. m.msg = "AcceptGameConnection" =>
          /\ m.conn \in Player /\ conn'[m.conn].st = "queued" /\ conn'[m.conn].relay = x
          /\ m.game \in DOMAIN names'[x] /\ names'[x][m.game] = conn'[m.conn].game
    BY <1>2, <1>3, <2>1 DEF QueueFits
  <2>5. m.msg = "AddGameConnection" =>
          \A g \in Handle : Leads(x, m.peer, g) => g \notin Up /\ DialedFor(m.conn, g[1], m.cid.id)'
    BY <1>2, <2>1 DEF QueueFits
  <2>6. m.msg = "AddLocalGame" => m.from.ip = x
    BY <2>1 DEF QueueFits
  <2>7. QED
    BY <2>2, <2>3, <2>4, <2>5, <2>6 DEF QueueFits
<1>6. ASSUME NEW g \in Handle, NEW j, NEW m, j \in 1..Len(wire[g]), m = wire[g][j]
      PROVE  Fits(g, m)'
  BY <1>1, <1>6, DialsFits DEF WiresFit, OnlyHead
<1>7. QueuesFit' /\ WiresFit' /\ QueuesApart' /\ WiresApart' /\ WiresFromQueues'
  BY <1>1, <1>5, <1>6, MainFlight
<1>8. TablesFit'
  <2>1. ASSUME NEW x \in Relay PROVE TableFits(x, tables[x])'
    <3>1. PICK s : s = tables[x]
      OBVIOUS
    <3>2. tables'[x] = s /\ TableFits(x, s)
      BY <1>1, <1>4, <3>1 DEF TablesFit
    <3>3. \A g, cid, y : Holds(g, cid, y) => Holds(g, cid, y)'
      BY <1>2, <1>3 DEF Holds, Hop
    <3>4. \A g, cid, f, to : Joins(g, cid, f, to) => Joins(g, cid, f, to)'
      BY <1>3 DEF Joins, Hop
    <3>5. \A g : Fresh(s, g) => Fresh(s, g)'
      BY <1>3 DEF Fresh
    <3>6. TableFits(x, s)'
      BY <3>2, <3>3, <3>4, <3>5 DEF TableFits
    <3>7. QED
      BY <3>2, <3>6
  <2>2. QED
    BY <2>1 DEF TablesFit
<1>9. NewUnused'
  <2>1. ASSUME NEW g \in Handle, ends[g] = "new"
        PROVE  /\ Peer(g) \notin DOMAIN tables'[g[2]].peers
               /\ g \in Up => Unused(g)'
               /\ \A i \in 1..Len(inbox'[g[2]]) : inbox'[g[2]][i].msg = "AddPeer" => inbox'[g[2]][i].handle # g
    <3>1. g[2] \in Relay
      BY Handles
    <3>2. /\ Peer(g) \notin DOMAIN tables[g[2]].peers /\ (g \in Up => Unused(g))
          /\ \A i \in 1..Len(inbox[g[2]]) : inbox[g[2]][i].msg = "AddPeer" => inbox[g[2]][i].handle # g
      BY <1>1, <2>1 DEF NewUnused
    <3>3. g \in Up => Unused(g)'
      BY <1>3, <3>2 DEF Unused
    <3>4. \A i \in 1..Len(inbox'[g[2]]) : \E j \in 1..Len(inbox[g[2]]) : inbox'[g[2]][i] = inbox[g[2]][j]
      BY <1>1, <3>1, QueuesTaken DEF RoutesInv
    <3>5. QED
      BY <1>4, <3>1, <3>2, <3>3, <3>4
  <2>2. QED
    BY <2>1 DEF NewUnused
<1>10. \A x, y : Paired(x, y) => Paired(x, y)'
  BY <1>2 DEF Paired
<1>11. MailFits'
  BY <1>1, <1>10, MainMail
<1>12. HeardFits'
  BY <1>1, <1>10 DEF HeardFits
<1>13. QED
  BY <1>2, <1>7, <1>8, <1>9, <1>11, <1>12 DEF RoutesInv

\* The tables t after a Connect was passed on: connection fc of p is cid of q.
Forwarded(s, q, cid, p, fc, t) ==
  /\ t.games = s.games /\ t.peers = s.peers /\ t.local_connections = s.local_connections
  /\ t.next_connection_id = Insert(s.next_connection_id, q, After(cid))
  /\ t.relayed_connections =
       Insert(Insert(s.relayed_connections, <<q, cid>>, <<p, fc>>), <<p, fc>>, <<q, cid>>)

LEMMA ForwardFits ==
  ASSUME Inv, RoutesInv, NEW r \in Relay, NEW s, s = tables[r], NEW q \in DOMAIN s.peers,
         NEW h \in Up, Leads(r, q, h), NEW cid, cid = s.next_connection_id[q],
         NEW p, NEW k, Leads(r, p, k), k \notin Up, NEW fc, NEW c \in Come(k[1], fc.id),
         Extends(c, h, cid.id), Grew(c, h, cid.id),
         NEW t, Forwarded(s, q, cid, p, fc, t)
  PROVE  TableFits(r, t)'
<1>0. /\ t.games = s.games /\ t.peers = s.peers /\ t.local_connections = s.local_connections
      /\ t.next_connection_id = Insert(s.next_connection_id, q, After(cid))
      /\ t.relayed_connections =
           Insert(Insert(s.relayed_connections, <<q, cid>>, <<p, fc>>), <<p, fc>>, <<q, cid>>)
  BY DEF Forwarded
<1>1. PICK n, i : n = cid.id /\ i = fc.id
  OBVIOUS
<1>2. TypeOK /\ TablesInv(s) /\ TableFits(r, s) /\ RoutesApart /\ PlayersStart /\ DialsEnd
  BY DEF Inv, TypeOK, RoutesInv, TablesFit
<1>3. cid \in ConnectionId /\ Peer(h) = q /\ Extends(c, h, n) /\ Grew(c, h, n) /\ c \in Player
  BY <1>1, <1>2, TablesHold DEF Leads, Extends
<1>4. t.next_connection_id[q].id = n + 1
  BY <1>0, <1>1, <1>3 DEF Insert, After, ConnectionId
<1>5. /\ n \in Nat /\ FreshId(h, n) /\ Fresh(s, h)
      /\ \A x \in DOMAIN s.local_connections : x[1] = q => x[2].id # n
  BY <1>1, NextFresh
<1>6. /\ \A g, cd, x : Holds(g, cd, x) /\ (Grew(c, h, n) /\ g = h => cd.id # n) => Holds(g, cd, x)'
      /\ \A g, cd, f, to : Joins(g, cd, f, to) => Joins(g, cd, f, to)'
  BY <1>2, <1>3, ExtendsTables
<1>7. Hop(c, h[1], n)' /\ Hop(c, k[1], i)'
  <2>1. PICK a, b : a = h[1] /\ b = k[1]
    OBVIOUS
  <2>2. route'[c][Len(route'[c])] = <<a, n>> /\ Len(route'[c]) \in 1..Len(route'[c])
    BY <1>2, <1>3, <2>1, ExtendsHops
  <2>3. Hop(c, a, n)'
    BY <2>2 DEF Hop
  <2>4. Hop(c, b, i)
    BY <1>1, <1>2, <2>1, ComeHop
  <2>5. Hop(c, b, i)'
    BY <1>2, <1>3, <2>4, ExtendsEnds
  <2>6. QED
    BY <2>1, <2>3, <2>5
<1>8. Joins(h, cid, k, fc)' /\ Joins(k, fc, h, cid)'
  BY <1>1, <1>3, <1>7 DEF Joins
<1>9. ASSUME NEW x \in DOMAIN t.local_connections, NEW g \in Handle, Leads(r, x[1], g)
      PROVE  Holds(g, x[2], t.local_connections[x])'
  <2>1. Holds(g, x[2], s.local_connections[x])
    BY <1>0, <1>2, <1>9 DEF TableFits
  <2>2. g = h => x[2].id # n
    BY <1>0, <1>3, <1>5, <1>9 DEF Leads
  <2>3. PICK cd, y : cd = x[2] /\ y = s.local_connections[x]
    OBVIOUS
  <2>4. Holds(g, cd, y)'
    BY <1>6, <2>1, <2>2, <2>3
  <2>5. QED
    BY <1>0, <2>3, <2>4
<1>10. ASSUME NEW x \in DOMAIN t.relayed_connections, NEW g \in Handle, NEW f \in Handle,
              Leads(r, x[1], g), Leads(r, t.relayed_connections[x][1], f)
       PROVE  Joins(g, x[2], f, t.relayed_connections[x][2])'
  <2>0. PICK a, b : a = <<p, fc>> /\ b = <<q, cid>>
    OBVIOUS
  <2>5. t.relayed_connections = Insert(Insert(s.relayed_connections, b, a), a, b)
    BY <1>0, <2>0
  <2>6. a[1] = p /\ a[2] = fc /\ b[1] = q /\ b[2] = cid
    BY <2>0
  <2>7. /\ \A y : Leads(r, p, y) => y = k
        /\ \A y : Leads(r, q, y) => y = h
    BY LeadsBack
  <2>1. CASE x = a
    <3>1. t.relayed_connections[x] = b
      BY <2>1, <2>5 DEF Insert
    <3>2. g = k /\ f = h /\ x[2] = fc
      BY <1>10, <2>1, <2>6, <2>7, <3>1
    <3>3. QED
      BY <1>8, <2>6, <3>1, <3>2
  <2>2. CASE x # a /\ x = b
    <3>1. t.relayed_connections[x] = a
      BY <2>2, <2>5 DEF Insert
    <3>2. g = h /\ f = k /\ x[2] = cid
      BY <1>10, <2>2, <2>6, <2>7, <3>1
    <3>3. QED
      BY <1>8, <2>6, <3>1, <3>2
  <2>3. CASE x # a /\ x # b
    <3>1. x \in DOMAIN s.relayed_connections /\ t.relayed_connections[x] = s.relayed_connections[x]
      BY ONLY <1>10, <2>3, <2>5 DEF Insert
    <3>2. Joins(g, x[2], f, s.relayed_connections[x][2])
      BY <1>2, <1>10, <3>1 DEF TableFits
    <3>3. PICK cd, to : cd = x[2] /\ to = s.relayed_connections[x][2]
      OBVIOUS
    <3>4. Joins(g, cd, f, to)'
      BY <1>6, <3>2, <3>3
    <3>5. QED
      BY <3>1, <3>3, <3>4
  <2>4. QED
    BY <2>1, <2>2, <2>3
<1>11. ASSUME NEW g \in Up, g[2] = r PROVE Fresh(t, g)'
  <2>1. g = h
    BY <1>11, OneWay DEF Leads
  <2>2. /\ n = s.next_connection_id[Peer(h)].id /\ t.next_connection_id[Peer(h)].id = n + 1
        /\ \A x \in DOMAIN t.local_connections :
             x[1] = Peer(h) => x \in DOMAIN s.local_connections \/ x[2].id = n
        /\ h \in Up
    BY <1>0, <1>1, <1>3, <1>4
  <2>3. Fresh(t, h)'
    BY ONLY <1>2, <1>3, <1>5, <2>2, AfterFresh
  <2>4. QED
    BY <2>1, <2>3
<1>12. \A l \in DOMAIN t.games : \A g \in Handle :
         t.games[l].kind = "remote" /\ Leads(r, t.games[l].peer_id, g) => g \in Up
  BY <1>0, <1>2 DEF TableFits
<1>13. QED
  BY <1>9, <1>10, <1>11, <1>12 DEF TableFits

\* The tables after the peer it was to be passed on to was found gone.
LEMMA ForwardShrinks ==
  ASSUME NEW s, DOMAIN s = RelayFields, DOMAIN s.next_connection_id = DOMAIN s.peers, NEW q, NEW cid, NEW v,
         NEW z, NEW t, t = [s EXCEPT !.next_connection_id = Insert(@, q, z),
                                     !.relayed_connections = Insert(@, <<q, cid>>, v)]
  PROVE  Shrinks(s, remove_peer(t, q))
<1>1. /\ DOMAIN t = RelayFields /\ t.games = s.games /\ t.peers = s.peers
      /\ t.local_connections = s.local_connections
      /\ t.next_connection_id = Insert(s.next_connection_id, q, z)
      /\ t.relayed_connections = Insert(s.relayed_connections, <<q, cid>>, v)
  BY DEF RelayFields
<1>2. PICK u : u = remove_peers(t, {q})
  OBVIOUS
<1>3. /\ u.peers = Restrict(t.peers, DOMAIN t.peers \ {q})
      /\ u.local_connections = ForgetPeers(t.local_connections, {q})
      /\ u.relayed_connections = ForgetPeers(t.relayed_connections, {q})
      /\ u.next_connection_id = Restrict(t.next_connection_id, DOMAIN t.next_connection_id \ {q})
      /\ u.games = Restrict(t.games, DOMAIN t.games \ games_of(t, {q}))
  BY <1>1, <1>2 DEF remove_peers, RelayFields
<1>4. FewerPeers(s, u) /\ \A x \in DOMAIN u.peers : x # q /\ x \in DOMAIN s.next_connection_id
  BY <1>1, <1>3 DEF FewerPeers, Restrict
<1>5. \A x \in DOMAIN u.peers : u.next_connection_id[x] = s.next_connection_id[x]
  <2>1. PICK f : f = s.next_connection_id
    OBVIOUS
  <2>2. ASSUME NEW x \in DOMAIN f, x # q PROVE u.next_connection_id[x] = f[x]
    <3>1. u.next_connection_id = Restrict(Insert(f, q, z), DOMAIN Insert(f, q, z) \ {q})
      BY <1>1, <1>3, <2>1
    <3>2. x \in DOMAIN Insert(f, q, z) /\ Insert(f, q, z)[x] = f[x]
      BY <2>2 DEF Insert
    <3>3. QED
      BY ONLY <2>2, <3>1, <3>2 DEF Restrict
  <2>3. QED
    BY <1>4, <2>1, <2>2
<1>6. \A x \in DOMAIN u.relayed_connections :
        x \in DOMAIN s.relayed_connections /\ u.relayed_connections[x] = s.relayed_connections[x]
  <2>1. PICK f, g, b : f = s.relayed_connections /\ b = <<q, cid>> /\ g = Insert(f, b, v)
    OBVIOUS
  <2>2. u.relayed_connections = ForgetPeers(g, {q}) /\ b[1] = q
    BY <1>1, <1>3, <2>1
  <2>3. ASSUME NEW x \in DOMAIN u.relayed_connections
        PROVE  x \in DOMAIN g /\ x # b /\ u.relayed_connections[x] = g[x]
    BY ONLY <2>2, <2>3 DEF ForgetPeers, RestrictDomain, Restrict
  <2>4. \A x \in DOMAIN g : x # b => x \in DOMAIN f /\ g[x] = f[x]
    BY <2>1 DEF Insert
  <2>5. QED
    BY <2>1, <2>3, <2>4
<1>7. /\ \A x \in DOMAIN u.local_connections :
           x \in DOMAIN s.local_connections /\ u.local_connections[x] = s.local_connections[x]
      /\ \A x \in DOMAIN u.games : x \in DOMAIN s.games /\ u.games[x] = s.games[x]
  BY <1>1, <1>3 DEF ForgetPeers, RestrictDomain, Restrict
<1>8. QED
  BY <1>2, <1>4, <1>5, <1>6, <1>7 DEF Shrinks, remove_peer

\* A Connect starts a dial, is passed on, or comes to nothing.
LEMMA RunConnectRoutes ==
  ASSUME Inv, RoutesInv, NEW r \in Relay, RunConnect(r)
  PROVE  RoutesInv'
<1>1. PICK p, m, s, live : /\ p = Head(inbox[r]).peer /\ m = Head(inbox[r]).message /\ s = tables[r]
                           /\ live = Live
  OBVIOUS
<1>2. PICK e, l, i : e = handle_connect(s, live, p, m) /\ l = m.game_id /\ i = m.connection_id
  OBVIOUS
<1>3. /\ UNCHANGED <<ends, heard, names>> /\ TypeOK /\ TablesInv(s) /\ TableFits(r, s)
      /\ RoutesApart /\ PlayersStart /\ DialsEnd
      /\ Take(r, "Recv") /\ Apply(r, e) /\ m.type = "Connect" /\ Goes(Come(s.peers[p][1], i), e)
      /\ \/ e.spawn = {} /\ conn' = conn
         \/ \E c \in Dialed, t \in e.spawn :
              /\ conn[c].st = "free"
              /\ conn' = [conn EXCEPT ![c] =
                   [st |-> "dialing", relay |-> r, game |-> t.addr, cid |-> t.cid, tx |-> t.peer_tx]]
  BY <1>1, <1>2 DEF RunConnect, TakeRecv, Inv, TypeOK, RoutesInv, TablesFit
<1>4. /\ inbox[r] # <<>> /\ inbox' = [inbox EXCEPT ![r] = Tail(@)]
      /\ Head(inbox[r]) \in Message /\ Head(inbox[r]).msg = "Recv"
  BY <1>3, Taken
<1>5. p \in Relay /\ i \in Nat /\ m.hops \in Nat
  <2>1. p \in Relay /\ m \in RelayMessage
    BY <1>1, <1>4 DEF Message
  <2>2. QED
    BY <1>2, <1>3, <2>1 DEF RelayMessage, RelayPing
<1>6. Quiet(s, e)
  BY <1>2, <1>3, <1>5, ConnectQuiet
<1>7. DOMAIN s = RelayFields /\ DOMAIN s.next_connection_id = DOMAIN s.peers
  BY <1>3 DEF TablesInv, RelayType
\* Nothing is opened.
<1>8. ASSUME e.out = {}, e.deliver = {}, e.spawn = {}, Shrinks(s, e.relay) PROVE RoutesInv'
  <2>1. conn' = conn /\ route' = route
    BY <1>3, <1>8, GoesNowhere
  <2>2. QED
    BY <1>1, <1>3, <1>4, <1>6, <1>8, <2>1, ShrinkStep
<1>9. Shrinks(s, s)
  BY DEF Shrinks, FewerPeers
<1>10. ASSUME e = Effect(s) PROVE RoutesInv'
  <2>1. e.out = {} /\ e.deliver = {} /\ e.spawn = {} /\ e.relay = s
    BY <1>10 DEF Effect
  <2>2. QED
    BY <1>8, <1>9, <2>1
<1>11. CASE l \notin DOMAIN s.games
  BY <1>2, <1>10, <1>11 DEF handle_connect
<1>12. PICK k : k = s.peers[p]
  OBVIOUS
<1>13. ASSUME p \in DOMAIN s.peers
       PROVE  /\ Leads(r, p, k) /\ k \in Handle /\ k[2] = r
              /\ k \notin Up /\ \A d \in Dialed : ~DialedFor(d, k[1], i)
              /\ \E c \in Come(k[1], i) :
                   OnlyHead(c, r) /\ l \in DOMAIN names[r] /\ names[r][l] = conn[c].game
  <2>1. Leads(r, p, k)
    BY <1>1, <1>12, <1>13, PeersLead
  <2>2. /\ Inv /\ RoutesInv /\ r \in Relay /\ inbox[r] # <<>> /\ Head(inbox[r]).msg = "Recv"
        /\ p = Head(inbox[r]).peer /\ m = Head(inbox[r]).message /\ m.type = "Connect" /\ Leads(r, p, k)
    BY <1>1, <1>3, <1>4, <2>1
  <2>3. /\ k \notin Up /\ \A d \in Dialed : ~DialedFor(d, k[1], m.connection_id)
        /\ \E c \in Come(k[1], m.connection_id) :
             /\ OnlyHead(c, r)
             /\ m.game_id \in DOMAIN names[r] /\ names[r][m.game_id] = conn[c].game
    BY ONLY <2>2, HeadConnect
  <2>4. k \in Handle /\ k[2] = r
    BY <2>1 DEF Leads
  <2>5. QED
    BY <1>2, <2>1, <2>3, <2>4
<1>14. CASE l \in DOMAIN s.games /\ s.games[l].kind = "local"
  <2>1. PICK fc, addr : fc = [id |-> i, local |-> FALSE] /\ addr = s.games[l].addr
    OBVIOUS
  <2>2. e = connect_local(s, p, l, fc)
    BY <1>2, <1>14, <2>1 DEF handle_connect
  <2>3. CASE p \notin DOMAIN s.peers
    BY <1>10, <2>2, <2>3 DEF connect_local
  <2>4. CASE p \in DOMAIN s.peers
    <3>1. /\ e.relay = s /\ e.out = {} /\ e.deliver = {}
          /\ e.spawn = {[kind |-> "connect", from |-> p, cid |-> fc, game |-> l, addr |-> addr, peer_tx |-> k]}
      BY <1>12, <2>1, <2>2, <2>4 DEF connect_local, Effect
    <3>2. PICK c \in Come(k[1], i) :
            OnlyHead(c, r) /\ l \in DOMAIN names[r] /\ names[r][l] = conn[c].game
      BY <1>13, <2>4
    <3>3. names[r][l] = addr
      <4>1. GameAgrees(r, l, s.games[l])
        BY <1>1, <1>14, AgreeIs DEF Inv
      <4>2. QED
        BY <1>14, <2>1, <4>1 DEF GameAgrees
    <3>4. PICK d \in Dialed :
            /\ conn[d].st = "free"
            /\ conn' = [conn EXCEPT ![d] =
                 [st |-> "dialing", relay |-> r, game |-> addr, cid |-> fc, tx |-> k]]
      <4>1. e.spawn # {}
        BY <3>1
      <4>2. PICK d \in Dialed, t \in e.spawn :
              /\ conn[d].st = "free"
              /\ conn' = [conn EXCEPT ![d] =
                   [st |-> "dialing", relay |-> r, game |-> t.addr, cid |-> t.cid, tx |-> t.peer_tx]]
        BY <1>3, <4>1
      <4>3. t.addr = addr /\ t.cid = fc /\ t.peer_tx = k
        BY <3>1
      <4>4. QED
        BY <4>2, <4>3
    <3>5. route' = route
      BY <1>3, <3>1, GoesNowhere
    <3>6. conn'[d] = [st |-> "dialing", relay |-> r, game |-> addr, cid |-> fc, tx |-> k]
          /\ \A x \in Conn : x # d => conn'[x] = conn[x]
      BY <1>3, <3>4 DEF TypeOK, Conn
    <3>7. /\ conn'[d].st = "dialing" /\ "cid" \in DOMAIN conn'[d] /\ conn'[d].tx = k /\ conn'[d].relay = r
          /\ conn'[d].cid.id = i /\ conn'[d].game = addr
      BY <2>1, <3>6
    <3>8. Dials(d, c, k, i)
      BY <1>3, <1>13, <2>4, <3>2, <3>3, <3>4, <3>5, <3>6, <3>7 DEF Dials
    <3>9. QED
      BY <1>1, <1>3, <1>4, <3>1, <3>2, <3>8, DialStep
  <2>5. QED
    BY <2>3, <2>4
<1>15. CASE l \in DOMAIN s.games /\ s.games[l].kind # "local"
  <2>1. PICK q, fc, rid : q = s.games[l].peer_id /\ fc = [id |-> i, local |-> FALSE] /\ rid = RemoteId(s, l)
    OBVIOUS
  <2>2. e = forward_connect(s, live, p, q, rid, m)
    BY <1>2, <1>15, <2>1 DEF handle_connect
  <2>3. PICK h, cid, n : h = s.peers[q] /\ cid = s.next_connection_id[q] /\ n = cid.id
    OBVIOUS
  <2>4. PICK t : t = [s EXCEPT !.next_connection_id = Insert(@, q, After(cid)),
                               !.relayed_connections = Insert(@, <<q, cid>>, <<p, fc>>)]
    OBVIOUS
  <2>5. e = IF \/ m.hops >= MAX_FORWARDING_HOPS
               \/ p \notin DOMAIN s.peers
               \/ <<p, fc>> \in DOMAIN s.relayed_connections
               \/ q \notin DOMAIN s.peers
            THEN Effect(s)
            ELSE IF h \notin live
                 THEN Effect(remove_peer(t, q))
                 ELSE [Effect([t EXCEPT !.relayed_connections = Insert(@, <<p, fc>>, <<q, cid>>)])
                       EXCEPT !.out = {[to |-> h, msg |-> RelayConnect(rid, n, m.hops + 1)]}]
    BY <1>2, <2>1, <2>2, <2>3, <2>4 DEF forward_connect, NewConnectionId
  <2>6. CASE \/ m.hops >= MAX_FORWARDING_HOPS
             \/ p \notin DOMAIN s.peers
             \/ <<p, fc>> \in DOMAIN s.relayed_connections
             \/ q \notin DOMAIN s.peers
    BY ONLY <1>10, <2>5, <2>6
  <2>7. CASE /\ ~ (\/ m.hops >= MAX_FORWARDING_HOPS
                   \/ p \notin DOMAIN s.peers
                   \/ <<p, fc>> \in DOMAIN s.relayed_connections
                   \/ q \notin DOMAIN s.peers)
             /\ h \notin live
    <3>1. e = Effect(remove_peer(t, q))
      BY ONLY <2>5, <2>7
    <3>2. e.out = {} /\ e.deliver = {} /\ e.spawn = {} /\ e.relay = remove_peer(t, q)
      BY <3>1 DEF Effect
    <3>3. Shrinks(s, remove_peer(t, q))
      BY <1>7, <2>4, ForwardShrinks
    <3>4. QED
      BY <1>8, <3>2, <3>3
  <2>8. CASE /\ ~ (\/ m.hops >= MAX_FORWARDING_HOPS
                   \/ p \notin DOMAIN s.peers
                   \/ <<p, fc>> \in DOMAIN s.relayed_connections
                   \/ q \notin DOMAIN s.peers)
             /\ h \in live
    <3>1. p \in DOMAIN s.peers /\ q \in DOMAIN s.peers
      BY <2>8
    <3>2. PICK u, msg : /\ u = [t EXCEPT !.relayed_connections = Insert(@, <<p, fc>>, <<q, cid>>)]
                        /\ msg = RelayConnect(rid, n, m.hops + 1)
      OBVIOUS
    <3>3. e = [Effect(u) EXCEPT !.out = {[to |-> h, msg |-> msg]}]
      BY ONLY <2>5, <2>8, <3>2
    <3>4. e.relay = u /\ e.out = {[to |-> h, msg |-> msg]} /\ e.deliver = {} /\ e.spawn = {}
      BY <3>3 DEF Effect
    <3>5. /\ u.games = s.games /\ u.peers = s.peers /\ u.local_connections = s.local_connections
          /\ u.next_connection_id = Insert(s.next_connection_id, q, After(cid))
          /\ u.relayed_connections =
               Insert(Insert(s.relayed_connections, <<q, cid>>, <<p, fc>>), <<p, fc>>, <<q, cid>>)
      BY <1>7, <2>4, <3>2 DEF RelayFields
    <3>6. PICK c \in Come(k[1], i) :
            OnlyHead(c, r) /\ l \in DOMAIN names[r] /\ names[r][l] = conn[c].game
      BY <1>13, <3>1
    <3>7. /\ Leads(r, p, k) /\ k \notin Up /\ c \in Player /\ Hop(c, k[1], i) /\ route[c] # <<>>
          /\ \A d \in Dialed : ~DialedFor(d, k[1], i)
      BY <1>3, <1>13, <3>1, <3>6, ComeHop DEF Come
    <3>8. Leads(r, q, h) /\ h \in Handle /\ Peer(h) = q /\ h[2] = r
      BY <1>1, <2>3, <3>1, PeersLead DEF Leads
    <3>9. s.games[l].kind = "remote"
      <4>1. s.games[l] \in LocalGame \cup RemoteGame
        BY <1>3, <1>15 DEF TablesInv, RelayType, IsMap
      <4>2. QED
        BY <1>15, <4>1 DEF LocalGame, RemoteGame
    <3>10. h \in Up
      BY <1>3, <1>15, <2>1, <3>8, <3>9 DEF TableFits
    <3>11. n \in Nat /\ FreshId(h, n)
      BY <1>1, <2>3, <3>1, <3>8, <3>10, NextFresh
    <3>12. msg.connection_id = n
      BY <3>2 DEF RelayConnect
    <3>13. conn' = conn
      BY <1>3, <3>4
    <3>14. Grew(c, h, n)
      <4>1. PICK C : C = Come(k[1], i)
        OBVIOUS
      <4>2. \A x \in Player : x \in C <=> x = c
        BY <1>3, <3>6, <4>1, ComeAlone, ComeHop
      <4>3. TypeOK /\ c \in Player /\ Goes(C, e)
        BY <1>3, <1>12, <3>7, <4>1
      <4>4. \A g, x : e.out = {[to |-> g, msg |-> x]} => SentTo(c, g, x.connection_id)
        BY ONLY <4>2, <4>3, GoesOn
      <4>5. QED
        BY <3>4, <3>10, <3>11, <3>12, <4>4 DEF Grew
    <3>15. \A d \in Dialed : ~Serves(d, c)
      <4>1. SUFFICES ASSUME NEW d \in Dialed, Serves(d, c) PROVE FALSE
        OBVIOUS
      <4>2. PICK a, b : a = conn[d].tx[1] /\ b = conn[d].cid.id
        OBVIOUS
      <4>3. conn[d].st # "free" /\ route[c][Len(route[c])] = <<a, b>> /\ route[c][Len(route[c])] = <<k[1], i>>
        BY <3>6, <4>1, <4>2 DEF Serves, Come
      <4>4. a = k[1] /\ b = i
        BY <4>3
      <4>5. DialedFor(d, k[1], i)
        BY <4>2, <4>3, <4>4 DEF DialedFor
      <4>6. QED
        BY <3>7, <4>5
    <3>16. Extends(c, h, n)
      BY <1>3, <3>7, <3>13, <3>14, <3>15 DEF Extends
    <3>17. TableFits(r, u)'
      <4>0. Forwarded(s, q, cid, p, fc, u)
        BY <3>5 DEF Forwarded
      <4>1. /\ Inv /\ RoutesInv /\ r \in Relay /\ s = tables[r] /\ q \in DOMAIN s.peers /\ h \in Up
            /\ Leads(r, q, h) /\ cid = s.next_connection_id[q] /\ Leads(r, p, k) /\ k \notin Up
            /\ c \in Come(k[1], fc.id) /\ Extends(c, h, cid.id) /\ Grew(c, h, cid.id)
        BY <1>1, <2>1, <2>3, <3>1, <3>6, <3>7, <3>8, <3>10, <3>14, <3>16
      <4>2. QED
        BY ONLY <4>0, <4>1, ForwardFits
    <3>18. TableFits(r, e.relay)'
      BY <3>4, <3>17
    <3>19. PlayersStart'
      <4>1. ASSUME NEW x \in Player
            PROVE  /\ conn'[x].st \in {"free", "queued"} => route'[x] = <<>>
                   /\ "cid" \in DOMAIN conn'[x] => conn'[x].tx \in Up /\ Hop(x, conn[x].tx[1], conn[x].cid.id)'
        <5>1. conn[x].st \in {"free", "queued"} => x # c /\ route[x] = <<>>
          BY <1>3, <3>7 DEF PlayersStart
        <5>2. x # c => route'[x] = route[x]
          BY <1>3, <3>16, ExtendsHops
        <5>3. PICK a, b : a = conn[x].tx[1] /\ b = conn[x].cid.id
          OBVIOUS
        <5>4. Hop(x, a, b) => Hop(x, a, b)'
          BY <1>3, <3>16, ExtendsEnds
        <5>5. "cid" \in DOMAIN conn[x] => conn[x].tx \in Up /\ Hop(x, a, b)
          BY <1>3, <5>3 DEF PlayersStart
        <5>6. QED
          BY <3>13, <5>1, <5>2, <5>3, <5>4, <5>5
      <4>2. QED
        BY <4>1 DEF PlayersStart
    <3>20. rid \in DOMAIN names[Peer(h)] /\ names[Peer(h)][rid] = conn[c].game
      <4>1. GameAgrees(r, l, s.games[l])
        BY <1>1, <1>15, AgreeIs DEF Inv
      <4>2. rid \in DOMAIN names[q] /\ names[r][l] = names[q][rid]
        BY <2>1, <3>9, <4>1 DEF GameAgrees, RemoteId
      <4>3. QED
        BY <3>6, <3>8, <4>2
    <3>21. Fits(h, msg)' /\ NewTo(h, msg)
      BY <3>2, <3>14, <3>16, <3>20, ConnectSent
    <3>22. \A o \in e.out : Fits(o.to, o.msg)' /\ NewTo(o.to, o.msg)
      BY <3>4, <3>21
    <3>23. \A x \in DOMAIN e.relay.peers : x \in DOMAIN tables[r].peers
      BY <1>1, <3>4, <3>5
    <3>24. h[2] = r /\ Peer(h) \in DOMAIN tables[r].peers
      BY <1>1, <3>1, <3>8
    <3>25. QED
      BY <1>3, <1>4, <3>4, <3>6, <3>16, <3>18, <3>19, <3>22, <3>23, <3>24, MainExtends
  <2>9. QED
    BY <2>6, <2>7, <2>8
<1>16. QED
  BY <1>11, <1>14, <1>15

-----------------------------------------------------------------------------
(* Steps of the sessions, of games, of players and of threads. *)

\* What is in a queue was there, or fits.
QueuesGain ==
  \A x \in Relay : \A i \in 1..Len(inbox'[x]) : \A m :
    m = inbox'[x][i] => (\E j \in 1..Len(inbox[x]) : m = inbox[x][j]) \/ QueueFits(x, m)'

\* What is in a stream was there, or fits.
WiresGain ==
  \A h \in Handle : \A i \in 1..Len(wire'[h]) : \A m :
    m = wire'[h][i] => (\E j \in 1..Len(wire[h]) : m = wire[h][j]) \/ Fits(h, m)'

\* A session that is not up yet stays unknown to its relay.
StaysNew ==
  \A h \in Handle :
    ends'[h] = "new" =>
      /\ ends[h] = "new"
      /\ \A i \in 1..Len(inbox'[h[2]]) :
           \/ \E j \in 1..Len(inbox[h[2]]) : inbox'[h[2]][i] = inbox[h[2]][j]
           \/ inbox'[h[2]][i].msg # "AddPeer" \/ inbox'[h[2]][i].handle # h

\* What is written was in the mail.
MailMoves ==
  /\ \A x \in Conn : \A i \in 1..Len(mail'[x]) : \E j \in 1..Len(mail[x]) : mail'[x][i] = mail[x][j]
  /\ \A x \in Conn : \A i \in 1..Len(heard'[x]) :
       \/ \E j \in 1..Len(heard[x]) : heard'[x][i] = heard[x][j]
       \/ heard'[x][i] # NoData /\ \E j \in 1..Len(mail[x]) : heard'[x][i] = mail[x][j]

\* A step that leaves the tables alone.
LEMMA OutsideRoutes ==
  ASSUME Inv, RoutesInv, UNCHANGED <<tables, names, route>>,
         Steady, RoutesApart', PlayersStart', DialsEnd',
         QueuesApart', WiresApart', WiresFromQueues', QueuesGain, WiresGain, StaysNew, MailMoves
  PROVE  RoutesInv'
<1>1. PlayersStart /\ QueuesFit /\ WiresFit /\ TablesFit /\ NewUnused /\ MailFits /\ HeardFits
  BY DEF RoutesInv
<1>2. QueuesFit'
  <2>1. ASSUME NEW x \in Relay, NEW i \in 1..Len(inbox'[x]) PROVE QueueFits(x, inbox[x][i])'
    <3>1. PICK m : m = inbox'[x][i]
      OBVIOUS
    <3>2. CASE \E j \in 1..Len(inbox[x]) : m = inbox[x][j]
      <4>1. QueueFits(x, m)
        BY <1>1, <3>2 DEF QueuesFit
      <4>2. m.msg = "AddPeer" => m.peer \notin DOMAIN tables'[x].peers
        BY <4>1 DEF QueueFits
      <4>3. QueueFits(x, m)'
        BY <1>1, <4>1, <4>2, SteadyQueue
      <4>4. QED
        BY <3>1, <4>3
    <3>3. CASE QueueFits(x, m)'
      BY <3>1, <3>3
    <3>4. QED
      BY <3>1, <3>2, <3>3 DEF QueuesGain
  <2>2. QED
    BY <2>1 DEF QueuesFit
<1>3. WiresFit'
  <2>1. ASSUME NEW h \in Handle, NEW i \in 1..Len(wire'[h]) PROVE Fits(h, wire[h][i])'
    <3>1. PICK m : m = wire'[h][i]
      OBVIOUS
    <3>2. CASE \E j \in 1..Len(wire[h]) : m = wire[h][j]
      <4>1. Fits(h, m)
        BY <1>1, <3>2 DEF WiresFit
      <4>2. Fits(h, m)'
        BY <1>1, <4>1, SteadyFits
      <4>3. QED
        BY <3>1, <4>2
    <3>3. CASE Fits(h, m)'
      BY <3>1, <3>3
    <3>4. QED
      BY <3>1, <3>2, <3>3 DEF WiresGain
  <2>2. QED
    BY <2>1 DEF WiresFit
<1>4. TablesFit'
  <2>1. ASSUME NEW x \in Relay PROVE TableFits(x, tables[x])'
    <3>1. PICK s : s = tables[x]
      OBVIOUS
    <3>2. TableFits(x, s)
      BY <1>1, <3>1 DEF TablesFit
    <3>3. TableFits(x, s)'
      BY <3>2, SteadyTables
    <3>4. QED
      BY <3>1, <3>3
  <2>2. QED
    BY <2>1 DEF TablesFit
<1>5. NewUnused'
  <2>1. ASSUME NEW h \in Handle, ends'[h] = "new"
        PROVE  /\ Peer(h) \notin DOMAIN tables'[h[2]].peers
               /\ h \in Up => Unused(h)'
               /\ \A i \in 1..Len(inbox'[h[2]]) : inbox'[h[2]][i].msg = "AddPeer" => inbox'[h[2]][i].handle # h
    <3>1. ends[h] = "new"
      BY <2>1 DEF StaysNew
    <3>2. /\ Peer(h) \notin DOMAIN tables[h[2]].peers /\ (h \in Up => Unused(h))
          /\ \A i \in 1..Len(inbox[h[2]]) : inbox[h[2]][i].msg = "AddPeer" => inbox[h[2]][i].handle # h
      BY <1>1, <3>1 DEF NewUnused
    <3>3. h \in Up => Unused(h)'
      BY <3>2 DEF Unused
    <3>4. \A i \in 1..Len(inbox'[h[2]]) : inbox'[h[2]][i].msg = "AddPeer" => inbox'[h[2]][i].handle # h
      BY <2>1, <3>2 DEF StaysNew
    <3>5. QED
      BY <3>2, <3>3, <3>4
  <2>2. QED
    BY <2>1 DEF NewUnused
<1>6. \A x, y : Paired(x, y)' <=> Paired(x, y)
  BY SteadyPaired
<1>7. MailFits'
  <2>1. ASSUME NEW x \in Conn, NEW i \in 1..Len(mail'[x]), mail'[x][i] # NoData
        PROVE  Paired(x, mail[x][i][1])'
    <3>1. PICK v : v = mail'[x][i][1]
      OBVIOUS
    <3>2. PICK j \in 1..Len(mail[x]) : mail'[x][i] = mail[x][j]
      BY DEF MailMoves
    <3>3. Paired(x, v)
      BY <1>1, <2>1, <3>1, <3>2 DEF MailFits
    <3>4. QED
      BY <1>6, <3>1, <3>3
  <2>2. QED
    BY <2>1 DEF MailFits
<1>8. HeardFits'
  BY <1>1, <1>6 DEF HeardFits, MailFits, MailMoves
<1>9. QED
  BY <1>2, <1>3, <1>4, <1>5, <1>7, <1>8 DEF RoutesInv

\* The queues stay.
LEMMA QueuesKept ==
  ASSUME TypeOK, RoutesInv, inbox' = inbox, \A h \in Handle : WireStep(h), UNCHANGED ends
  PROVE  QueuesApart' /\ WiresApart' /\ WiresFromQueues' /\ QueuesGain /\ StaysNew
<1>1. QueuesApart /\ WiresApart /\ WiresFromQueues
  BY DEF RoutesInv
<1>2. QueuesApart'
  BY <1>1 DEF QueuesApart
<1>3. \A r \in Relay : \A i \in 1..Len(inbox'[r]) : \E j \in 1..Len(inbox[r]) : inbox'[r][i] = inbox[r][j]
  OBVIOUS
<1>4. WiresApart' /\ WiresFromQueues'
  BY <1>1, <1>3, FlightsApart
<1>5. QueuesGain
  BY <1>3 DEF QueuesGain
<1>6. StaysNew
  BY <1>3, Handles DEF StaysNew
<1>7. QED
  BY <1>2, <1>4, <1>5, <1>6

\* A queue takes a message that does not come from a stream.
LEMMA QueuesTake ==
  ASSUME TypeOK, RoutesInv, NEW r \in Relay, NEW m, inbox' = [inbox EXCEPT ![r] = Append(@, m)],
         \A h \in Handle : WireStep(h), m.msg # "Recv", QueueFits(r, m)',
         \A j \in 1..Len(inbox[r]) : ~QueueClash(inbox[r][j], m),
         \A h \in Handle : ends'[h] = "new" => ends[h] = "new" /\ (m.msg # "AddPeer" \/ m.handle # h)
  PROVE  QueuesApart' /\ WiresApart' /\ WiresFromQueues' /\ QueuesGain /\ StaysNew
<1>1. QueuesApart /\ WiresApart /\ WiresFromQueues
  BY DEF RoutesInv
<1>2. /\ QueuesApart'
      /\ \A x \in Relay : \A i \in 1..Len(inbox'[x]) :
           (\E j \in 1..Len(inbox[x]) : inbox'[x][i] = inbox[x][j]) \/ (x = r /\ inbox'[x][i] = m)
  <2>1. /\ TypeOK /\ QueuesApart /\ r \in Relay /\ inbox' = [inbox EXCEPT ![r] = Append(@, m)]
        /\ \A j \in 1..Len(inbox[r]) : ~QueueClash(inbox[r][j], m)
    BY <1>1
  <2>2. QED
    BY ONLY <2>1, QueuesAdded
<1>3. \A x \in Relay : \A i \in 1..Len(inbox'[x]) :
        (\E j \in 1..Len(inbox[x]) : inbox'[x][i] = inbox[x][j]) \/ inbox'[x][i].msg # "Recv"
  BY <1>2
<1>4. WiresApart' /\ WiresFromQueues'
  BY <1>1, <1>3, FlightsApart
<1>5. QueuesGain
  BY <1>2 DEF QueuesGain
<1>6. StaysNew
  BY <1>2, Handles DEF StaysNew
<1>7. QED
  BY <1>2, <1>4, <1>5, <1>6

\* The streams only lose messages.
LEMMA WiresLose ==
  ASSUME \A h \in Handle : Part(wire'[h], wire[h])
  PROVE  WiresGain /\ \A h \in Handle : WireStep(h)
<1>1. ASSUME NEW h \in Handle, NEW i \in 1..Len(wire'[h])
      PROVE  \E j \in 1..Len(wire[h]) : wire'[h][i] = wire[h][j]
  <2>1. PICK f \in [1..Len(wire'[h]) -> 1..Len(wire[h])] :
          \A j \in 1..Len(wire'[h]) : wire'[h][j] = wire[h][f[j]]
    BY DEF Part
  <2>2. f[i] \in 1..Len(wire[h])
    BY <2>1
  <2>3. QED
    BY <2>1, <2>2
<1>2. QED
  BY <1>1 DEF WiresGain, WireStep

\* The streams stay.
LEMMA WiresKept ==
  ASSUME TypeOK, wire' = wire
  PROVE  WiresGain /\ \A h \in Handle : WireStep(h)
<1>1. \A h \in Handle : Part(wire'[h], wire[h])
  BY PartSame DEF TypeOK
<1>2. QED
  BY <1>1, WiresLose

\* A stream takes a message that is not a Connect.
LEMMA WiresTake ==
  ASSUME TypeOK, NEW h, NEW m, wire' = [wire EXCEPT ![h] = Pushed(h, m)],
         h \in Handle => Fits(h, m)', m.type # "Connect"
  PROVE  WiresGain /\ \A g \in Handle : WireStep(g)
<1>1. ASSUME NEW g \in Handle
      PROVE  /\ WireStep(g)
             /\ \A i \in 1..Len(wire'[g]) : \A k :
                  k = wire'[g][i] => (\E j \in 1..Len(wire[g]) : k = wire[g][j]) \/ Fits(g, k)'
  <2>1. wire[g] \in Seq(RelayMessage)
    BY DEF TypeOK
  <2>2. CASE wire'[g] = wire[g]
    BY <2>1, <2>2, PartSame DEF WireStep
  <2>3. CASE g = h /\ wire'[g] = Append(wire[g], m)
    <3>1. NewTo(g, m)
      BY DEF NewTo, Clash, QueueClash, Recv
    <3>2. \A i \in 1..Len(wire'[g]) :
            (i \in 1..Len(wire[g]) /\ wire'[g][i] = wire[g][i]) \/ wire'[g][i] = m
      BY <2>1, <2>3, AppendAt
    <3>3. Fits(g, m)'
      BY <2>3
    <3>4. QED
      BY <2>3, <3>1, <3>2, <3>3 DEF WireStep
  <2>4. wire'[g] = wire[g] \/ (g = h /\ wire'[g] = Append(wire[g], m))
    BY DEF TypeOK, Pushed
  <2>5. QED
    BY <2>2, <2>3, <2>4
<1>2. QED
  BY <1>1 DEF WiresGain

\* The mail stays.
LEMMA MailKept ==
  ASSUME UNCHANGED <<mail, heard>>
  PROVE  MailMoves
BY DEF MailMoves

\* The threads stay.
LEMMA ThreadsKept ==
  ASSUME TypeOK, RoutesInv, UNCHANGED <<conn, route, names>>
  PROVE  Steady /\ RoutesApart' /\ PlayersStart' /\ DialsEnd'
<1>1. NamesGrow /\ \A c \in Conn : Advances(conn[c], conn'[c])
  BY DEF NamesGrow, Advances
<1>2. QED
  BY <1>1, SteadyThreads DEF RoutesInv

\* A thread goes on.
LEMMA ThreadGoesOn ==
  ASSUME TypeOK, RoutesInv, UNCHANGED <<route, names>>, NEW c \in Conn, conn[c].st \notin {"free", "queued"},
         NEW z \in {"waiting", "dialing", "running", "closed"}, conn' = [conn EXCEPT ![c].st = z]
  PROVE  Steady /\ RoutesApart' /\ PlayersStart' /\ DialsEnd'
<1>1. NamesGrow
  BY DEF NamesGrow
<1>2. conn'[c] = [conn[c] EXCEPT !.st = z] /\ \A x \in Conn : x # c => conn'[x] = conn[x]
  BY DEF TypeOK
<1>3. \A x \in Conn : Advances(conn[x], conn'[x])
  BY <1>2 DEF Advances
<1>4. QED
  BY <1>1, <1>3, SteadyThreads DEF RoutesInv

LEMMA EstablishRoutes ==
  ASSUME Inv, RoutesInv, NEW h \in Handle, Establish(h)
  PROVE  RoutesInv'
<1>1. PICK r, m : r = h[2] /\ m = AddPeer(Peer(h), h)
  OBVIOUS
<1>2. /\ ends[h] = "new" /\ ends' = [ends EXCEPT ![h] = "up"]
      /\ inbox' = [inbox EXCEPT ![r] = Append(@, m)]
      /\ UNCHANGED <<tables, wire, names, route, conn, mail, heard>>
  BY <1>1 DEF Establish, history, threads
<1>3. TypeOK /\ r \in Relay /\ m.msg = "AddPeer" /\ m.peer = Peer(h) /\ m.handle = h
  BY <1>1, Handles DEF Inv, AddPeer
<1>4. Steady /\ RoutesApart' /\ PlayersStart' /\ DialsEnd'
  BY <1>2, <1>3, ThreadsKept
<1>5. /\ Peer(h) \notin DOMAIN tables[r].peers /\ (h \in Up => Unused(h))
      /\ \A i \in 1..Len(inbox[r]) : inbox[r][i].msg = "AddPeer" => inbox[r][i].handle # h
  BY <1>1, <1>2 DEF RoutesInv, NewUnused
<1>6. QueueFits(r, m)'
  BY <1>2, <1>3, <1>5 DEF QueueFits, Unused
<1>7. \A j \in 1..Len(inbox[r]) : ~QueueClash(inbox[r][j], m)
  BY <1>3, <1>5 DEF QueueClash
<1>8. \A g \in Handle : ends'[g] = "new" => ends[g] = "new" /\ g # h
  BY <1>2, <1>3 DEF TypeOK
<1>9. WiresGain /\ \A g \in Handle : WireStep(g)
  BY <1>2, <1>3, WiresKept
<1>10. QueuesApart' /\ WiresApart' /\ WiresFromQueues' /\ QueuesGain /\ StaysNew
  BY <1>2, <1>3, <1>6, <1>7, <1>8, <1>9, QueuesTake
<1>11. MailMoves
  BY <1>2, MailKept
<1>12. QED
  BY <1>2, <1>4, <1>9, <1>10, <1>11, OutsideRoutes

LEMMA ReceiveRoutes ==
  ASSUME Inv, RoutesInv, NEW h \in Handle, Receive(h)
  PROVE  RoutesInv'
<1>1. PICK r, p, f, m : r = Peer(h) /\ p = h[2] /\ f = Head(wire[h]) /\ m = Recv(p, f)
  OBVIOUS
<1>2. /\ wire[h] # <<>> /\ wire' = [wire EXCEPT ![h] = Tail(@)]
      /\ inbox' = [inbox EXCEPT ![r] = Append(@, m)]
      /\ UNCHANGED <<tables, ends, names, route, conn, mail, heard>>
  BY <1>1 DEF Receive, history, threads
<1>3. /\ TypeOK /\ r \in Relay /\ m.msg = "Recv" /\ m.peer = p /\ m.message = f /\ Leads(p, r, h)
      /\ QueuesApart /\ WiresApart /\ WiresFromQueues /\ WiresFit /\ PlayersStart
  BY <1>1, Handles DEF Inv, Recv, Leads, RoutesInv
<1>4. Steady /\ RoutesApart' /\ PlayersStart' /\ DialsEnd'
  BY <1>2, <1>3, ThreadsKept
<1>5. \A g \in Handle : wire[g] \in Seq(RelayMessage)
  BY <1>3 DEF TypeOK
<1>6. wire'[h] = Tail(wire[h]) /\ \A g \in Handle : g # h => wire'[g] = wire[g]
  BY <1>2, <1>3 DEF TypeOK
<1>7. /\ 1 \in 1..Len(wire[h]) /\ f = wire[h][1]
      /\ \A i \in 1..Len(wire'[h]) : i + 1 \in 1..Len(wire[h]) /\ i + 1 # 1 /\ wire'[h][i] = wire[h][i + 1]
  <2>1. PICK q \in Seq(RelayMessage) : q = wire[h]
    BY <1>5
  <2>2. q # <<>> /\ wire'[h] = Tail(q) /\ f = Head(q)
    BY <1>1, <1>2, <1>6, <2>1
  <2>3. QED
    BY <2>1, <2>2, TailAt
<1>8. \A g \in Handle : Part(wire'[g], wire[g])
  BY <1>2, <1>5, <1>6, PartTail, PartSame
<1>9. \A g \in Handle : WireStep(g)
  BY <1>8 DEF WireStep
<1>10. WiresGain
  BY <1>8, WiresLose
<1>11. WiresApart'
  BY <1>3, <1>9, WiresMoved DEF WiresApart
<1>12. \A j \in 1..Len(inbox[r]) : ~QueueClash(inbox[r][j], m)
  BY <1>1, <1>3, <1>7, ClashBoth DEF WiresFromQueues
<1>13. /\ QueuesApart'
       /\ \A x \in Relay : \A i \in 1..Len(inbox'[x]) :
            (\E j \in 1..Len(inbox[x]) : inbox'[x][i] = inbox[x][j]) \/ (x = r /\ inbox'[x][i] = m)
  BY <1>2, <1>3, <1>12, QueuesAdded
<1>14. WiresFromQueues'
  <2>1. ASSUME NEW g \in Handle, NEW i \in 1..Len(wire'[g]), NEW j \in 1..Len(inbox'[Peer(g)]),
               QueueClash(Recv(g[2], wire'[g][i]), inbox'[Peer(g)][j])
        PROVE  FALSE
    <3>1. PICK y, k : y = wire'[g][i] /\ k = inbox'[Peer(g)][j]
      OBVIOUS
    <3>2. Peer(g) \in Relay /\ g[2] \in Relay
      BY Handles
    <3>3. Recv(g[2], y).msg = "Recv" /\ Recv(g[2], y).peer = g[2] /\ Recv(g[2], y).message = y
      BY DEF Recv
    <3>4. PICK a \in 1..Len(wire[g]) : y = wire[g][a]
      BY <1>8, <3>1 DEF Part
    <3>5. CASE \E b \in 1..Len(inbox[Peer(g)]) : k = inbox[Peer(g)][b]
      BY <1>3, <2>1, <3>1, <3>4, <3>5 DEF WiresFromQueues
    <3>6. CASE Peer(g) = r /\ k = m
      <4>1. g[2] = p /\ Clash(y, f)
        BY <1>3, <2>1, <3>1, <3>3, <3>6 DEF QueueClash
      <4>2. g = h
        BY <1>3, <3>6, <4>1, LeadsBack DEF Leads
      <4>3. i + 1 \in 1..Len(wire[h]) /\ i + 1 # 1 /\ y = wire[h][i + 1]
        BY <1>7, <3>1, <4>2
      <4>4. QED
        BY <1>3, <1>7, <4>1, <4>3 DEF WiresApart
    <3>7. QED
      BY <1>13, <3>1, <3>2, <3>5, <3>6
  <2>2. QED
    BY <2>1 DEF WiresFromQueues
<1>15. QueueFits(r, m)'
  <2>1. Fits(h, f)
    BY <1>3, <1>7 DEF WiresFit
  <2>2. Fits(h, f)'
    BY <1>3, <1>4, <2>1, SteadyFits
  <2>3. \A g : Leads(p, r, g) => g = h
    BY <1>3, LeadsBack
  <2>4. QED
    BY <1>3, <2>2, <2>3 DEF QueueFits
<1>16. QueuesGain
  BY <1>13, <1>15 DEF QueuesGain
<1>17. StaysNew
  BY <1>2, <1>3, <1>13, Handles DEF StaysNew
<1>18. MailMoves
  BY <1>2, MailKept
<1>19. QED
  BY <1>2, <1>4, <1>10, <1>11, <1>13, <1>14, <1>16, <1>17, <1>18, OutsideRoutes

LEMMA DropRoutes ==
  ASSUME Inv, RoutesInv, NEW h \in Handle, Drop(h)
  PROVE  RoutesInv'
<1>1. PICK r, m, k : r = h[2] /\ m = RemovePeer(Peer(h)) /\ k = Other(h)
  OBVIOUS
<1>2. /\ ends' = [ends EXCEPT ![h] = "dropped"] /\ inbox' = [inbox EXCEPT ![r] = Append(@, m)]
      /\ UNCHANGED <<tables, names, route, conn, mail, heard>>
  BY <1>1 DEF Drop, history, threads
<1>3. PICK n \in 0..Len(wire[h]) : wire' = [wire EXCEPT ![h] = SubSeq(@, 1, n), ![k] = <<>>]
  BY <1>1 DEF Drop
<1>4. TypeOK /\ r \in Relay /\ m.msg = "RemovePeer" /\ k \in Handle /\ k # h
  BY <1>1, Handles DEF Inv, RemovePeer
<1>5. Steady /\ RoutesApart' /\ PlayersStart' /\ DialsEnd'
  BY <1>2, <1>4, ThreadsKept
<1>6. \A g \in Handle : wire[g] \in Seq(RelayMessage)
  BY <1>4 DEF TypeOK
<1>7. /\ wire'[h] = SubSeq(wire[h], 1, n) /\ wire'[k] = <<>>
      /\ \A g \in Handle : g # h /\ g # k => wire'[g] = wire[g]
  BY <1>3, <1>4 DEF TypeOK
<1>8. \A g \in Handle : Part(wire'[g], wire[g])
  <2>1. Part(wire'[h], wire[h])
    BY <1>6, <1>7, PartSub
  <2>2. Part(wire'[k], wire[k])
    BY <1>7, PartEmpty
  <2>3. \A g \in Handle : g # h /\ g # k => Part(wire'[g], wire[g])
    BY <1>6, <1>7, PartSame
  <2>4. QED
    BY <2>1, <2>2, <2>3
<1>9. WiresGain /\ \A g \in Handle : WireStep(g)
  BY <1>8, WiresLose
<1>10. QueueFits(r, m)' /\ \A j \in 1..Len(inbox[r]) : ~QueueClash(inbox[r][j], m)
  BY <1>4 DEF QueueFits, QueueClash
<1>11. \A g \in Handle : ends'[g] = "new" => ends[g] = "new"
  BY <1>2, <1>4 DEF TypeOK
<1>12. QueuesApart' /\ WiresApart' /\ WiresFromQueues' /\ QueuesGain /\ StaysNew
  BY <1>2, <1>4, <1>9, <1>10, <1>11, QueuesTake
<1>13. MailMoves
  BY <1>2, MailKept
<1>14. QED
  BY <1>2, <1>5, <1>9, <1>12, <1>13, OutsideRoutes

LEMMA ReleaseRoutes ==
  ASSUME Inv, RoutesInv, NEW h \in Handle, Release(h)
  PROVE  RoutesInv'
<1>1. /\ ends' = [ends EXCEPT ![h] = "closed"]
      /\ UNCHANGED <<tables, inbox, wire, names, route, conn, mail, heard>>
  BY DEF Release, history, threads
<1>2. TypeOK /\ QueuesApart /\ WiresApart /\ WiresFromQueues
  BY DEF Inv, RoutesInv
<1>3. Steady /\ RoutesApart' /\ PlayersStart' /\ DialsEnd'
  BY <1>1, <1>2, ThreadsKept
<1>4. QueuesApart' /\ WiresApart' /\ WiresFromQueues'
  BY <1>1, <1>2 DEF QueuesApart, WiresApart, WiresFromQueues
<1>5. \A g \in Handle : ends'[g] = "new" => ends[g] = "new"
  BY <1>1, <1>2 DEF TypeOK
<1>6. QueuesGain /\ WiresGain /\ StaysNew
  BY <1>1, <1>5 DEF QueuesGain, WiresGain, StaysNew
<1>7. MailMoves
  BY <1>1, MailKept
<1>8. QED
  BY <1>1, <1>3, <1>4, <1>6, <1>7, OutsideRoutes

LEMMA AdvertiseRoutes ==
  ASSUME Inv, RoutesInv, NEW g \in LanGame, Advertise(g)
  PROVE  RoutesInv'
<1>1. PICK r, m : r = g.ip /\ m = AddLocalGame([ip |-> r, port |-> 1], g.port)
  OBVIOUS
<1>2. inbox' = [inbox EXCEPT ![r] = Append(@, m)] /\ UNCHANGED <<tables, ends, wire, names, route, conn, mail, heard>>
  BY <1>1 DEF Advertise, history, threads
<1>3. TypeOK /\ r \in Relay /\ m.msg = "AddLocalGame" /\ m.from.ip = r
  BY <1>1, NetworkAssumption DEF Inv, AddLocalGame
<1>4. Steady /\ RoutesApart' /\ PlayersStart' /\ DialsEnd'
  BY <1>2, <1>3, ThreadsKept
<1>5. QueueFits(r, m)' /\ \A j \in 1..Len(inbox[r]) : ~QueueClash(inbox[r][j], m)
  BY <1>3 DEF QueueFits, QueueClash
<1>6. WiresGain /\ \A h \in Handle : WireStep(h)
  BY <1>2, <1>3, WiresKept
<1>7. QueuesApart' /\ WiresApart' /\ WiresFromQueues' /\ QueuesGain /\ StaysNew
  BY <1>2, <1>3, <1>5, <1>6, QueuesTake
<1>8. MailMoves
  BY <1>2, MailKept
<1>9. QED
  BY <1>2, <1>4, <1>6, <1>7, <1>8, OutsideRoutes

\* A player connects: it has no way yet, and nobody waits for it.
LEMMA ConnectRoutes ==
  ASSUME Inv, RoutesInv, NEW c \in Player, NEW r \in Relay, NEW l \in DOMAIN tables[r].games, Connect(c, r, l)
  PROVE  RoutesInv'
<1>1. PICK m, g, t : /\ m = AcceptGameConnection(l, c) /\ g = names[r][l]
                     /\ t = [st |-> "queued", relay |-> r, game |-> g]
  OBVIOUS
<1>2. /\ conn[c].st = "free" /\ conn' = [conn EXCEPT ![c] = t] /\ inbox' = [inbox EXCEPT ![r] = Append(@, m)]
      /\ UNCHANGED <<tables, ends, wire, names, route, mail, heard>>
  BY <1>1 DEF Connect, history
<1>3. /\ TypeOK /\ m.msg = "AcceptGameConnection" /\ m.conn = c /\ m.game = l
      /\ RoutesApart /\ PlayersStart /\ DialsEnd /\ QueuesFit
  BY <1>1 DEF Inv, RoutesInv, AcceptGameConnection
<1>4. /\ c \in Conn /\ \A d \in Dialed : d \in Conn /\ d # c
      /\ \A d \in Player : d \in Conn
  BY NetworkAssumption DEF Conn
<1>5. conn'[c] = t /\ \A x \in Conn : x # c => conn'[x] = conn[x]
  BY <1>2, <1>3, <1>4 DEF TypeOK
<1>6. route[c] = <<>>
  BY <1>2, <1>3 DEF PlayersStart
<1>7. \A s, n : Come(s, n)' = Come(s, n) /\ c \notin Come(s, n)
  BY <1>2, <1>6 DEF Come
<1>8. \A d, s, n : DialedFor(d, s, n)' <=> DialedFor(d, s, n)
  BY <1>4, <1>5 DEF DialedFor
<1>9. \A d, x : Serves(d, x)' <=> Serves(d, x)
  BY <1>4, <1>5, <1>7 DEF Serves
<1>10. Steady
  <2>1. NamesGrow
    BY <1>2 DEF NamesGrow
  <2>2. \A x \in Player : conn[x].st # "free" => x # c /\ conn'[x] = conn[x]
    BY <1>2, <1>4, <1>5
  <2>3. \A x \in Player : conn[x].st = "queued" => conn'[x] = conn[x]
    BY <2>2
  <2>4. QED
    BY <1>2, <1>8, <1>9, <2>1, <2>2, <2>3 DEF Steady
<1>11. RoutesApart'
  BY <1>2, <1>3 DEF RoutesApart
<1>12. PlayersStart'
  <2>1. ASSUME NEW x \in Player
        PROVE  /\ conn'[x].st \in {"free", "queued"} => route'[x] = <<>>
               /\ "cid" \in DOMAIN conn'[x] => conn'[x].tx \in Up /\ Hop(x, conn[x].tx[1], conn[x].cid.id)'
    <3>1. CASE x = c
      <4>1. "cid" \notin DOMAIN t
        BY <1>1
      <4>2. QED
        BY <1>2, <1>5, <1>6, <3>1, <4>1
    <3>2. CASE x # c
      <4>1. conn'[x] = conn[x]
        BY <1>4, <1>5, <3>2
      <4>2. QED
        BY <1>2, <1>3, <4>1 DEF PlayersStart, Hop
    <3>3. QED
      BY <3>1, <3>2
  <2>2. QED
    BY <2>1 DEF PlayersStart
<1>13. DialsEnd'
  <2>1. ASSUME NEW d \in Dialed, conn'[d].st # "free"
        PROVE  ("cid" \in DOMAIN conn[d] /\ DialEnds(d, conn[d].tx[1], conn[d].cid.id))'
    <3>1. conn'[d] = conn[d]
      BY <1>4, <1>5
    <3>2. PICK s, n : s = conn[d].tx[1] /\ n = conn[d].cid.id
      OBVIOUS
    <3>3. "cid" \in DOMAIN conn[d] /\ DialEnds(d, s, n)
      BY <1>3, <2>1, <3>1, <3>2 DEF DialsEnd
    <3>4. PICK x \in Come(s, n) : conn[x].game = conn[d].game
      BY <3>3 DEF DialEnds
    <3>5. x \in Player /\ x # c
      BY <1>7, <3>4 DEF Come
    <3>6. conn'[x].game = conn'[d].game /\ x \in Come(s, n)'
      BY <1>4, <1>5, <1>7, <3>1, <3>4, <3>5
    <3>7. DialEnds(d, s, n)'
      BY <1>8, <3>1, <3>3, <3>6 DEF DialEnds
    <3>8. QED
      BY <3>1, <3>2, <3>3, <3>7
  <2>2. QED
    BY <2>1 DEF DialsEnd
<1>14. QueueFits(r, m)'
  <2>1. l \in DOMAIN names[r]
    BY DEF Inv, GameIdsAgree
  <2>2. conn'[c].st = "queued" /\ conn'[c].relay = r /\ conn'[c].game = names'[r][l]
    BY <1>1, <1>2, <1>5
  <2>3. QED
    BY <1>2, <1>3, <2>1, <2>2 DEF QueueFits
<1>15. \A j \in 1..Len(inbox[r]) : ~QueueClash(inbox[r][j], m)
  <2>1. SUFFICES ASSUME NEW j \in 1..Len(inbox[r]), QueueClash(inbox[r][j], m) PROVE FALSE
    OBVIOUS
  <2>2. PICK k : k = inbox[r][j]
    OBVIOUS
  <2>3. k.msg = "AcceptGameConnection" /\ k.conn = c
    BY <1>3, <2>1, <2>2 DEF QueueClash
  <2>4. QueueFits(r, k)
    BY <1>3, <2>2 DEF QueuesFit
  <2>5. QED
    BY <1>2, <2>3, <2>4 DEF QueueFits
<1>16. WiresGain /\ \A h \in Handle : WireStep(h)
  BY <1>2, <1>3, WiresKept
<1>17. QueuesApart' /\ WiresApart' /\ WiresFromQueues' /\ QueuesGain /\ StaysNew
  BY <1>2, <1>3, <1>14, <1>15, <1>16, QueuesTake
<1>18. MailMoves
  BY <1>2, MailKept
<1>19. QED
  BY <1>2, <1>10, <1>11, <1>12, <1>13, <1>16, <1>17, <1>18, OutsideRoutes

\* The thread of connect_local registers its connection under the id it was
\* dialed for.
LEMMA DialOkRoutes ==
  ASSUME Inv, RoutesInv, NEW c \in Dialed, DialOk(c)
  PROVE  RoutesInv'
<1>1. PICK r, k, cid, m : /\ r = conn[c].relay /\ k = conn[c].tx /\ cid = conn[c].cid
                          /\ m = AddGameConnection(Peer(k), cid, c)
  OBVIOUS
<1>2. /\ conn[c].st = "dialing" /\ conn' = [conn EXCEPT ![c].st = "running"]
      /\ inbox' = [inbox EXCEPT ![r] = Append(@, m)]
      /\ UNCHANGED <<tables, ends, wire, names, route, mail, heard>>
  BY <1>1 DEF DialOk, history
<1>3. /\ TypeOK /\ m.msg = "AddGameConnection" /\ m.peer = Peer(k) /\ m.cid = cid /\ m.conn = c
      /\ DialsEnd /\ c \in Conn
  BY <1>1 DEF Inv, RoutesInv, AddGameConnection, Conn
<1>4. Steady /\ RoutesApart' /\ PlayersStart' /\ DialsEnd'
  BY <1>2, <1>3, ThreadGoesOn
<1>5. r \in Relay /\ k \in Handle
  <2>1. conn[c] \in Thread
    BY <1>3 DEF TypeOK
  <2>2. QED
    BY <1>1, <1>2, <2>1, ThreadParts
<1>6. k \notin Up /\ k[2] = r /\ DialedFor(c, k[1], cid.id)
  <2>1. DialEnds(c, k[1], cid.id)
    BY <1>1, <1>2, <1>3 DEF DialsEnd
  <2>2. QED
    BY <1>1, <1>2, <2>1 DEF DialEnds, DialedFor
<1>7. QueueFits(r, m)'
  <2>1. Leads(r, Peer(k), k)
    BY <1>5, <1>6 DEF Leads
  <2>2. PICK p, s, n : p = Peer(k) /\ s = k[1] /\ n = cid.id
    OBVIOUS
  <2>3. DialedFor(c, s, n)'
    BY <1>4, <1>6, <2>2 DEF Steady
  <2>4. \A g : Leads(r, p, g) => g = k
    BY <2>1, <2>2, LeadsBack
  <2>5. \A g \in Handle : Leads(r, p, g) => g \notin Up /\ DialedFor(c, g[1], n)'
    <3>1. ASSUME NEW g \in Handle, Leads(r, p, g) PROVE g \notin Up /\ DialedFor(c, g[1], n)'
      <4>1. g = k /\ g[1] = s
        BY <2>2, <2>4, <3>1
      <4>2. QED
        BY <1>6, <2>3, <4>1
    <3>2. QED
      BY <3>1
  <2>6. QED
    BY <1>3, <2>2, <2>5 DEF QueueFits
<1>8. \A j \in 1..Len(inbox[r]) : ~QueueClash(inbox[r][j], m)
  BY <1>3 DEF QueueClash
<1>9. WiresGain /\ \A h \in Handle : WireStep(h)
  BY <1>2, <1>3, WiresKept
<1>10. QueuesApart' /\ WiresApart' /\ WiresFromQueues' /\ QueuesGain /\ StaysNew
  BY <1>2, <1>3, <1>5, <1>7, <1>8, <1>9, QueuesTake
<1>11. MailMoves
  BY <1>2, MailKept
<1>12. QED
  BY <1>2, <1>4, <1>9, <1>10, <1>11, OutsideRoutes

\* A thread ends.
LEMMA EndRoutes ==
  ASSUME Inv, RoutesInv, NEW c \in Conn, conn[c].st \notin {"free", "queued"}, End(c)
  PROVE  RoutesInv'
<1>1. PICK k, m : k = conn[c].tx /\ m = RelayCloseConnection(conn[c].cid)
  OBVIOUS
<1>2. /\ conn' = [conn EXCEPT ![c].st = "closed"] /\ mail' = [mail EXCEPT ![c] = <<>>]
      /\ wire' = [wire EXCEPT ![k] = Pushed(k, m)]
      /\ UNCHANGED <<tables, inbox, ends, names, route, heard>>
  BY <1>1 DEF End, history
<1>3. TypeOK /\ m.type = "CloseConnection"
  BY <1>1 DEF Inv, RelayCloseConnection
<1>4. Steady /\ RoutesApart' /\ PlayersStart' /\ DialsEnd'
  BY <1>2, <1>3, ThreadGoesOn
<1>5. Fits(k, m)'
  BY <1>3 DEF Fits
<1>6. WiresGain /\ \A h \in Handle : WireStep(h)
  BY <1>2, <1>3, <1>5, WiresTake
<1>7. QueuesApart' /\ WiresApart' /\ WiresFromQueues' /\ QueuesGain /\ StaysNew
  BY <1>2, <1>3, <1>6, QueuesKept
<1>8. MailMoves
  <2>1. mail'[c] = <<>> /\ \A x \in Conn : x # c => mail'[x] = mail[x]
    BY <1>2, <1>3 DEF TypeOK
  <2>2. 1..Len(mail'[c]) = {}
    BY <2>1
  <2>3. QED
    BY <1>2, <2>1, <2>2 DEF MailMoves
<1>9. QED
  BY <1>2, <1>4, <1>6, <1>7, <1>8, OutsideRoutes

\* A thread writes what is next in its mail.
LEMMA WriteRoutes ==
  ASSUME Inv, RoutesInv, NEW c \in Conn, Write(c)
  PROVE  RoutesInv'
<1>1. /\ conn[c].st \in {"waiting", "running"} /\ mail[c] # <<>>
      /\ conn' = [conn EXCEPT ![c].st = "running"] /\ mail' = [mail EXCEPT ![c] = Tail(@)]
      /\ heard' = [heard EXCEPT ![c] = IF Head(mail[c]) = NoData THEN @ ELSE Append(@, Head(mail[c]))]
      /\ UNCHANGED <<tables, inbox, ends, wire, names, route>>
  BY DEF Write, net, history
<1>2. TypeOK
  BY DEF Inv
<1>3. Steady /\ RoutesApart' /\ PlayersStart' /\ DialsEnd'
  BY <1>1, <1>2, ThreadGoesOn
<1>4. WiresGain /\ \A h \in Handle : WireStep(h)
  BY <1>1, <1>2, WiresKept
<1>5. QueuesApart' /\ WiresApart' /\ WiresFromQueues' /\ QueuesGain /\ StaysNew
  BY <1>1, <1>2, <1>4, QueuesKept
<1>6. MailMoves
  <2>1. PICK p, q : p = mail[c] /\ q = heard[c] /\ p \in Seq(Data) /\ q \in Seq(Data)
    BY <1>2 DEF TypeOK
  <2>2. /\ mail'[c] = Tail(p) /\ \A x \in Conn : x # c => mail'[x] = mail[x] /\ heard'[x] = heard[x]
        /\ heard'[c] = q \/ (Head(p) # NoData /\ heard'[c] = Append(q, Head(p)))
    BY <1>1, <1>2, <2>1 DEF TypeOK
  <2>3. /\ 1 \in 1..Len(p) /\ Head(p) = p[1]
        /\ \A i \in 1..Len(Tail(p)) : i + 1 \in 1..Len(p) /\ Tail(p)[i] = p[i + 1]
    BY <1>1, <2>1, TailAt
  <2>4. \A i \in 1..Len(Append(q, Head(p))) :
          (i \in 1..Len(q) /\ Append(q, Head(p))[i] = q[i]) \/ Append(q, Head(p))[i] = Head(p)
    BY <2>1, AppendAt
  <2>5. \A i \in 1..Len(mail'[c]) : \E j \in 1..Len(p) : mail'[c][i] = p[j]
    BY <2>2, <2>3
  <2>6. \A i \in 1..Len(heard'[c]) :
          \/ \E j \in 1..Len(q) : heard'[c][i] = q[j]
          \/ heard'[c][i] # NoData /\ \E j \in 1..Len(p) : heard'[c][i] = p[j]
    <3>1. CASE heard'[c] = q
      BY <3>1
    <3>2. CASE Head(p) # NoData /\ heard'[c] = Append(q, Head(p))
      BY <2>3, <2>4, <3>2
    <3>3. QED
      BY <2>2, <3>1, <3>2
  <2>7. ASSUME NEW x \in Conn, NEW i \in 1..Len(mail'[x])
        PROVE  \E j \in 1..Len(mail[x]) : mail'[x][i] = mail[x][j]
    <3>1. CASE x = c
      BY <2>1, <2>5, <2>7, <3>1
    <3>2. CASE x # c
      BY <2>2, <2>7, <3>2
    <3>3. QED
      BY <3>1, <3>2
  <2>8. ASSUME NEW x \in Conn, NEW i \in 1..Len(heard'[x])
        PROVE  \/ \E j \in 1..Len(heard[x]) : heard'[x][i] = heard[x][j]
               \/ heard'[x][i] # NoData /\ \E j \in 1..Len(mail[x]) : heard'[x][i] = mail[x][j]
    <3>1. CASE x = c
      BY <2>1, <2>6, <2>8, <3>1
    <3>2. CASE x # c
      BY <2>2, <2>8, <3>2
    <3>3. QED
      BY <3>1, <3>2
  <2>9. QED
    BY <2>7, <2>8 DEF MailMoves
<1>7. QED
  BY <1>1, <1>3, <1>4, <1>5, <1>6, OutsideRoutes

\* A thread passes on what it read: a player's data goes up on the player's
\* way, and that of a game down on it.
LEMMA ReadRoutes ==
  ASSUME Inv, RoutesInv, NEW c \in Conn, Read(c)
  PROVE  RoutesInv'
<1>1. TypeOK /\ conn[c].st = "running" /\ PlayersStart /\ DialsEnd
  BY DEF Inv, RoutesInv, Read
<1>2. CASE conn[c].tx \notin Live
  <2>1. End(c)
    BY <1>2 DEF Read
  <2>2. QED
    BY <1>1, <2>1, EndRoutes
<1>3. CASE conn[c].tx \in Live
  <2>1. PICK k, cid, m : k = conn[c].tx /\ cid = conn[c].cid /\ m = RelayData(cid, <<c, sent[c] + 1>>)
    OBVIOUS
  <2>2. /\ wire' = [wire EXCEPT ![k] = Pushed(k, m)]
        /\ UNCHANGED <<tables, inbox, ends, conn, mail, heard, names, route>>
    BY <1>3, <2>1 DEF Read, history
  <2>3. m.type = "Data" /\ m.connection_id = cid.id /\ m.data[1] = c
    BY <2>1 DEF RelayData
  <2>4. Steady /\ RoutesApart' /\ PlayersStart' /\ DialsEnd'
    BY <1>1, <2>2, ThreadsKept
  <2>5. k \in Handle /\ "cid" \in DOMAIN conn[c]
    <3>1. conn[c] \in Thread
      BY <1>1 DEF TypeOK
    <3>2. QED
      BY <1>1, <2>1, <3>1 DEF Thread
  <2>6. DataFits(k, m)
    <3>1. CASE c \in Player
      <4>1. k \in Up /\ Hop(c, k[1], cid.id)
        BY <1>1, <2>1, <2>5, <3>1 DEF PlayersStart
      <4>2. QED
        BY <2>3, <3>1, <4>1 DEF DataFits
    <3>2. CASE c \in Dialed
      <4>1. DialEnds(c, k[1], cid.id)
        BY <1>1, <2>1, <3>2 DEF DialsEnd
      <4>2. k \notin Up /\ \E x : x \in Come(k[1], cid.id)
        BY <2>1, <4>1 DEF DialEnds
      <4>3. PICK x : x \in Come(k[1], cid.id)
        BY <4>2
      <4>4. x \in Player /\ Hop(x, k[1], cid.id)
        BY <1>1, <4>3, ComeHop
      <4>5. Serves(c, x)
        BY <1>1, <2>1, <3>2, <4>3 DEF Serves
      <4>6. QED
        BY <2>3, <4>2, <4>4, <4>5 DEF DataFits
    <3>3. QED
      BY <3>1, <3>2 DEF Conn
  <2>7. Fits(k, m)'
    <3>1. Fits(k, m)
      BY <2>3, <2>6 DEF Fits
    <3>2. QED
      BY <1>1, <2>4, <2>5, <3>1, SteadyFits
  <2>8. WiresGain /\ \A h \in Handle : WireStep(h)
    BY <1>1, <2>2, <2>3, <2>7, WiresTake
  <2>9. QueuesApart' /\ WiresApart' /\ WiresFromQueues' /\ QueuesGain /\ StaysNew
    BY <1>1, <2>2, <2>8, QueuesKept
  <2>10. MailMoves
    BY <2>2, MailKept
  <2>11. QED
    BY <2>2, <2>4, <2>8, <2>9, <2>10, OutsideRoutes
<1>4. QED
  BY <1>2, <1>3

-----------------------------------------------------------------------------
(* The theorems. *)

LEMMA InitRoutes == Init => RoutesInv
<1> SUFFICES ASSUME Init PROVE RoutesInv
  OBVIOUS
<1>1. /\ \A c \in Player : route[c] = <<>> /\ Len(route[c]) = 0 /\ c \in Conn
      /\ \A c \in Conn : conn[c] = [st |-> "free"] /\ mail[c] = <<>> /\ heard[c] = <<>>
      /\ \A d \in Dialed : d \in Conn
  BY DEF Init, Conn
<1>2. \A c \in Conn : conn[c].st = "free" /\ "cid" \notin DOMAIN conn[c]
  BY <1>1
<1>3. \A c \in Player : 1..Len(route[c]) = {}
  BY <1>1
<1>4. RoutesApart /\ PlayersStart /\ DialsEnd
  BY <1>1, <1>2, <1>3 DEF RoutesApart, PlayersStart, DialsEnd
<1>5. /\ \A r \in Relay : 1..Len(inbox[r]) = {}
      /\ \A h \in Handle : 1..Len(wire[h]) = {}
      /\ \A c \in Conn : 1..Len(mail[c]) = {} /\ 1..Len(heard[c]) = {}
  BY DEF Init
<1>6. QueuesFit /\ WiresFit /\ QueuesApart /\ WiresApart /\ WiresFromQueues /\ MailFits /\ HeardFits
  BY <1>5, Handles DEF QueuesFit, WiresFit, QueuesApart, WiresApart, WiresFromQueues, MailFits, HeardFits
<1>7. \A r \in Relay : /\ DOMAIN tables[r].peers = {} /\ DOMAIN tables[r].local_connections = {}
                       /\ DOMAIN tables[r].relayed_connections = {} /\ DOMAIN tables[r].games = {}
  BY DEF Init, NewRelay, EmptyMap
<1>8. TablesFit
  BY <1>7 DEF TablesFit, TableFits
<1>9. NewUnused
  BY <1>3, <1>5, <1>7, Handles DEF NewUnused, Unused
<1>10. QED
  BY <1>4, <1>6, <1>8, <1>9 DEF RoutesInv

LEMMA NextRoutes == Inv /\ RoutesInv /\ [Next]_vars => RoutesInv'
<1> SUFFICES ASSUME Inv, RoutesInv, [Next]_vars PROVE RoutesInv'
  OBVIOUS
<1>1. ASSUME NEW h \in Handle, Establish(h) \/ Receive(h) \/ Drop(h) \/ Release(h) PROVE RoutesInv'
  BY <1>1, EstablishRoutes, ReceiveRoutes, DropRoutes, ReleaseRoutes
<1>2. ASSUME NEW r \in Relay, Run(r) PROVE RoutesInv'
  BY <1>2, RunPeerRoutes, RunAddLocalGameRoutes, RunGameRoutes, RunConnectRoutes, RunDataRoutes,
     RunCloseConnectionRoutes, RunAcceptGameConnectionRoutes, RunAddGameConnectionRoutes DEF Run
<1>3. ASSUME NEW g \in LanGame, Advertise(g) PROVE RoutesInv'
  BY <1>3, AdvertiseRoutes
<1>4. ASSUME NEW c \in Player, NEW r \in Relay, NEW l \in DOMAIN tables[r].games, Connect(c, r, l)
      PROVE  RoutesInv'
  BY <1>4, ConnectRoutes
<1>5. ASSUME NEW c \in Dialed, DialOk(c) \/ DialFail(c) PROVE RoutesInv'
  <2>1. c \in Conn
    BY DEF Conn
  <2>2. CASE DialOk(c)
    BY <2>2, DialOkRoutes
  <2>3. CASE DialFail(c)
    BY <2>1, <2>3, EndRoutes DEF DialFail
  <2>4. QED
    BY <1>5, <2>2, <2>3
<1>6. ASSUME NEW c \in Conn, Write(c) \/ Read(c) \/ Eof(c) \/ Disconnected(c) PROVE RoutesInv'
  <2>1. CASE Eof(c)
    BY <2>1, EndRoutes DEF Eof
  <2>2. CASE Disconnected(c)
    BY <2>2, EndRoutes DEF Disconnected
  <2>3. QED
    BY <1>6, <2>1, <2>2, WriteRoutes, ReadRoutes
<1>7. CASE UNCHANGED vars
  <2>1. /\ UNCHANGED <<tables, inbox, ends, wire, conn, mail, heard, names, route>> /\ TypeOK
        /\ QueuesApart /\ WiresApart /\ WiresFromQueues
    BY <1>7 DEF vars, Inv, RoutesInv
  <2>2. Steady /\ RoutesApart' /\ PlayersStart' /\ DialsEnd'
    BY <2>1, ThreadsKept
  <2>3. WiresGain /\ \A h \in Handle : WireStep(h)
    BY <2>1, WiresKept
  <2>4. QueuesApart' /\ WiresApart' /\ WiresFromQueues' /\ QueuesGain /\ StaysNew
    BY <2>1, <2>3, QueuesKept
  <2>5. MailMoves
    BY <2>1, MailKept
  <2>6. QED
    BY <2>1, <2>2, <2>3, <2>4, <2>5, OutsideRoutes
<1>8. QED
  BY <1>1, <1>2, <1>3, <1>4, <1>5, <1>6, <1>7 DEF Next

\* Two ends that hear each other are the ends of one way.
LEMMA RoutesMatch == Inv /\ RoutesInv => EndsMatch
<1> SUFFICES ASSUME Inv, RoutesInv, NEW c \in Conn, NEW d \in Conn, heard[c] # <<>>, heard[c][1][1] = d
             PROVE  /\ c \in Player <=> d \in Dialed
                    /\ conn[c].game = conn[d].game
                    /\ heard[d] # <<>> => heard[d][1][1] = c
  BY DEF EndsMatch
<1>1. TypeOK /\ RoutesApart /\ DialsEnd /\ HeardFits
  BY DEF Inv, RoutesInv
<1>2. \A x \in Conn : heard[x] # <<>> => Paired(x, heard[x][1][1])
  <2>1. ASSUME NEW x \in Conn, heard[x] # <<>> PROVE 1 \in 1..Len(heard[x])
    <3>1. PICK q \in Seq(Data) : q = heard[x]
      BY <1>1 DEF TypeOK
    <3>2. 1 \in 1..Len(q)
      BY <2>1, <3>1
    <3>3. QED
      BY <3>1, <3>2
  <2>2. QED
    BY <1>1, <2>1 DEF HeardFits
<1>3. \A x : ~ (x \in Player /\ x \in Dialed)
  BY NetworkAssumption
\* The game's end is the one the player chose, and each serves the other alone.
<1>4. ASSUME NEW x \in Player, NEW y, Serves(y, x)
      PROVE  /\ y \in Dialed /\ conn[x].game = conn[y].game
             /\ \A z : Serves(y, z) => z = x
             /\ \A z : Serves(z, x) => z = y
  <2>1. PICK s, n : s = conn[y].tx[1] /\ n = conn[y].cid.id
    OBVIOUS
  <2>2. y \in Dialed /\ conn[y].st # "free" /\ x \in Come(s, n)
    BY <1>4, <2>1 DEF Serves
  <2>3. DialEnds(y, s, n)
    BY <1>1, <2>1, <2>2 DEF DialsEnd
  <2>4. \A z \in Come(s, n) : z = x
    BY <1>1, <2>2, ComeAlone, ComeHop
  <2>5. conn[x].game = conn[y].game
    BY <2>3, <2>4 DEF DialEnds
  <2>6. \A z : Serves(y, z) => z = x
    BY <2>1, <2>4 DEF Serves
  <2>7. ASSUME NEW z, Serves(z, x) PROVE z = y
    <3>1. PICK a, b : a = conn[z].tx[1] /\ b = conn[z].cid.id
      OBVIOUS
    <3>2. z \in Dialed /\ conn[z].st # "free" /\ x \in Come(a, b)
      BY <2>7, <3>1 DEF Serves
    <3>3. <<a, b>> = <<s, n>>
      BY <2>2, <3>2 DEF Come
    <3>4. DialedFor(z, s, n)
      BY <3>1, <3>2, <3>3 DEF DialedFor
    <3>5. QED
      BY <2>3, <3>2, <3>4 DEF DialEnds
  <2>8. QED
    BY <2>2, <2>5, <2>6, <2>7
<1>5. CASE c \in Player
  <2>1. Serves(d, c) /\ d \in Dialed /\ d \notin Player
    BY <1>2, <1>3, <1>5 DEF Paired, Serves
  <2>2. heard[d] # <<>> => Serves(d, heard[d][1][1])
    BY <1>2, <2>1 DEF Paired
  <2>3. QED
    BY <1>4, <1>5, <2>1, <2>2
<1>6. CASE c \notin Player
  <2>1. Serves(c, d)
    BY <1>2, <1>6 DEF Paired
  <2>2. d \in Player /\ d \notin Dialed
    BY <1>3, <2>1 DEF Serves, Come
  <2>3. heard[d] # <<>> => Serves(heard[d][1][1], d)
    BY <1>2, <2>2 DEF Paired
  <2>4. QED
    BY <1>4, <1>6, <2>1, <2>2, <2>3
<1>7. QED
  BY <1>5, <1>6

\* Where connections are opened from one end of every session only, the ids
\* that relays give out and translate never mix up two connections, whatever
\* else happens to sessions, dials and sockets, and however long the way is.
THEOREM WaysApart == Spec => []RoutesInv
<1>1. Init => Inv /\ RoutesInv
  BY InitInv, InitRoutes
<1>2. Inv /\ RoutesInv /\ [Next]_vars => (Inv /\ RoutesInv)'
  BY NextInv, NextRoutes
<1>3. QED
  BY <1>1, <1>2, PTL DEF Spec

\* Then who hears a connection is heard by it and by nobody else, and the two
\* are a player and the very game whose listener the player connected to.
THEOREM EndsAlwaysMatch == Spec => []EndsMatch
<1>1. Init => Inv /\ RoutesInv
  BY InitInv, InitRoutes
<1>2. Inv /\ RoutesInv /\ [Next]_vars => (Inv /\ RoutesInv)'
  BY NextInv, NextRoutes
<1>3. QED
  BY <1>1, <1>2, RoutesMatch, PTL DEF Spec

=============================================================================
