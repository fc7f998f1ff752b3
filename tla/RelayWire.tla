------------------------------ MODULE RelayWire ------------------------------
(***************************************************************************)
(* One relay connection, both ends: the handshake, the frames on the TCP   *)
(* stream, the cipher's counters and the lengths.  A frame is a handshake  *)
(* message with the sender's static key, an encrypted message with the     *)
(* value of the sender's counter, or the empty frame of a ping, which      *)
(* bypasses the cipher at both ends.                                       *)
(*                                                                         *)
(* The pattern IX has two messages.  Decryption fails when the counters of *)
(* the two ends differ; nobody tampers with the stream.                    *)
(***************************************************************************)
EXTENDS Naturals, Sequences, FiniteSets

CONSTANTS
  KeyOf,       \* the static key of each end
  Text,        \* the MOTDs of messages
  MaxHanded,   \* bound on the messages handed over at each end
  MaxPings     \* bound on the pings of each end that are still unread

End == {"initiator", "responder"}
Other(e) == IF e = "initiator" THEN "responder" ELSE "initiator"

MAX_ENCODED_LEN == 65535

\* What snow accepts as a message, and what it adds to it.
MaxNoiseLen == 65535
TagLen == 16

\* Faulty: as large as a frame.
ReadBuffer_frame == 65535

\* The buffer of a game connection's read loop: no payload is longer.
ReadBuffer == 16384

\* The shortest and the longest payload.
PayloadLen == {1, ReadBuffer}

RelayGame(motd) == [type |-> "Game", motd |-> motd]
RelayData(len) == [type |-> "Data", len |-> len]
Message == [type : {"Game"}, motd : Text] \cup [type : {"Data"}, len : PayloadLen]

\* The bytes protobuf needs at most: a u64 with its tag takes 11, a bool 2,
\* a tag and the length of a field 4.
encoded_len(m) ==
  IF m.type = "Game" THEN 4 + 11 + 4 + Len(m.motd) + 11 ELSE 4 + 11 + 2 + 4 + m.len

Shake(key) == [kind |-> "shake", key |-> key]
Ping == [kind |-> "ping"]
Encrypted(n, m) == [kind |-> "message", n |-> n, msg |-> m]
Frame ==
  {Ping} \cup [kind : {"shake"}, key : {KeyOf[e] : e \in End}]
    \cup [kind : {"message"}, n : Nat, msg : Message]

VARIABLES
  st,       \* each end: "shaking", "up", "closed", "garbled" or "too long"
  shakes,   \* handshake messages written and read
  remote,   \* the peer's static key, once known
  running,  \* the ends whose run() has begun
  queue,    \* the channel behind the handle
  stream,   \* the frames an end has written and the other has not read
  sending,  \* the cipher's counters
  receiving,
  got       \* history: the messages passed to fun

wvars == <<st, shakes, remote, running, queue, stream, sending, receiving, got>>
cipher == <<sending, receiving>>

TypeOK ==
  /\ st \in [End -> {"shaking", "up", "closed", "garbled", "too long"}]
  /\ shakes \in [End -> 0..2]
  /\ remote \in [End -> SUBSET {KeyOf[e] : e \in End}]
  /\ running \in SUBSET End
  /\ queue \in [End -> Seq(Message)]
  /\ stream \in [End -> Seq(Frame)]
  /\ sending \in [End -> Nat]
  /\ receiving \in [End -> Nat]
  /\ got \in [End -> Seq(Message)]

WireInit ==
  /\ st = [e \in End |-> "shaking"]
  /\ shakes = [e \in End |-> 0]
  /\ remote = [e \in End |-> {}]
  /\ running = {}
  /\ queue = [e \in End |-> <<>>]
  /\ stream = [e \in End |-> <<>>]
  /\ sending = [e \in End |-> 0]
  /\ receiving = [e \in End |-> 0]
  /\ got = [e \in End |-> <<>>]

-----------------------------------------------------------------------------
(* handshake_loop. *)

\* Faulty: both ends begin.
IsMyTurn_first(e) == shakes[e] = 0

IsMyTurn(e) == shakes[e] % 2 = IF e = "initiator" THEN 0 ELSE 1

\* Faulty: nobody notices that the handshake is over.
Shaken_endless(e) == shakes' = [shakes EXCEPT ![e] = @ + 1] /\ UNCHANGED st

Shaken(e) ==
  /\ shakes' = [shakes EXCEPT ![e] = @ + 1]
  /\ st' = [st EXCEPT ![e] = IF shakes[e] = 1 THEN "up" ELSE @]

ShakeWrite(e) ==
  /\ st[e] = "shaking"
  /\ IsMyTurn(e)
  /\ stream' = [stream EXCEPT ![e] = Append(@, Shake(KeyOf[e]))]
  /\ Shaken(e)
  /\ UNCHANGED <<remote, running, queue, cipher, got>>

ShakeRead(e) ==
  /\ st[e] = "shaking"
  /\ ~ IsMyTurn(e)
  /\ stream[Other(e)] # <<>>
  /\ stream' = [stream EXCEPT ![Other(e)] = Tail(@)]
  /\ remote' = [remote EXCEPT ![e] = {Head(stream[Other(e)]).key}]
  /\ Shaken(e)
  /\ UNCHANGED <<running, queue, cipher, got>>

-----------------------------------------------------------------------------
(* run: write_loop and read_loop. *)

\* The loops begin: of the end that dialled as soon as the handshake is over,
\* of the other when the user has accepted the peer.
Run(e) ==
  /\ st[e] = "up"
  /\ e \notin running
  /\ running' = running \cup {e}
  /\ UNCHANGED <<st, shakes, remote, queue, stream, cipher, got>>

\* run() returns, the user refuses the peer or the handshake fails: the channel
\* goes, of what was written some part may still arrive, what was not read is
\* lost.
Shut(e, why) ==
  /\ st' = [st EXCEPT ![e] = why]
  /\ queue' = [queue EXCEPT ![e] = <<>>]
  /\ \E n \in 0..Len(stream[e]) :
       stream' = [stream EXCEPT ![e] = SubSeq(@, 1, n), ![Other(e)] = <<>>]
  /\ UNCHANGED <<shakes, remote, running, cipher, got>>

\* An error of the socket, the other end has closed it, no sender is left, or
\* the user says no.
Hangup(e) ==
  /\ st[e] \in {"shaking", "up"}
  /\ Shut(e, "closed")

\* RelayConnectionHandle::send, from AddPeer on: the loops need not run yet.
HandOver(e, m) ==
  /\ st[e] = "up"
  /\ sending[e] + Len(queue[e]) < MaxHanded[e]
  /\ queue' = [queue EXCEPT ![e] = Append(@, m)]
  /\ UNCHANGED <<st, shakes, remote, running, stream, cipher, got>>

WriteMessage(e) ==
  /\ st[e] = "up"
  /\ e \in running
  /\ queue[e] # <<>>
  /\ LET m == Head(queue[e])
     IN IF encoded_len(m) <= MAX_ENCODED_LEN /\ encoded_len(m) + TagLen <= MaxNoiseLen
        THEN /\ queue' = [queue EXCEPT ![e] = Tail(@)]
             /\ stream' = [stream EXCEPT ![e] = Append(@, Encrypted(sending[e], m))]
             /\ sending' = [sending EXCEPT ![e] = @ + 1]
             /\ UNCHANGED <<st, shakes, remote, running, receiving, got>>
        ELSE Shut(e, "too long")

\* PING_INTERVAL has passed with nothing to send, whatever the peer has read.
WritePing(e) ==
  /\ st[e] = "up"
  /\ e \in running
  /\ queue[e] = <<>>
  /\ Cardinality({j \in 1..Len(stream[e]) : stream[e][j].kind = "ping"}) < MaxPings[e]
  /\ stream' = [stream EXCEPT ![e] = Append(@, Ping)]
  /\ UNCHANGED <<st, shakes, remote, running, queue, cipher, got>>

\* A ping decodes to a message without content, which the relay ignores.
ReadFrame(e) ==
  /\ st[e] = "up"
  /\ e \in running
  /\ stream[Other(e)] # <<>>
  /\ LET f == Head(stream[Other(e)])
     IN IF f.kind = "message" /\ f.n # receiving[e]
        THEN Shut(e, "garbled")
        ELSE /\ stream' = [stream EXCEPT ![Other(e)] = Tail(@)]
             /\ IF f.kind = "ping"
                THEN UNCHANGED <<receiving, got>>
                ELSE /\ receiving' = [receiving EXCEPT ![e] = @ + 1]
                     /\ got' = [got EXCEPT ![e] = Append(@, f.msg)]
             /\ UNCHANGED <<st, shakes, remote, running, queue, sending>>

\* Everything but the messages handed over.
WireStep(e) ==
  \/ ShakeWrite(e) \/ ShakeRead(e) \/ Run(e) \/ Hangup(e)
  \/ WriteMessage(e) \/ WritePing(e) \/ ReadFrame(e)

-----------------------------------------------------------------------------
(* Properties. *)

\* The messages among the frames, in their order.
At(frames) == {j \in 1..Len(frames) : frames[j].kind = "message"}
Rank(frames, j) == Cardinality({k \in At(frames) : k <= j})

Messages(frames) ==
  [i \in 1..Cardinality(At(frames)) |->
     frames[CHOOSE j \in At(frames) : Rank(frames, j) = i].msg]

SessionPhase ==
  [e \in End |-> CASE st[e] = "shaking" -> "new" [] st[e] = "up" -> "up" [] OTHER -> "dropped"]

SessionWire ==
  [e \in End |-> IF SessionPhase[Other(e)] = "dropped"
                 THEN <<>> ELSE Messages(stream[e]) \o queue[e]]

Session == INSTANCE SessionContract WITH
  Initiator <- "initiator", phase <- SessionPhase, wire <- SessionWire

\* Handshake, framing, pings, encryption and a stream that may break at any
\* point make what RelayNetwork calls a session: messages arrive in order, none
\* is lost or repeated while both ends are up, and neither end receives before
\* it has been established.
IsSession == Session!SessionSpec

\* A session never ends by a fault of its own: messages, and pings anywhere
\* between them, read or not, keep the two ciphers in step, nothing this
\* program hands over outgrows a frame once it is encoded and encrypted, and an
\* established end has the peer's key, which peer_static() unwraps.
NoOwnFault ==
  \A e \in End :
    /\ st[e] \notin {"garbled", "too long"}
    /\ shakes[e] = 2 => remote[e] = {KeyOf[Other(e)]}

=============================================================================
