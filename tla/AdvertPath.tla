------------------------------ MODULE AdvertPath ------------------------------
(***************************************************************************)
(* The way of an advertisement: a host multicasts a datagram, the relay at *)
(* end Near parses it and hands its MOTD to the session, the relay at the  *)
(* other end multicasts a datagram of its own, which players parse.        *)
(* Composes DiscoveryPacket and RelayWire; the tables that the relays keep *)
(* on the way are in RelayTables.                                          *)
(***************************************************************************)
EXTENDS RelayWire, DiscoveryPacket

CONSTANTS
  Near,         \* the end whose LAN hosts the games
  Hosted,       \* the MOTDs of the games there
  Noise,        \* datagrams that announce no game
  GamePort,     \* the ports of the games and of Far's listeners
  ListenPort,
  MaxDatagrams  \* bound on the datagrams heard

Far == Other(Near)

\* How a game announces itself, whatever its MOTD contains.
Announcement(motd) ==
  OpenTag("MOTD") \o motd \o CloseTag("MOTD") \o OpenTag("AD") \o <<GamePort>> \o CloseTag("AD")

ASSUME PathAssumption ==
  /\ Near \in End
  /\ {GamePort, ListenPort} \subseteq PortText
  /\ MaxDatagrams \in Nat

\* A MOTD is a piece of the buffer of DiscoveryListener, which has 1500 bytes.
ASSUME MotdAssumption ==
  /\ MAX_PACKET_SIZE \in 0..1500
  /\ \A t \in Text : t \in Seq(STRING) /\ Len(t) <= MAX_PACKET_SIZE
  /\ \A d \in Noise \cup {Announcement(m) : m \in Hosted} :
       \A p \in parse(d) : p.motd \in Text

VARIABLES
  datagrams,  \* the number of datagrams heard
  heard,      \* history: the MOTDs hosts announced to a relay with a session
  handled,    \* the number of messages Far has handled
  shown       \* the datagrams Far has multicast

vars == <<wvars, datagrams, heard, handled, shown>>
pathvars == <<datagrams, heard, handled, shown>>

Init == WireInit /\ datagrams = 0 /\ heard = <<>> /\ handled = 0 /\ shown = <<>>

\* DiscoveryListener::run and add_local_game: what does not parse is only
\* logged, the MOTD of the rest goes to the peer.
Pass(datagram) ==
  /\ st[Near] = "up"
  /\ datagrams < MaxDatagrams
  /\ datagrams' = datagrams + 1
  /\ IF parse(datagram) = {}
     THEN UNCHANGED wvars
     ELSE \E p \in parse(datagram) : HandOver(Near, RelayGame(p.motd))
  /\ UNCHANGED <<handled, shown>>

HearGame(motd) ==
  /\ Pass(Announcement(motd))
  /\ heard' = Append(heard, motd)

HearNoise(datagram) ==
  /\ Pass(datagram)
  /\ UNCHANGED heard

\* A game connection's read loop hands over what it has read.
RelayPayload(e, len) ==
  /\ HandOver(e, RelayData(len))
  /\ UNCHANGED pathvars

\* Far's main thread handles its next message; for a game it multicasts an
\* advertisement of its listener, unless that cannot be encoded.
Show ==
  /\ handled < Len(got[Far])
  /\ handled' = handled + 1
  /\ LET m == got[Far][handled + 1]
         out == IF m.type = "Game" THEN encode([port |-> ListenPort, motd |-> m.motd]) ELSE {}
     IN shown' = IF out = {} THEN shown ELSE Append(shown, CHOOSE d \in out : TRUE)
  /\ UNCHANGED <<wvars, datagrams, heard>>

Next ==
  \/ \E motd \in Hosted : HearGame(motd)
  \/ \E d \in Noise : HearNoise(d)
  \/ \E e \in End, len \in PayloadLen : RelayPayload(e, len)
  \/ Show
  \/ \E e \in End : WireStep(e) /\ UNCHANGED pathvars

Spec == Init /\ [][Next]_vars

\* The handshake reads what has arrived, the end that dialled runs once it is
\* over, and running loops and the main thread go on while they have work.
\* The user may leave the question of the other end unanswered; datagrams,
\* payloads, pings and hangups may or may not come.
Fairness ==
  /\ WF_vars(Show)
  /\ WF_vars(Run("initiator") /\ UNCHANGED pathvars)
  /\ \A e \in End : /\ WF_vars(ShakeRead(e) /\ UNCHANGED pathvars)
                    /\ WF_vars(WriteMessage(e) /\ UNCHANGED pathvars)
                    /\ WF_vars(ReadFrame(e) /\ UNCHANGED pathvars)

FairSpec == Spec /\ Fairness

-----------------------------------------------------------------------------
(* Properties. *)

\* The MOTDs the code relays to players: encode refuses any "[" and what is
\* longer than MAX_MOTD_LEN.
Plain(motds) ==
  SelectSeq(motds, LAMBDA m : Len(m) <= MAX_MOTD_LEN /\ \A i \in 1..Len(m) : m[i] # "[")

\* Players see the games that hosts announced, by the same parser: the MOTDs
\* in the order in which they were announced, none repeated, cut short or made
\* up from a malformed datagram or from payloads in between, and each one at
\* the port of Far's listener.
PlayersSee ==
  /\ Len(shown) <= Len(Plain(heard))
  /\ \A i \in 1..Len(shown) :
       parse(shown[i]) = {[port |-> ListenPort, motd |-> Plain(heard)[i]]}

\* Once the user has accepted the peer, every announced game that can be
\* encoded is shown to the players at the other end, or the session ends: also
\* what was handed over while the question was open.
AdvertArrives ==
  \A k \in 1..MaxDatagrams :
    ("responder" \in running /\ Len(Plain(heard)) >= k)
      ~> (Len(shown) >= k \/ \E e \in End : st[e] = "closed")

=============================================================================
