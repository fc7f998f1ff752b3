--------------------------- MODULE DiscoveryPacket ---------------------------
(***************************************************************************)
(* The text that announces a game on a LAN, as sequences of symbols: the   *)
(* characters "[", "/", "]", and words ("MOTD", "AD", a decimal port, any  *)
(* other text) that contain none of them and count as one symbol each.     *)
(* The result of a function that may fail is a set with at most one member.*)
(***************************************************************************)
EXTENDS Naturals, Sequences

CONSTANTS
  PortText,          \* the words that are a decimal u16
  MAX_PACKET_SIZE,   \* the listener's buffer, in symbols (1500 bytes)
  MAX_MOTD_LEN       \* the longest MOTD that is encoded (256 bytes)

\* What is encoded is never cut off by the listener.
ASSUME SizeAssumption == MAX_MOTD_LEN + 15 <= MAX_PACKET_SIZE

OpenTag(name) == <<"[", name, "]">>
CloseTag(name) == <<"[", "/", name, "]">>

\* Faulty: the last place.
Find_last(s, t, k) ==
  LET at == {i \in k..(Len(s) - Len(t) + 1) : SubSeq(s, i, i + Len(t) - 1) = t}
  IN {i \in at : \A j \in at : i >= j}

\* The first place from k on where t occurs in s.
Find(s, t, k) ==
  LET at == {i \in k..(Len(s) - Len(t) + 1) : SubSeq(s, i, i + Len(t) - 1) = t}
  IN {i \in at : \A j \in at : i <= j}

\* element: "[" name "]" data "[/" name "]", from position k on.
element(s, k) ==
  LET ends(i) == {j \in Find(s, <<"[", "/">>, i + 1) :
                    SubSeq(s, j + 2, j + 1 + i - k) = SubSeq(s, k + 1, i)}
  IN UNION {{[name |-> SubSeq(s, k + 1, i - 1), data |-> SubSeq(s, i + 1, j - 1),
              next |-> j + 2 + i - k] : j \in ends(i)}
              : i \in {x \in Find(s, <<"]">>, k) : s[k] = "[" /\ x > k + 1}}

\* elements, asked for one name: the last element of that name counts, and
\* whatever follows the last complete element is ignored.
elements(s, name) ==
  LET value[k \in 1..(Len(s) + 1)] ==
        UNION {IF value[e.next] = {} /\ e.name = name THEN {e.data} ELSE value[e.next]
                 : e \in element(s, k)}
  IN value[1]

\* DiscoveryPacket::parse of what recv_from has put into the buffer.
parse(datagram) ==
  LET s == SubSeq(datagram, 1, IF Len(datagram) < MAX_PACKET_SIZE
                               THEN Len(datagram) ELSE MAX_PACKET_SIZE)
      port == {d[1] : d \in {x \in elements(s, <<"AD">>) : Len(x) = 1 /\ x[1] \in PortText}}
      motd == elements(s, <<"MOTD">>)
  IN {[port |-> q, motd |-> m] : q \in port, m \in IF motd = {} THEN {<<>>} ELSE motd}

\* Faulty: does not look at the MOTD.
encode_unchecked(p) ==
  {OpenTag("MOTD") \o p.motd \o CloseTag("MOTD") \o OpenTag("AD") \o <<p.port>> \o CloseTag("AD")}

\* DiscoveryPacket::encode
encode(p) ==
  IF (\E i \in 1..Len(p.motd) : p.motd[i] = "[") \/ Len(p.motd) > MAX_MOTD_LEN
  THEN {}
  ELSE {OpenTag("MOTD") \o p.motd \o CloseTag("MOTD") \o OpenTag("AD") \o <<p.port>> \o CloseTag("AD")}

=============================================================================
