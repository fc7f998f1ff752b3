-------------------------- MODULE AdvertPathProofs --------------------------
(***************************************************************************)
(* A relay connection never ends by a fault of its own and implements      *)
(* SessionContract: for any keys, MOTDs, datagrams and payloads, however   *)
(* many are handed over and wherever the stream breaks.                    *)
(***************************************************************************)
EXTENDS AdvertPath, SequenceTheorems, FiniteSetTheorems, TLAPS

-----------------------------------------------------------------------------
(* The two ends and the frames. *)

\* Each end has one other end.
LEMMA Ends ==
  ASSUME NEW e \in End
  PROVE  /\ Other(e) \in End /\ Other(e) # e /\ Other(Other(e)) = e
         /\ \A x \in End : x = e \/ x = Other(e)
         /\ "initiator" \in End /\ "responder" \in End
         /\ Other("initiator") = "responder" /\ Other("responder") = "initiator"
BY DEF End, Other

\* What is in a frame of each kind.
LEMMA FrameParts ==
  ASSUME NEW f \in Frame
  PROVE  /\ f.kind \in {"ping", "shake", "message"}
         /\ f.kind = "message" => f.n \in Nat /\ f.msg \in Message
         /\ f.kind = "shake" => f.key \in {KeyOf[e] : e \in End}
BY DEF Frame, Ping

\* The frames that are written.
LEMMA FramesMade ==
  /\ Ping \in Frame /\ Ping.kind = "ping"
  /\ \A e \in End : /\ Shake(KeyOf[e]) \in Frame
                    /\ Shake(KeyOf[e]).kind = "shake" /\ Shake(KeyOf[e]).key = KeyOf[e]
  /\ \A n \in Nat, m \in Message :
       /\ Encrypted(n, m) \in Frame /\ Encrypted(n, m).kind = "message"
       /\ Encrypted(n, m).n = n /\ Encrypted(n, m).msg = m
BY DEF Frame, Ping, Shake, Encrypted

\* What is handed over is a message.
LEMMA HandedMessage ==
  /\ \A d \in Noise \cup {Announcement(m) : m \in Hosted} :
       \A p \in parse(d) : RelayGame(p.motd) \in Message
  /\ \A len \in PayloadLen : RelayData(len) \in Message
BY MotdAssumption DEF RelayGame, RelayData, Message

\* No message outgrows a frame: a MOTD fits into a datagram, a payload into
\* the read buffer.
LEMMA MessageFits ==
  ASSUME NEW m \in Message
  PROVE  encoded_len(m) <= MAX_ENCODED_LEN /\ encoded_len(m) + TagLen <= MaxNoiseLen
<1>1. CASE m.type = "Game"
  <2>1. m.motd \in Text
    BY <1>1 DEF Message
  <2>2. Len(m.motd) \in Nat /\ Len(m.motd) <= MAX_PACKET_SIZE /\ MAX_PACKET_SIZE \in 0..1500
    BY <2>1, MotdAssumption
  <2>3. QED
    BY <1>1, <2>2 DEF encoded_len, MAX_ENCODED_LEN, TagLen, MaxNoiseLen
<1>2. CASE m.type # "Game"
  <2>1. m.len \in {1, 16384}
    BY <1>2 DEF Message, PayloadLen, ReadBuffer
  <2>2. QED
    BY <1>2, <2>1 DEF encoded_len, MAX_ENCODED_LEN, TagLen, MaxNoiseLen
<1>3. QED
  BY <1>1, <1>2

-----------------------------------------------------------------------------
(* Sequences. *)

\* The first n elements of a sequence.
LEMMA PrefixSeq ==
  ASSUME NEW S, NEW s \in Seq(S), NEW n \in 0..Len(s)
  PROVE  /\ SubSeq(s, 1, n) \in Seq(S) /\ Len(SubSeq(s, 1, n)) = n
         /\ \A j \in 1..n : SubSeq(s, 1, n)[j] = s[j]
<1>1. Len(s) \in Nat /\ n \in Int /\ 1 \in Int /\ \A j \in 1..n : j \in 1..Len(s)
  OBVIOUS
<1>2. \A j \in 1..n : s[j] \in S
  BY <1>1, ElementOfSeq
<1>3. /\ SubSeq(s, 1, n) \in Seq(S)
      /\ Len(SubSeq(s, 1, n)) = IF 1 <= n THEN n - 1 + 1 ELSE 0
      /\ \A i \in 1..(n - 1 + 1) : SubSeq(s, 1, n)[i] = s[1 + i - 1]
  BY <1>1, <1>2, SubSeqProperties
<1>4. QED
  BY <1>1, <1>3

\* A sequence is a first element and a rest.
LEMMA TailSeq ==
  ASSUME NEW S, NEW s \in Seq(S), s # <<>>
  PROVE  /\ Len(s) \in Nat \ {0} /\ Head(s) = s[1] /\ Head(s) \in S
         /\ Tail(s) \in Seq(S) /\ Len(Tail(s)) = Len(s) - 1
         /\ \A j \in 1..(Len(s) - 1) : Tail(s)[j] = s[j + 1] /\ j + 1 \in 2..Len(s)
<1>1. Len(s) \in Nat \ {0} /\ Head(s) = s[1]
  BY EmptySeq
<1>2. QED
  BY <1>1, HeadTailProperties

\* A sequence with one more element.
LEMMA AppendSeq ==
  ASSUME NEW S, NEW s \in Seq(S), NEW x \in S
  PROVE  /\ Append(s, x) \in Seq(S) /\ Len(Append(s, x)) = Len(s) + 1 /\ Len(s) \in Nat
         /\ \A j \in 1..Len(s) : Append(s, x)[j] = s[j]
         /\ Append(s, x)[Len(s) + 1] = x
         /\ Append(s, x) # <<>>
OBVIOUS

\* The empty sequence is the one of length 0.
LEMMA NoneSeq ==
  ASSUME NEW S, NEW s \in Seq(S)
  PROVE  /\ <<>> \in Seq(S) /\ Len(<<>>) = 0
         /\ s = <<>> <=> Len(s) = 0
BY EmptySeq

\* What is appended to the second of two sequences is appended to both.
LEMMA AppendConcat ==
  ASSUME NEW S, NEW s \in Seq(S), NEW t \in Seq(S), NEW x \in S
  PROVE  s \o Append(t, x) = Append(s \o t, x)
<1>1. <<x>> \in Seq(S) /\ s \o t \in Seq(S)
  BY ConcatProperties
<1>2. s \o (t \o <<x>>) = (s \o t) \o <<x>>
  BY <1>1, ConcatAssociative
<1>3. QED
  BY <1>1, <1>2, AppendIsConcat

\* The first element of two sequences is the first one's.
LEMMA ConcatHead ==
  ASSUME NEW S, NEW s \in Seq(S), NEW t \in Seq(S), s # <<>>
  PROVE  s \o t # <<>> /\ Head(s \o t) = Head(s) /\ Tail(s \o t) = Tail(s) \o t
<1> DEFINE u == s \o t
           v == Tail(s) \o t
<1>1. /\ u \in Seq(S) /\ Len(u) = Len(s) + Len(t)
      /\ \A i \in 1..(Len(s) + Len(t)) : u[i] = IF i <= Len(s) THEN s[i] ELSE t[i - Len(s)]
  BY ConcatProperties
<1>2. /\ Len(s) \in Nat \ {0} /\ Head(s) = s[1] /\ Len(t) \in Nat
      /\ Tail(s) \in Seq(S) /\ Len(Tail(s)) = Len(s) - 1
      /\ \A j \in 1..(Len(s) - 1) : Tail(s)[j] = s[j + 1]
  BY TailSeq, LenProperties
<1>3. /\ v \in Seq(S) /\ Len(v) = (Len(s) - 1) + Len(t)
      /\ \A i \in 1..((Len(s) - 1) + Len(t)) :
           v[i] = IF i <= Len(s) - 1 THEN Tail(s)[i] ELSE t[i - (Len(s) - 1)]
  BY <1>2, ConcatProperties
<1> HIDE DEF u, v
<1>4. u # <<>>
  BY <1>1, <1>2, NoneSeq
<1>5. /\ Head(u) = u[1] /\ Tail(u) \in Seq(S) /\ Len(Tail(u)) = (Len(s) - 1) + Len(t)
      /\ \A j \in 1..((Len(s) - 1) + Len(t)) : Tail(u)[j] = u[j + 1]
  <2>1. Len(u) - 1 = (Len(s) - 1) + Len(t)
    BY <1>1, <1>2
  <2>2. QED
    BY <1>1, <1>4, <2>1, TailSeq
<1>6. Head(u) = Head(s)
  <2>1. 1 \in 1..(Len(s) + Len(t)) /\ 1 <= Len(s)
    BY <1>2
  <2>2. QED
    BY <1>1, <1>2, <1>5, <2>1
<1>7. ASSUME NEW j \in 1..((Len(s) - 1) + Len(t)) PROVE Tail(u)[j] = v[j]
  <2>1. j + 1 \in 1..(Len(s) + Len(t))
    BY <1>2
  <2>2. CASE j <= Len(s) - 1
    <3>1. j + 1 <= Len(s) /\ j \in 1..(Len(s) - 1)
      BY <1>2, <2>2
    <3>2. QED
      BY <1>1, <1>2, <1>3, <1>5, <2>1, <2>2, <3>1
  <2>3. CASE ~ (j <= Len(s) - 1)
    <3>1. ~ (j + 1 <= Len(s)) /\ (j + 1) - Len(s) = j - (Len(s) - 1)
      BY <1>2, <2>3
    <3>2. QED
      BY <1>1, <1>3, <1>5, <2>1, <2>3, <3>1
  <2>4. QED
    BY <2>2, <2>3
<1>8. Tail(u) = v
  BY <1>3, <1>5, <1>7, SeqEqual
<1>9. QED
  BY <1>4, <1>6, <1>8 DEF u, v

\* The first element of the second of two sequences may be put last in the
\* first.
LEMMA MoveHead ==
  ASSUME NEW S, NEW s \in Seq(S), NEW t \in Seq(S), t # <<>>
  PROVE  Append(s, Head(t)) \o Tail(t) = s \o t
<1>1. Head(t) \in S /\ Tail(t) \in Seq(S) /\ <<Head(t)>> \in Seq(S)
  BY TailSeq
<1>2. <<Head(t)>> \o Tail(t) = t
  <2> DEFINE u == <<Head(t)>> \o Tail(t)
  <2>1. /\ Len(t) \in Nat \ {0} /\ Head(t) = t[1] /\ Len(Tail(t)) = Len(t) - 1
        /\ \A j \in 1..(Len(t) - 1) : Tail(t)[j] = t[j + 1]
    BY TailSeq
  <2>2. Len(<<Head(t)>>) = 1 /\ <<Head(t)>>[1] = Head(t)
    OBVIOUS
  <2>3. /\ u \in Seq(S) /\ Len(u) = 1 + (Len(t) - 1)
        /\ \A i \in 1..(1 + (Len(t) - 1)) :
             u[i] = IF i <= 1 THEN <<Head(t)>>[i] ELSE Tail(t)[i - 1]
    BY <1>1, <2>1, <2>2, ConcatProperties
  <2> HIDE DEF u
  <2>4. 1 + (Len(t) - 1) = Len(t)
    BY <2>1
  <2>5. ASSUME NEW i \in 1..Len(t) PROVE u[i] = t[i]
    <3>1. CASE i = 1
      BY <2>1, <2>2, <2>3, <2>4, <3>1
    <3>2. CASE i # 1
      <4>1. ~ (i <= 1) /\ i - 1 \in 1..(Len(t) - 1) /\ (i - 1) + 1 = i
        BY <2>1, <3>2
      <4>2. u[i] = Tail(t)[i - 1]
        BY <2>3, <2>4, <4>1
      <4>3. QED
        BY <2>1, <4>1, <4>2
    <3>3. QED
      BY <3>1, <3>2
  <2>6. u = t
    BY <2>3, <2>4, <2>5, SeqEqual
  <2>7. QED
    BY <2>6 DEF u
<1>3. Append(s, Head(t)) = s \o <<Head(t)>>
  BY <1>1, AppendIsConcat
<1>4. QED
  BY <1>1, <1>2, <1>3, ConcatAssociative

-----------------------------------------------------------------------------
(* The messages among the frames. *)

Count(s) == Cardinality(At(s))

\* How many messages come first can be counted.
LEMMA RankIs ==
  ASSUME NEW s \in Seq(Frame)
  PROVE  /\ At(s) \subseteq 1..Len(s) /\ Len(s) \in Nat
         /\ IsFiniteSet(At(s)) /\ Count(s) \in Nat
         /\ \A n \in Int : /\ IsFiniteSet({k \in At(s) : k <= n})
                           /\ Rank(s, n) \in Nat /\ Rank(s, n) <= Count(s)
<1>1. At(s) \subseteq 1..Len(s) /\ Len(s) \in Nat
  BY LenProperties DEF At
<1>2. IsFiniteSet(1..Len(s))
  BY <1>1, FS_Interval
<1>3. IsFiniteSet(At(s)) /\ Count(s) \in Nat
  BY <1>1, <1>2, FS_Subset, FS_CardinalityType DEF Count
<1>4. ASSUME NEW n \in Int
      PROVE  /\ IsFiniteSet({k \in At(s) : k <= n})
             /\ Rank(s, n) \in Nat /\ Rank(s, n) <= Count(s)
  <2>1. {k \in At(s) : k <= n} \in SUBSET At(s)
    OBVIOUS
  <2>2. QED
    BY <1>3, <2>1, FS_Subset, FS_CardinalityType DEF Rank, Count
<1>5. QED
  BY <1>1, <1>3, <1>4

\* A later message has a higher rank.
LEMMA RankLess ==
  ASSUME NEW s \in Seq(Frame), NEW j \in At(s), NEW k \in At(s), j < k
  PROVE  Rank(s, j) < Rank(s, k)
<1> DEFINE a == {i \in At(s) : i <= j}
           b == {i \in At(s) : i <= k}
<1>1. j \in Int /\ k \in Int /\ IsFiniteSet(a) /\ IsFiniteSet(b)
  BY RankIs
<1>2. a \cup {k} \in SUBSET b /\ k \notin a
  BY <1>1, RankIs
<1>3. Cardinality(a \cup {k}) = Cardinality(a) + 1 /\ Cardinality(a) \in Nat
  BY <1>1, <1>2, FS_AddElement, FS_CardinalityType
<1>4. Cardinality(a \cup {k}) <= Cardinality(b) /\ Cardinality(b) \in Nat
  BY <1>1, <1>2, FS_Subset, FS_CardinalityType
<1>5. Rank(s, j) = Cardinality(a) /\ Rank(s, k) = Cardinality(b)
  BY DEF Rank
<1> HIDE DEF a, b
<1>6. QED
  BY <1>3, <1>4, <1>5

\* The ranks are the numbers from 1 on, each of them once.
LEMMA Ranked ==
  ASSUME NEW s \in Seq(Frame)
  PROVE  /\ \A j \in At(s) : Rank(s, j) \in 1..Count(s)
         /\ \A j, k \in At(s) : Rank(s, j) = Rank(s, k) => j = k
         /\ \A i \in 1..Count(s) : \E j \in At(s) : Rank(s, j) = i
<1>1. At(s) \subseteq Int /\ Count(s) \in Nat /\ IsFiniteSet(At(s))
  BY RankIs
<1>2. ASSUME NEW j \in At(s) PROVE Rank(s, j) \in 1..Count(s)
  <2> DEFINE a == {i \in At(s) : i <= j}
  <2>1. j \in Int /\ IsFiniteSet(a) /\ Rank(s, j) \in Nat /\ Rank(s, j) <= Count(s)
    BY <1>1, RankIs
  <2>2. a # {}
    BY <2>1
  <2>3. Rank(s, j) # 0
    BY <2>1, <2>2, FS_EmptySet DEF Rank
  <2>4. QED
    BY <1>1, <2>1, <2>3
<1>3. ASSUME NEW j \in At(s), NEW k \in At(s), Rank(s, j) = Rank(s, k) PROVE j = k
  <2>1. Rank(s, j) \in Int /\ j \in Int /\ k \in Int
    BY <1>1, <1>2
  <2>2. ~ (j < k) /\ ~ (k < j)
    BY <1>3, <2>1, RankLess
  <2>3. QED
    BY <2>1, <2>2
<1> DEFINE f == [j \in At(s) |-> Rank(s, j)]
<1>4. f \in Injection(At(s), 1..Count(s))
  BY <1>2, <1>3 DEF Injection, IsInjective
<1>5. IsFiniteSet(1..Count(s)) /\ Cardinality(1..Count(s)) = Count(s)
  BY <1>1, FS_Interval
<1>6. f \in Surjection(At(s), 1..Count(s))
  BY <1>4, <1>5, FS_Injection DEF Count
<1>7. \A i \in 1..Count(s) : \E j \in At(s) : Rank(s, j) = i
  BY <1>6 DEF Surjection
<1>8. QED
  BY <1>2, <1>3, <1>7

\* A message written ranks last, and what is no message has no rank.
LEMMA RankAppend ==
  ASSUME NEW s \in Seq(Frame), NEW f \in Frame
  PROVE  /\ \A j \in At(s) : Rank(Append(s, f), j) = Rank(s, j)
         /\ f.kind # "message" => At(Append(s, f)) = At(s)
         /\ f.kind = "message" => /\ At(Append(s, f)) = At(s) \cup {Len(s) + 1}
                                  /\ Rank(Append(s, f), Len(s) + 1) = Count(s) + 1
                                  /\ Count(Append(s, f)) = Count(s) + 1
<1> DEFINE t == Append(s, f)
           n == Len(s) + 1
<1>1. /\ t \in Seq(Frame) /\ Len(t) = n /\ Len(s) \in Nat /\ n \in Nat
      /\ \A j \in 1..Len(s) : t[j] = s[j]
      /\ t[n] = f /\ 1..n = (1..Len(s)) \cup {n}
  BY AppendSeq
<1>2. At(s) \subseteq 1..Len(s) /\ IsFiniteSet(At(s)) /\ n \notin At(s)
  BY <1>1, RankIs
<1> HIDE DEF t, n
<1>3. At(t) = IF f.kind = "message" THEN At(s) \cup {n} ELSE At(s)
  BY <1>1 DEF At
<1>4. ASSUME NEW j \in At(s) PROVE Rank(t, j) = Rank(s, j)
  <2>1. ~ (n <= j)
    BY <1>1, <1>2 DEF n
  <2>2. {k \in At(t) : k <= j} = {k \in At(s) : k <= j}
    BY <1>3, <2>1
  <2>3. QED
    BY <2>2 DEF Rank
<1>5. ASSUME f.kind = "message" PROVE Rank(t, n) = Count(s) + 1 /\ Count(t) = Count(s) + 1
  <2>1. \A k \in At(t) : k <= n
    BY <1>1, <1>2, <1>3 DEF n
  <2>2. {k \in At(t) : k <= n} = At(t)
    BY <2>1
  <2>3. Cardinality(At(t)) = Cardinality(At(s)) + 1
    BY <1>2, <1>3, <1>5, FS_AddElement
  <2>4. QED
    BY <2>2, <2>3 DEF Rank, Count
<1>6. QED
  BY <1>3, <1>4, <1>5 DEF t, n

\* Sets of numbers that differ by one are of the same size.
LEMMA ShiftedSize ==
  ASSUME NEW a \in SUBSET Nat, IsFiniteSet(a), NEW b \in SUBSET Nat,
         \A k \in b : k + 1 \in a, \A k \in a : k - 1 \in b
  PROVE  Cardinality(b) = Cardinality(a)
<1> DEFINE f == [k \in a |-> k - 1]
<1>1. f \in [a -> b]
  OBVIOUS
<1>2. \A j, k \in a : f[j] = f[k] => j = k
  OBVIOUS
<1>3. \A k \in b : k + 1 \in a /\ f[k + 1] = k
  OBVIOUS
<1> HIDE DEF f
<1>4. f \in Bijection(a, b)
  BY <1>1, <1>2, <1>3 DEF Bijection, Injection, Surjection, IsInjective
<1>5. QED
  BY <1>4, FS_Bijection DEF ExistsBijection

\* Behind the first frame the messages move up, by one rank if it was one.
LEMMA RankTail ==
  ASSUME NEW s \in Seq(Frame), s # <<>>
  PROVE  LET d == IF Head(s).kind = "message" THEN 1 ELSE 0
         IN /\ \A j \in At(Tail(s)) : /\ j + 1 \in At(s) /\ Tail(s)[j] = s[j + 1]
                                      /\ Rank(Tail(s), j) = Rank(s, j + 1) - d
            /\ Count(Tail(s)) = Count(s) - d
            /\ Head(s).kind = "message" => 1 \in At(s) /\ Rank(s, 1) = 1
<1> DEFINE t == Tail(s)
           d == IF Head(s).kind = "message" THEN 1 ELSE 0
           h == IF Head(s).kind = "message" THEN {1} ELSE {}
<1>1. /\ Len(s) \in Nat \ {0} /\ Head(s) = s[1]
      /\ t \in Seq(Frame) /\ Len(t) = Len(s) - 1
      /\ \A j \in 1..(Len(s) - 1) : t[j] = s[j + 1] /\ j + 1 \in 2..Len(s)
  BY TailSeq
<1>2. At(s) \subseteq 1..Len(s) /\ At(t) \subseteq 1..Len(t) /\ IsFiniteSet(At(s))
  BY <1>1, RankIs
<1>3. 1 \in At(s) <=> Head(s).kind = "message"
  BY <1>1 DEF At
<1> HIDE DEF t
<1>4. ASSUME NEW j \in At(t) PROVE j + 1 \in At(s) /\ j + 1 # 1 /\ t[j] = s[j + 1]
  <2>1. j \in 1..(Len(s) - 1) /\ t[j].kind = "message"
    BY <1>1 DEF At
  <2>2. j + 1 \in 1..Len(s) /\ j + 1 # 1 /\ s[j + 1].kind = "message" /\ t[j] = s[j + 1]
    BY <1>1, <2>1
  <2>3. QED
    BY <2>2 DEF At
<1>5. ASSUME NEW j \in At(s), j # 1 PROVE j - 1 \in At(t)
  <2>1. j \in 2..Len(s) /\ s[j].kind = "message"
    BY <1>1, <1>5 DEF At
  <2>2. j - 1 \in 1..(Len(s) - 1) /\ (j - 1) + 1 = j
    BY <1>1, <2>1
  <2>3. t[j - 1].kind = "message"
    BY <1>1, <2>1, <2>2
  <2>4. QED
    BY <1>1, <2>2, <2>3 DEF At
\* The size of a part of At(s) without the first place.
<1>6. ASSUME NEW a \in SUBSET At(s), IsFiniteSet(a), h \subseteq a
      PROVE  /\ IsFiniteSet(a \ {1}) /\ Cardinality(a \ {1}) = Cardinality(a) - d
             /\ Cardinality(a) \in Nat
  <2>1. 1 \in a <=> Head(s).kind = "message"
    BY <1>3, <1>6
  <2>2. Cardinality(a) \in Nat
    BY <1>6, FS_CardinalityType
  <2>3. QED
    BY <1>6, <2>1, <2>2, FS_RemoveElement
<1>7. Count(t) = Count(s) - d
  <2>1. h \subseteq At(s)
    BY <1>3
  <2>2. IsFiniteSet(At(s) \ {1}) /\ Cardinality(At(s) \ {1}) = Cardinality(At(s)) - d
    BY <1>2, <1>6, <2>1
  <2>3. /\ At(s) \ {1} \in SUBSET Nat /\ At(t) \in SUBSET Nat
        /\ \A k \in At(t) : k + 1 \in At(s) \ {1}
        /\ \A k \in At(s) \ {1} : k - 1 \in At(t)
    BY <1>2, <1>4, <1>5
  <2>4. Cardinality(At(t)) = Cardinality(At(s) \ {1})
    BY <2>2, <2>3, ShiftedSize
  <2>5. QED
    BY <2>2, <2>4 DEF Count
<1>8. ASSUME NEW j \in At(t) PROVE Rank(t, j) = Rank(s, j + 1) - d
  <2> DEFINE a == {k \in At(s) : k <= j + 1}
             b == {k \in At(t) : k <= j}
  <2>1. j \in Nat /\ j >= 1 /\ j + 1 \in Int
    BY <1>2
  <2>2. a \in SUBSET At(s) /\ IsFiniteSet(a) /\ h \subseteq a
    BY <1>2, <1>3, <2>1, RankIs
  <2>3. IsFiniteSet(a \ {1}) /\ Cardinality(a \ {1}) = Cardinality(a) - d
    BY <1>6, <2>2
  <2>4. /\ a \ {1} \in SUBSET Nat /\ b \in SUBSET Nat
        /\ \A k \in b : k + 1 \in a \ {1}
        /\ \A k \in a \ {1} : k - 1 \in b
    <3>1. \A k \in At(s) : k \in Nat
      BY <1>2
    <3>2. \A k \in At(t) : k \in Nat
      BY <1>2
    <3>3. \A k \in b : k + 1 \in a \ {1}
      BY <1>4, <2>1, <3>2
    <3>4. \A k \in a \ {1} : k - 1 \in b
      BY <1>5, <2>1, <3>1
    <3>5. QED
      BY <3>1, <3>2, <3>3, <3>4
  <2>5. Cardinality(b) = Cardinality(a \ {1})
    BY <2>3, <2>4, ShiftedSize
  <2>6. QED
    BY <2>3, <2>5 DEF Rank
<1>9. ASSUME 1 \in At(s) PROVE Rank(s, 1) = 1
  <2>1. {k \in At(s) : k <= 1} = {1}
    BY <1>2, <1>9
  <2>2. QED
    BY <2>1, FS_Singleton DEF Rank
<1>10. QED
  BY <1>3, <1>4, <1>7, <1>8, <1>9 DEF t

\* The messages of a prefix keep their ranks.
LEMMA RankPrefix ==
  ASSUME NEW s \in Seq(Frame), NEW n \in 0..Len(s)
  PROVE  /\ \A j \in At(SubSeq(s, 1, n)) :
              /\ j \in At(s) /\ SubSeq(s, 1, n)[j] = s[j]
              /\ Rank(SubSeq(s, 1, n), j) = Rank(s, j)
         /\ Count(SubSeq(s, 1, n)) \in 0..Count(s)
<1> DEFINE t == SubSeq(s, 1, n)
<1>1. /\ t \in Seq(Frame) /\ Len(t) = n /\ n \in Int /\ Len(s) \in Nat
      /\ \A j \in 1..n : t[j] = s[j] /\ j \in 1..Len(s)
  BY PrefixSeq, LenProperties
<1> HIDE DEF t
<1>2. At(t) = {k \in At(s) : k <= n}
  BY <1>1 DEF At
<1>3. ASSUME NEW j \in At(t) PROVE j \in At(s) /\ t[j] = s[j] /\ Rank(t, j) = Rank(s, j)
  <2>1. j \in 1..n /\ At(s) \subseteq 1..Len(s)
    BY <1>1, RankIs
  <2>2. {k \in At(t) : k <= j} = {k \in At(s) : k <= j}
    BY <1>1, <1>2, <2>1
  <2>3. QED
    BY <1>1, <1>2, <2>1, <2>2 DEF Rank
<1>4. Count(t) = Rank(s, n)
  BY <1>2 DEF Rank, Count
<1>5. Count(t) \in 0..Count(s)
  <2>1. Rank(s, n) \in Nat /\ Rank(s, n) <= Count(s) /\ Count(s) \in Nat
    BY <1>1, RankIs
  <2>2. QED
    BY <1>4, <2>1
<1>6. QED
  BY <1>3, <1>5 DEF t

-----------------------------------------------------------------------------
(* Types. *)

\* How far the two ends have come: the responder follows the initiator, and is
\* the first to be up.
Progress ==
  /\ \A e \in End : /\ st[e] \in {"shaking", "up", "closed"}
                    /\ st[e] = "shaking" => shakes[e] < 2
                    /\ st[e] = "up" => shakes[e] = 2
                    /\ shakes[e] < 2 => Len(stream[e]) <= shakes[e]
  /\ shakes["initiator"] = 0 => shakes["responder"] = 0
  /\ shakes["initiator"] = 2 => shakes["responder"] = 2
  /\ shakes["responder"] < 2 => stream["responder"] = <<>>

\* Each end knows the other by its key from the frame that proved it.
KeysKnown ==
  /\ shakes["initiator"] = 2 => remote["initiator"] = {KeyOf["responder"]}
  /\ shakes["responder"] > 0 => remote["responder"] = {KeyOf["initiator"]}

\* What lies on a stream: only its first frame may be a handshake message, it is
\* one exactly when the reader waits for one, and then the writer cannot have
\* got past it.
Leading ==
  \A e \in End :
    /\ \A j \in 2..Len(stream[e]) : stream[e][j].kind # "shake"
    /\ stream[e] # <<>> =>
         /\ st[Other(e)] = "up" => stream[e][1].kind # "shake"
         /\ st[Other(e)] = "shaking" =>
              ~ IsMyTurn(Other(e)) /\ stream[e][1] = Shake(KeyOf[e])
    /\ st[e] = "up" /\ st[Other(e)] = "shaking" => stream[e] # <<>>

\* The messages on a stream are numbered from the reader's number on, whatever
\* lies between them ...
InStep(e) ==
  \A j \in At(stream[e]) :
    stream[e][j].n + 1 = receiving[Other(e)] + Rank(stream[e], j)

\* ... up to the writer's.
Level(e) == sending[e] = receiving[Other(e)] + Count(stream[e])

\* As long as somebody reads, the messages on a stream carry the numbers that
\* the reader's cipher expects, and the writer's cipher goes on from there.
Numbered ==
  \A e \in End : st[Other(e)] # "closed" => InStep(e) /\ (st[e] # "closed" => Level(e))

WireInv == TypeOK /\ Progress /\ KeysKnown /\ Leading /\ Numbered

\* Whose turn it is, by the handshake messages an end has seen.
LEMMA Turns ==
  ASSUME TypeOK, Progress, NEW e \in End, st[e] = "shaking"
  PROVE  /\ shakes[e] \in {0, 1}
         /\ e = "initiator" => (IsMyTurn(e) <=> shakes[e] = 0)
         /\ e = "responder" => (IsMyTurn(e) <=> shakes[e] = 1)
<1>1. shakes[e] \in {0, 1}
  <2>1. shakes[e] \in 0..2 /\ shakes[e] < 2
    BY DEF TypeOK, Progress
  <2>2. QED
    BY <2>1
<1>2. 0 % 2 = 0 /\ 1 % 2 = 1
  OBVIOUS
<1>3. QED
  BY <1>1, <1>2 DEF IsMyTurn

\* Shutting an end keeps the types.
LEMMA ShutType ==
  ASSUME TypeOK, NEW e \in End, NEW why \in {"closed", "garbled", "too long"}, Shut(e, why)
  PROVE  TypeOK'
<1>1. PICK n \in 0..Len(stream[e]) :
        stream' = [stream EXCEPT ![e] = SubSeq(@, 1, n), ![Other(e)] = <<>>]
  BY DEF Shut
<1>2. stream[e] \in Seq(Frame)
  BY DEF TypeOK
<1>3. SubSeq(stream[e], 1, n) \in Seq(Frame) /\ <<>> \in Seq(Frame) /\ <<>> \in Seq(Message)
  BY <1>1, <1>2, PrefixSeq, EmptySeq
<1>4. stream' \in [End -> Seq(Frame)]
  BY <1>1, <1>3, Ends DEF TypeOK
<1>5. queue' \in [End -> Seq(Message)]
  BY <1>3 DEF Shut, TypeOK
<1>6. QED
  BY <1>4, <1>5 DEF Shut, TypeOK, cipher

\* A message handed over keeps the types.
LEMMA HandOverType ==
  ASSUME TypeOK, NEW e \in End, NEW m \in Message, HandOver(e, m)
  PROVE  TypeOK'
<1>1. Append(queue[e], m) \in Seq(Message)
  BY AppendSeq DEF TypeOK
<1>2. QED
  BY <1>1 DEF HandOver, TypeOK, cipher

\* Every step of the threads of a connection keeps the types.
LEMMA WireStepType ==
  ASSUME TypeOK, Progress, Leading, NEW e \in End, WireStep(e)
  PROVE  TypeOK'
<1>0. /\ stream[e] \in Seq(Frame) /\ stream[Other(e)] \in Seq(Frame)
      /\ queue[e] \in Seq(Message) /\ Other(e) \in End
  BY Ends DEF TypeOK
<1>1. ASSUME Shaken(e), st[e] = "shaking"
      PROVE  /\ shakes' \in [End -> 0..2]
             /\ st' \in [End -> {"shaking", "up", "closed", "garbled", "too long"}]
  <2>1. shakes[e] \in 0..2 /\ shakes[e] < 2
    BY <1>1 DEF Progress, TypeOK
  <2>2. shakes[e] + 1 \in 0..2
    BY <2>1
  <2>3. QED
    BY <1>1, <2>2 DEF Shaken, TypeOK
<1>2. CASE ShakeWrite(e)
  <2>1. Append(stream[e], Shake(KeyOf[e])) \in Seq(Frame)
    BY <1>0, FramesMade, AppendSeq
  <2>2. QED
    BY <1>1, <1>2, <2>1 DEF ShakeWrite, TypeOK, cipher
<1>3. CASE ShakeRead(e)
  <2>1. stream[Other(e)] # <<>> /\ st[e] = "shaking"
    BY <1>3 DEF ShakeRead
  <2>2. Head(stream[Other(e)]) = Shake(KeyOf[Other(e)])
    BY <1>0, <2>1, Ends, TailSeq DEF Leading
  <2>3. Head(stream[Other(e)]).key \in {KeyOf[x] : x \in End}
    BY <1>0, <2>2, FramesMade
  <2>4. Tail(stream[Other(e)]) \in Seq(Frame)
    BY <1>0, <2>1, TailSeq
  <2>5. QED
    BY <1>0, <1>1, <1>3, <2>3, <2>4 DEF ShakeRead, TypeOK, cipher
<1>4. CASE Hangup(e)
  BY <1>4, ShutType DEF Hangup
<1>5. CASE WriteMessage(e)
  <2>1. Head(queue[e]) \in Message /\ Tail(queue[e]) \in Seq(Message)
    BY <1>0, <1>5, TailSeq DEF WriteMessage
  <2>2. sending[e] \in Nat /\ sending[e] + 1 \in Nat
    <3>1. sending[e] \in Nat
      BY DEF TypeOK
    <3>2. QED
      BY <3>1
  <2>3. Append(stream[e], Encrypted(sending[e], Head(queue[e]))) \in Seq(Frame)
    BY <1>0, <2>1, <2>2, FramesMade, AppendSeq
  <2>4. QED
    BY <1>5, <2>1, <2>2, <2>3, MessageFits DEF WriteMessage, TypeOK
<1>6. CASE WritePing(e)
  <2>1. Append(stream[e], Ping) \in Seq(Frame)
    BY <1>0, FramesMade, AppendSeq
  <2>2. QED
    BY <1>6, <2>1 DEF WritePing, TypeOK, cipher
<1>7. CASE ReadFrame(e)
  <2> DEFINE f == Head(stream[Other(e)])
  <2>1. stream[Other(e)] # <<>> /\ st[e] = "up"
    BY <1>7 DEF ReadFrame
  <2>2. /\ f \in Frame /\ f.kind # "shake" /\ Tail(stream[Other(e)]) \in Seq(Frame)
    BY <1>0, <2>1, Ends, TailSeq DEF Leading
  <2>3. f.kind = "message" => f.msg \in Message /\ Append(got[e], f.msg) \in Seq(Message)
    BY <2>2, FrameParts, AppendSeq DEF TypeOK
  <2>4. f.kind = "message" \/ f.kind = "ping"
    BY <2>2, FrameParts
  <2>5. receiving[e] + 1 \in Nat
    <3>1. receiving[e] \in Nat
      BY DEF TypeOK
    <3>2. QED
      BY <3>1
  <2> HIDE DEF f
  <2>6. \/ Shut(e, "garbled")
        \/ /\ stream' = [stream EXCEPT ![Other(e)] = Tail(@)]
           /\ \/ UNCHANGED <<receiving, got>>
              \/ /\ f.kind = "message"
                 /\ receiving' = [receiving EXCEPT ![e] = @ + 1]
                 /\ got' = [got EXCEPT ![e] = Append(@, f.msg)]
           /\ UNCHANGED <<st, shakes, remote, running, queue, sending>>
    BY <1>7, <2>4 DEF ReadFrame, f
  <2>7. CASE Shut(e, "garbled")
    BY <2>7, ShutType
  <2>8. CASE ~ Shut(e, "garbled")
    <3>1. stream' \in [End -> Seq(Frame)] /\ receiving' \in [End -> Nat]
      BY <1>0, <2>2, <2>5, <2>6, <2>8 DEF TypeOK
    <3>2. got' \in [End -> Seq(Message)]
      BY <2>3, <2>6, <2>8 DEF TypeOK
    <3>3. UNCHANGED <<st, shakes, remote, running, queue, sending>>
      BY <2>6, <2>8
    <3>4. QED
      BY <3>1, <3>2, <3>3 DEF TypeOK
  <2>9. QED
    BY <2>7, <2>8
<1>8. CASE Run(e)
  BY <1>8 DEF Run, TypeOK, cipher
<1>9. QED
  BY <1>2, <1>3, <1>4, <1>5, <1>6, <1>7, <1>8 DEF WireStep

-----------------------------------------------------------------------------
(* The connection's invariant. *)

\* The types an invariant of one end needs.
LEMMA EndTypes ==
  ASSUME TypeOK, NEW e \in End
  PROVE  /\ stream[e] \in Seq(Frame) /\ queue[e] \in Seq(Message) /\ got[e] \in Seq(Message)
         /\ sending[e] \in Nat /\ receiving[e] \in Nat /\ shakes[e] \in 0..2
         /\ Len(stream[e]) \in Nat
<1>1. /\ stream[e] \in Seq(Frame) /\ queue[e] \in Seq(Message) /\ got[e] \in Seq(Message)
      /\ sending[e] \in Nat /\ receiving[e] \in Nat /\ shakes[e] \in 0..2
  BY DEF TypeOK
<1>2. Len(stream[e]) \in Nat
  BY <1>1, LenProperties
<1>3. QED
  BY <1>1, <1>2

\* Steps that leave the ends, the streams and the ciphers alone.
LEMMA WireFrame ==
  ASSUME Progress, KeysKnown, Leading, Numbered,
         UNCHANGED <<st, shakes, remote, stream, sending, receiving>>
  PROVE  (Progress /\ KeysKnown /\ Leading /\ Numbered)'
BY DEF Progress, KeysKnown, Leading, Numbered, InStep, Level, IsMyTurn

\* An end that is closed leaves the other a part of what it has written.
LEMMA ShutInv ==
  ASSUME WireInv, NEW e \in End, Shut(e, "closed")
  PROVE  WireInv'
<1> DEFINE o == Other(e)
<1>1. o \in End /\ o # e /\ Other(o) = e /\ \A x \in End : x = e \/ x = o
  BY Ends
<1>2. PICK n \in 0..Len(stream[e]) :
        stream' = [stream EXCEPT ![e] = SubSeq(@, 1, n), ![o] = <<>>]
  BY DEF Shut
<1>3. /\ TypeOK /\ stream[e] \in Seq(Frame) /\ stream[o] \in Seq(Frame)
      /\ Len(stream[e]) \in Nat /\ Len(stream[o]) \in Nat
  BY <1>1, EndTypes DEF WireInv
<1>4. stream'[e] = SubSeq(stream[e], 1, n) /\ stream'[o] = <<>>
  BY <1>1, <1>2 DEF WireInv, TypeOK
<1>5. /\ st'[e] = "closed" /\ st'[o] = st[o]
      /\ UNCHANGED <<shakes, remote, sending, receiving>>
  BY <1>1 DEF Shut, WireInv, TypeOK, cipher
<1>6. /\ stream'[e] \in Seq(Frame) /\ Len(stream'[e]) = n /\ n \in Nat /\ n <= Len(stream[e])
      /\ \A j \in 1..n : stream'[e][j] = stream[e][j] /\ j \in 1..Len(stream[e])
  <2>1. n \in Nat /\ n <= Len(stream[e]) /\ \A j \in 1..n : j \in 1..Len(stream[e])
    BY <1>2, <1>3
  <2>2. /\ SubSeq(stream[e], 1, n) \in Seq(Frame) /\ Len(SubSeq(stream[e], 1, n)) = n
        /\ \A j \in 1..n : SubSeq(stream[e], 1, n)[j] = stream[e][j]
    BY <1>3, PrefixSeq
  <2>3. QED
    BY <1>4, <2>1, <2>2
<1>7. TypeOK'
  BY <1>3, ShutType
<1>8. stream'[e] # <<>> => n >= 1 /\ stream'[e][1] = stream[e][1] /\ stream[e] # <<>>
  BY <1>3, <1>6, NoneSeq
<1>9. stream[e] = <<>> => stream'[e] = <<>>
  BY <1>8
<1> HIDE DEF o
<1>10. Progress'
  <2>1. \A x \in End : /\ st'[x] \in {"shaking", "up", "closed"}
                       /\ st'[x] = "shaking" => shakes'[x] < 2
                       /\ st'[x] = "up" => shakes'[x] = 2
    BY <1>1, <1>5 DEF WireInv, Progress
  <2>2. \A x \in End : shakes'[x] < 2 => Len(stream'[x]) <= shakes'[x]
    <3>1. Len(stream'[o]) = 0 /\ shakes[o] \in 0..2 /\ shakes[e] \in 0..2
      BY <1>1, <1>3, <1>4, NoneSeq, EndTypes
    <3>2. shakes'[o] < 2 => Len(stream'[o]) <= shakes'[o]
      BY <1>5, <3>1
    <3>3. shakes'[e] < 2 => Len(stream'[e]) <= shakes'[e]
      BY <1>3, <1>5, <1>6, <3>1 DEF WireInv, Progress
    <3>4. QED
      BY <1>1, <3>2, <3>3
  <2>3. stream["responder"] = <<>> => stream'["responder"] = <<>>
    BY <1>1, <1>4, <1>9, Ends
  <2>4. QED
    BY <1>5, <2>1, <2>2, <2>3 DEF WireInv, Progress
<1>11. KeysKnown'
  BY <1>5 DEF WireInv, KeysKnown
<1>12. Leading'
  <2>1. \A j \in 2..Len(stream'[e]) : stream'[e][j].kind # "shake"
    <3>1. \A j \in 2..n : j \in 2..Len(stream[e]) /\ stream'[e][j] = stream[e][j]
      BY <1>3, <1>6
    <3>2. QED
      BY <1>6, <3>1 DEF WireInv, Leading
  <2>2. \A j \in 2..Len(stream'[o]) : FALSE
    BY <1>4, <1>3, NoneSeq
  <2>3. stream'[e] # <<>> =>
         /\ st'[o] = "up" => stream'[e][1].kind # "shake"
         /\ st'[o] = "shaking" => ~ IsMyTurn(o)' /\ stream'[e][1] = Shake(KeyOf[e])
    BY <1>5, <1>8 DEF WireInv, Leading, o, IsMyTurn
  <2>4. QED
    BY <1>1, <1>4, <1>5, <2>1, <2>2, <2>3 DEF Leading, o
<1>13. Numbered'
  <2>1. \A j \in At(stream'[e]) :
          /\ j \in At(stream[e]) /\ stream'[e][j] = stream[e][j]
          /\ Rank(stream'[e], j) = Rank(stream[e], j)
    BY <1>3, <1>4, RankPrefix
  <2>2. InStep(e) => InStep(e)'
    BY <1>5, <2>1 DEF InStep
  <2>3. st'[o] = st[o] /\ st'[e] = "closed"
    BY <1>5
  <2>4. QED
    BY <1>1, <2>2, <2>3, Zenon DEF WireInv, Numbered, o
<1>14. QED
  BY <1>7, <1>10, <1>11, <1>12, <1>13 DEF WireInv

\* A message written goes behind the others and takes the writer's number;
\* another frame takes none, wherever it lies.
LEMMA WriteNumbered ==
  ASSUME WireInv, NEW e \in End, NEW f \in Frame,
         stream' = [stream EXCEPT ![e] = Append(@, f)], st[e] # "closed",
         \A x \in End : st'[x] = "closed" <=> st[x] = "closed", receiving' = receiving,
         \/ /\ f.kind = "message" /\ f.n = sending[e]
            /\ sending' = [sending EXCEPT ![e] = @ + 1]
         \/ f.kind # "message" /\ sending' = sending
  PROVE  Numbered'
<1> DEFINE o == Other(e)
           s == stream[e]
           t == stream'[e]
<1>1. o \in End /\ o # e /\ Other(o) = e /\ \A x \in End : x = e \/ x = o
  BY Ends
<1>2. /\ s \in Seq(Frame) /\ Len(s) \in Nat /\ sending[e] \in Nat /\ receiving[o] \in Nat
      /\ Count(s) \in Nat
  BY <1>1, EndTypes, RankIs DEF WireInv
<1>3. t = Append(s, f) /\ stream'[o] = stream[o] /\ sending'[o] = sending[o]
  BY <1>1 DEF WireInv, TypeOK
<1>4. /\ \A j \in At(s) : t[j] = s[j]
      /\ t[Len(s) + 1] = f
  BY <1>2, <1>3, AppendSeq, RankIs
<1>5. sending'[e] = IF f.kind = "message" THEN sending[e] + 1 ELSE sending[e]
  BY DEF WireInv, TypeOK
<1>6. /\ \A j \in At(s) : Rank(t, j) = Rank(s, j)
      /\ f.kind # "message" => At(t) = At(s)
      /\ f.kind = "message" => /\ At(t) = At(s) \cup {Len(s) + 1}
                               /\ Rank(t, Len(s) + 1) = Count(s) + 1
                               /\ Count(t) = Count(s) + 1
  BY <1>2, <1>3, RankAppend
<1>7. ASSUME InStep(e), Level(e) PROVE InStep(e)' /\ Level(e)'
  <2>1. /\ \A j \in At(s) : s[j].n + 1 = receiving[o] + Rank(s, j)
        /\ sending[e] = receiving[o] + Count(s)
    BY <1>7 DEF InStep, Level
  <2> HIDE DEF s, t
  <2>2. CASE f.kind # "message"
    <3>1. At(t) = At(s) /\ Count(t) = Count(s)
      BY <1>6, <2>2 DEF Count
    <3>2. /\ \A j \in At(t) : t[j].n + 1 = receiving'[o] + Rank(t, j)
          /\ sending'[e] = receiving'[o] + Count(t)
      BY <1>4, <1>5, <1>6, <2>1, <2>2, <3>1
    <3>3. QED
      BY <3>2 DEF InStep, Level, t
  <2>3. CASE f.kind = "message"
    <3>1. f.n = sending[e] /\ sending'[e] = sending[e] + 1
      BY <1>5, <2>3
    <3>2. f.n + 1 = receiving[o] + (Count(s) + 1)
      BY ONLY <1>2, <2>1, <3>1
    <3>3. \A j \in At(t) : t[j].n + 1 = receiving'[o] + Rank(t, j)
      BY <1>4, <1>6, <2>1, <2>3, <3>2
    <3>4. sending'[e] = receiving'[o] + Count(t)
      <4>1. Count(t) = Count(s) + 1 /\ receiving'[o] = receiving[o]
        BY <1>6, <2>3
      <4>2. QED
        BY ONLY <1>2, <2>1, <3>1, <4>1
    <3>5. QED
      BY <3>3, <3>4 DEF InStep, Level, t
  <2>4. QED
    BY <2>2, <2>3
<1>8. /\ InStep(o)' <=> InStep(o)
      /\ Level(o)' <=> Level(o)
  BY <1>1, <1>3 DEF InStep, Level
<1>9. (st'[o] = "closed" <=> st[o] = "closed") /\ (st'[e] = "closed" <=> st[e] = "closed")
  BY <1>1
<1>10. Numbered
  BY DEF WireInv
<1> HIDE DEF o
<1>11. QED
  BY <1>1, <1>7, <1>8, <1>9, <1>10, Zenon DEF Numbered, o

\* A frame that is read was the first; a message counts.
LEMMA ReadNumbered ==
  ASSUME WireInv, NEW e \in End, stream[Other(e)] # <<>>,
         stream' = [stream EXCEPT ![Other(e)] = Tail(@)], st[e] # "closed",
         \A x \in End : st'[x] = "closed" <=> st[x] = "closed", sending' = sending,
         receiving' = IF Head(stream[Other(e)]).kind = "message"
                      THEN [receiving EXCEPT ![e] = @ + 1] ELSE receiving
  PROVE  Numbered'
<1> DEFINE o == Other(e)
           s == stream[o]
           t == stream'[o]
           d == IF Head(s).kind = "message" THEN 1 ELSE 0
<1>1. o \in End /\ o # e /\ Other(o) = e /\ \A x \in End : x = e \/ x = o
  BY Ends
<1>2. /\ s \in Seq(Frame) /\ sending[o] \in Nat /\ receiving[e] \in Nat /\ Count(s) \in Nat
      /\ \A j \in At(s) : Rank(s, j) \in Nat
  <2>1. s \in Seq(Frame) /\ sending[o] \in Nat /\ receiving[e] \in Nat
    BY <1>1, EndTypes DEF WireInv
  <2>2. Count(s) \in Nat /\ \A j \in At(s) : Rank(s, j) \in 1..Count(s)
    BY <2>1, RankIs, Ranked
  <2>3. QED
    BY <2>1, <2>2
<1>3. t = Tail(s) /\ stream'[e] = stream[e]
  BY <1>1 DEF WireInv, TypeOK
<1>4. receiving'[e] = receiving[e] + d /\ receiving'[o] = receiving[o] /\ d \in {0, 1}
  <2>1. receiving'[e] = IF Head(s).kind = "message" THEN receiving[e] + 1 ELSE receiving[e]
    BY DEF WireInv, TypeOK
  <2>2. receiving'[o] = receiving[o]
    BY <1>1 DEF WireInv, TypeOK
  <2>3. QED
    BY <1>2, <2>1, <2>2
<1>5. /\ \A j \in At(t) : /\ j + 1 \in At(s) /\ t[j] = s[j + 1]
                          /\ Rank(t, j) = Rank(s, j + 1) - d
      /\ Count(t) = Count(s) - d
  BY <1>2, <1>3, RankTail
<1>6. InStep(o) /\ (st[o] # "closed" => Level(o))
  BY <1>1, Zenon DEF WireInv, Numbered
<1> HIDE DEF d, s, t
<1>7. ASSUME Level(o) PROVE Level(o)'
  <2>1. sending[o] = receiving[e] + Count(s)
    BY <1>1, <1>7 DEF Level, s
  <2>2. sending'[o] = receiving'[e] + Count(t)
    BY <1>2, <1>4, <1>5, <2>1
  <2>3. QED
    BY <1>1, <2>2 DEF Level, t
<1>8. InStep(o)'
  <2>1. \A j \in At(s) : s[j].n + 1 = receiving[e] + Rank(s, j)
    BY <1>1, <1>6 DEF InStep, s
  <2>2. ASSUME NEW j \in At(t) PROVE t[j].n + 1 = receiving'[e] + Rank(t, j)
    <3>1. /\ t[j].n + 1 = receiving[e] + Rank(s, j + 1)
          /\ Rank(t, j) = Rank(s, j + 1) - d /\ Rank(s, j + 1) \in Nat
      BY <1>2, <1>5, <2>1
    <3>2. QED
      BY ONLY <1>2, <1>4, <3>1
  <2>3. QED
    BY <1>1, <2>2 DEF InStep, t
<1>9. (st'[o] = "closed" <=> st[o] = "closed") /\ (st'[e] = "closed" <=> st[e] = "closed")
  BY <1>1
<1>10. /\ InStep(e)' <=> InStep(e)
       /\ Level(e)' <=> Level(e)
  BY <1>3, <1>4 DEF InStep, Level, o
<1>11. Numbered
  BY DEF WireInv
<1> HIDE DEF o
<1>12. QED
  BY <1>1, <1>6, <1>7, <1>8, <1>9, <1>10, <1>11, Zenon DEF Numbered, o

\* write_loop: the end is up, so its stream begins with its handshake message
\* as long as the other end has not read that.
LEMMA WriteInv ==
  ASSUME WireInv, TypeOK', NEW e \in End, NEW f \in Frame, st[e] = "up",
         stream' = [stream EXCEPT ![e] = Append(@, f)],
         UNCHANGED <<st, shakes, remote, receiving>>,
         \/ /\ f.kind = "message" /\ f.n = sending[e]
            /\ sending' = [sending EXCEPT ![e] = @ + 1]
         \/ f.kind = "ping" /\ sending' = sending
  PROVE  WireInv'
<1> DEFINE o == Other(e)
           s == stream[e]
<1>1. o \in End /\ o # e /\ Other(o) = e /\ \A x \in End : x = e \/ x = o
  BY Ends
<1>2. s \in Seq(Frame) /\ Len(s) \in Nat
  BY EndTypes DEF WireInv
<1>3. stream'[e] = Append(s, f) /\ stream'[o] = stream[o]
  BY <1>1 DEF WireInv, TypeOK
<1>4. /\ stream'[e] \in Seq(Frame) /\ Len(stream'[e]) = Len(s) + 1 /\ stream'[e] # <<>>
      /\ \A j \in 1..Len(s) : stream'[e][j] = s[j]
      /\ stream'[e][Len(s) + 1] = f
  BY <1>2, <1>3, AppendSeq
<1>5. shakes[e] = 2 /\ Progress /\ Leading
  BY DEF WireInv, Progress
<1>6. Progress'
  <2>1. ASSUME NEW x \in End, shakes[x] < 2 PROVE stream'[x] = stream[x]
    <3>1. x # e
      BY <1>5, <2>1
    <3>2. QED
      BY <1>1, <1>3, <3>1
  <2>2. "responder" \in End
    BY Ends
  <2>3. QED
    BY <1>5, <2>1, <2>2 DEF Progress
<1>7. ASSUME s = <<>> PROVE Leading'
  <2>1. Len(s) = 0 /\ stream'[e][1] = f /\ Len(stream'[e]) = 1
    BY <1>2, <1>4, <1>7, NoneSeq
  <2>2. st[o] # "shaking"
    BY <1>5, <1>7 DEF Leading
  <2>3. \A j \in 2..Len(stream'[e]) : FALSE
    BY <2>1
  <2>4. f.kind # "shake"
    OBVIOUS
  <2>5. QED
    BY <1>1, <1>3, <1>5, <2>1, <2>2, <2>3, <2>4 DEF Leading, IsMyTurn
<1>8. ASSUME s # <<>> PROVE Leading'
  <2>1. Len(s) >= 1 /\ stream'[e][1] = s[1]
    BY <1>2, <1>4, <1>8, TailSeq
  <2>2. f.kind # "shake"
    OBVIOUS
  <2>3. ASSUME NEW j \in 2..Len(stream'[e]) PROVE stream'[e][j].kind # "shake"
    <3>1. CASE j = Len(s) + 1
      BY <1>4, <2>2, <3>1
    <3>2. CASE j \in 2..Len(s)
      BY <1>2, <1>4, <1>5, <3>2 DEF Leading
    <3>3. QED
      BY <1>2, <1>4, <2>3, <3>1, <3>2
  <2>4. QED
    BY <1>1, <1>3, <1>5, <1>8, <2>1, <2>3 DEF Leading, IsMyTurn
<1>9. Numbered'
  BY WriteNumbered
<1>10. KeysKnown'
  BY DEF WireInv, KeysKnown
<1>11. QED
  BY <1>6, <1>7, <1>8, <1>9, <1>10 DEF WireInv

\* read_loop: whatever comes behind the first frame is none of the handshake.
LEMMA ReadInv ==
  ASSUME WireInv, TypeOK', NEW e \in End, st[e] = "up", stream[Other(e)] # <<>>,
         stream' = [stream EXCEPT ![Other(e)] = Tail(@)],
         UNCHANGED <<st, shakes, remote, sending>>,
         receiving' = IF Head(stream[Other(e)]).kind = "message"
                      THEN [receiving EXCEPT ![e] = @ + 1] ELSE receiving
  PROVE  WireInv'
<1> DEFINE o == Other(e)
           s == stream[o]
<1>1. o \in End /\ o # e /\ Other(o) = e /\ \A x \in End : x = e \/ x = o
  BY Ends
<1>2. s \in Seq(Frame) /\ Len(s) \in Nat /\ shakes[o] \in 0..2
  BY <1>1, EndTypes DEF WireInv
<1>3. stream'[o] = Tail(s) /\ stream'[e] = stream[e]
  BY <1>1 DEF WireInv, TypeOK
<1>4. /\ stream'[o] \in Seq(Frame) /\ Len(stream'[o]) = Len(s) - 1 /\ Len(s) \in Nat \ {0}
      /\ \A j \in 1..(Len(s) - 1) : stream'[o][j] = s[j + 1] /\ j + 1 \in 2..Len(s)
  BY <1>2, <1>3, TailSeq
<1>5. Progress /\ Leading
  BY DEF WireInv
<1>6. Progress'
  <2>1. \A x \in End : shakes'[x] < 2 => Len(stream'[x]) <= shakes'[x]
    <3>1. shakes[o] < 2 => Len(s) <= shakes[o]
      BY <1>1, <1>5 DEF Progress
    <3>2. shakes'[o] < 2 => Len(stream'[o]) <= shakes'[o]
      BY <1>2, <1>4, <3>1
    <3>3. QED
      BY <1>1, <1>3, <1>5, <3>2 DEF Progress
  <2>2. shakes["responder"] < 2 => stream'["responder"] = <<>>
    <3>1. "responder" \in End /\ (shakes["responder"] < 2 => stream["responder"] = <<>>)
      BY <1>5, Ends DEF Progress
    <3>2. shakes["responder"] < 2 => "responder" # o
      BY <3>1
    <3>3. QED
      BY <1>1, <1>3, <3>1, <3>2
  <2>3. QED
    BY <1>5, <2>1, <2>2 DEF Progress
<1>7. \A j \in 1..Len(stream'[o]) : stream'[o][j].kind # "shake"
  BY <1>1, <1>4, <1>5 DEF Leading
<1>8. stream'[o] # <<>> => stream'[o][1].kind # "shake"
  <2>1. stream'[o] # <<>> => 1 \in 1..Len(stream'[o])
    BY <1>4, NoneSeq
  <2>2. QED
    BY <1>7, <2>1
<1>9. \A j \in 2..Len(stream'[o]) : stream'[o][j].kind # "shake"
  <2>1. \A j \in 2..Len(stream'[o]) : j \in 1..Len(stream'[o])
    BY <1>4
  <2>2. QED
    BY <1>7, <2>1
<1>10. Leading'
  BY <1>1, <1>3, <1>5, <1>8, <1>9 DEF Leading, IsMyTurn
<1>11. Numbered'
  BY ReadNumbered
<1>12. KeysKnown'
  BY DEF WireInv, KeysKnown
<1>13. QED
  BY <1>6, <1>10, <1>11, <1>12 DEF WireInv

\* A step of the handshake counts, and the second one ends it.
LEMMA ShakenIs ==
  ASSUME TypeOK, Progress, NEW e \in End, st[e] = "shaking", Shaken(e)
  PROVE  /\ shakes[e] \in {0, 1}
         /\ shakes'[e] = (IF shakes[e] = 0 THEN 1 ELSE 2)
         /\ st'[e] = (IF shakes[e] = 0 THEN "shaking" ELSE "up")
         /\ shakes'[Other(e)] = shakes[Other(e)] /\ st'[Other(e)] = st[Other(e)]
<1>1. shakes[e] \in {0, 1}
  BY Turns
<1>2. Other(e) \in End /\ Other(e) # e
  BY Ends
<1>3. /\ shakes'[e] = shakes[e] + 1
      /\ st'[e] = IF shakes[e] = 1 THEN "up" ELSE st[e]
      /\ shakes'[Other(e)] = shakes[Other(e)] /\ st'[Other(e)] = st[Other(e)]
  BY <1>2 DEF Shaken, TypeOK
<1>4. CASE shakes[e] = 0
  BY <1>3, <1>4
<1>5. CASE shakes[e] = 1
  BY <1>3, <1>5
<1>6. QED
  BY <1>1, <1>3, <1>4, <1>5

\* A handshake message is written to an empty stream.
LEMMA ShakeWriteFirst ==
  ASSUME WireInv, NEW e \in End, ShakeWrite(e)
  PROVE  stream[e] = <<>> /\ (e = "initiator" => shakes[e] = 0)
<1>1. TypeOK /\ Progress /\ st[e] = "shaking" /\ IsMyTurn(e)
  BY DEF WireInv, ShakeWrite
<1>2. /\ e = "initiator" => shakes[e] = 0
      /\ e = "responder" => shakes[e] = 1
      /\ e \in {"initiator", "responder"}
  BY <1>1, Turns DEF End
<1>3. stream[e] \in Seq(Frame) /\ Len(stream[e]) \in Nat
  BY <1>1, EndTypes
<1>4. CASE e = "initiator"
  <2>1. Len(stream[e]) <= 0
    BY <1>1, <1>2, <1>4 DEF Progress
  <2>2. QED
    BY <1>2, <1>3, <2>1, NoneSeq
<1>5. CASE e = "responder"
  BY <1>1, <1>2, <1>5 DEF Progress
<1>6. QED
  BY <1>2, <1>4, <1>5

\* The initiator writes first, the responder after it has read.
LEMMA ShakeWriteInv ==
  ASSUME WireInv, TypeOK', NEW e \in End, ShakeWrite(e)
  PROVE  WireInv'
<1> DEFINE o == Other(e)
           f == Shake(KeyOf[e])
<1>1. o \in End /\ o # e /\ Other(o) = e /\ \A x \in End : x = e \/ x = o
  BY Ends
<1>2. /\ TypeOK /\ Progress /\ Leading /\ KeysKnown
      /\ st[e] = "shaking" /\ IsMyTurn(e) /\ Shaken(e)
      /\ stream' = [stream EXCEPT ![e] = Append(@, f)]
      /\ UNCHANGED <<remote, sending, receiving>>
  BY DEF WireInv, ShakeWrite, cipher
<1>3. /\ shakes[e] \in {0, 1}
      /\ shakes'[e] = (IF shakes[e] = 0 THEN 1 ELSE 2)
      /\ st'[e] = (IF shakes[e] = 0 THEN "shaking" ELSE "up")
      /\ shakes'[o] = shakes[o] /\ st'[o] = st[o] /\ shakes[o] \in 0..2
  BY <1>1, <1>2, ShakenIs, EndTypes
<1>4. f \in Frame /\ f.kind = "shake"
  BY FramesMade
<1>5. /\ e = "initiator" => shakes[e] = 0 /\ o = "responder"
      /\ e = "responder" => shakes[e] = 1 /\ o = "initiator"
      /\ e \in {"initiator", "responder"}
  BY <1>2, Turns DEF End, Other
<1>6. stream[e] \in Seq(Frame) /\ Len(stream[e]) \in Nat
  BY <1>2, EndTypes
<1>7. stream[e] = <<>>
  BY ShakeWriteFirst
<1>8. stream'[e] = Append(<<>>, f) /\ stream'[o] = stream[o]
  BY <1>1, <1>2, <1>7 DEF TypeOK
<1>9. Len(stream'[e]) = 1 /\ stream'[e][1] = f /\ stream'[e] # <<>>
  BY <1>4, <1>8
<1> HIDE DEF f, o
<1>10. Numbered'
  <2>1. \A x \in End : st'[x] = "closed" <=> st[x] = "closed"
    BY <1>1, <1>2, <1>3
  <2>2. f.kind # "message" /\ st[e] # "closed"
    BY <1>2, <1>4
  <2>3. QED
    BY <1>2, <1>4, <1>7, <2>1, <2>2, WriteNumbered DEF f
<1>11. CASE e = "initiator"
  <2>1. /\ shakes["initiator"] = 0 /\ shakes'["initiator"] = 1 /\ o = "responder"
        /\ shakes["responder"] = 0 /\ shakes'["responder"] = 0
        /\ st'["initiator"] = "shaking" /\ st'["responder"] = st["responder"]
    BY <1>2, <1>3, <1>5, <1>11 DEF Progress
  <2>2. /\ st["responder"] \in {"shaking", "up", "closed"} /\ st["responder"] # "up"
        /\ stream["responder"] = <<>> /\ stream'["responder"] = <<>>
    <3>1. shakes["responder"] < 2 /\ shakes["responder"] # 2
      BY <2>1
    <3>2. stream["responder"] = <<>>
      BY <1>2, <3>1 DEF Progress
    <3>3. st["responder"] \in {"shaking", "up", "closed"} /\ st["responder"] # "up"
      BY <1>2, <3>1 DEF Progress, End
    <3>4. QED
      BY <1>8, <2>1, <3>2, <3>3
  <2>3. /\ Len(stream'["initiator"]) = 1 /\ stream'["initiator"][1] = Shake(KeyOf["initiator"])
        /\ stream'["initiator"] # <<>> /\ Len(stream'["responder"]) = 0
    BY <1>9, <1>11, <2>2 DEF f
  <2>4. ~ IsMyTurn("responder")'
    <3>1. 0 % 2 = 0
      OBVIOUS
    <3>2. QED
      BY <2>1, <3>1 DEF IsMyTurn
  <2>5. Progress'
    <3>1. \A x \in End : /\ st'[x] \in {"shaking", "up", "closed"}
                         /\ st'[x] = "shaking" => shakes'[x] < 2
                         /\ st'[x] = "up" => shakes'[x] = 2
      BY <2>1, <2>2 DEF End
    <3>2. Len(stream'["initiator"]) <= shakes'["initiator"]
      BY <2>1, <2>3
    <3>3. Len(stream'["responder"]) <= shakes'["responder"]
      BY <2>1, <2>3
    <3>4. QED
      BY <2>1, <2>2, <3>1, <3>2, <3>3 DEF Progress, End
  <2>6. Leading'
    BY <2>1, <2>2, <2>3, <2>4 DEF Leading, End, Other
  <2>7. KeysKnown'
    BY <1>2, <2>1 DEF KeysKnown
  <2>8. QED
    BY <1>10, <2>5, <2>6, <2>7 DEF WireInv
<1>12. CASE e = "responder"
  <2>1. /\ shakes["responder"] = 1 /\ shakes'["responder"] = 2 /\ o = "initiator"
        /\ shakes["initiator"] = 1 /\ shakes'["initiator"] = 1
        /\ st'["responder"] = "up" /\ st'["initiator"] = st["initiator"]
        /\ IsMyTurn("responder") /\ st["responder"] = "shaking"
    BY <1>2, <1>3, <1>5, <1>12 DEF Progress
  <2>2. /\ st["initiator"] \in {"shaking", "up", "closed"} /\ st["initiator"] # "up"
        /\ stream["initiator"] = <<>> /\ stream'["initiator"] = <<>>
    BY <1>2, <1>8, <2>1 DEF Progress, Leading, End, Other
  <2>3. /\ Len(stream'["responder"]) = 1 /\ stream'["responder"][1] = Shake(KeyOf["responder"])
        /\ stream'["responder"] # <<>> /\ Len(stream'["initiator"]) = 0
    BY <1>9, <1>12, <2>2 DEF f
  <2>4. ~ IsMyTurn("initiator")'
    <3>1. 1 % 2 = 1
      OBVIOUS
    <3>2. QED
      BY <2>1, <3>1 DEF IsMyTurn
  <2>5. Progress'
    BY <2>1, <2>2, <2>3 DEF Progress, End
  <2>6. Leading'
    BY <2>1, <2>2, <2>3, <2>4 DEF Leading, End, Other
  <2>7. KeysKnown'
    BY <1>2, <2>1 DEF KeysKnown
  <2>8. QED
    BY <1>10, <2>5, <2>6, <2>7 DEF WireInv
<1>13. QED
  BY <1>5, <1>11, <1>12

\* Each end reads the key of the other, the initiator after it has written.
LEMMA ShakeReadInv ==
  ASSUME WireInv, TypeOK', NEW e \in End, ShakeRead(e)
  PROVE  WireInv'
<1> DEFINE o == Other(e)
           s == stream[o]
<1>1. o \in End /\ o # e /\ Other(o) = e /\ \A x \in End : x = e \/ x = o
  BY Ends
<1>2. /\ TypeOK /\ Progress /\ Leading /\ KeysKnown
      /\ st[e] = "shaking" /\ ~ IsMyTurn(e) /\ Shaken(e) /\ s # <<>>
      /\ stream' = [stream EXCEPT ![o] = Tail(@)]
      /\ remote' = [remote EXCEPT ![e] = {Head(s).key}]
      /\ UNCHANGED <<sending, receiving>>
  BY DEF WireInv, ShakeRead, cipher
<1>3. /\ shakes[e] \in {0, 1}
      /\ shakes'[e] = (IF shakes[e] = 0 THEN 1 ELSE 2)
      /\ st'[e] = (IF shakes[e] = 0 THEN "shaking" ELSE "up")
      /\ shakes'[o] = shakes[o] /\ st'[o] = st[o] /\ shakes[o] \in 0..2
  BY <1>1, <1>2, ShakenIs, EndTypes
<1>4. /\ e = "initiator" => shakes[e] = 1 /\ o = "responder"
      /\ e = "responder" => shakes[e] = 0 /\ o = "initiator"
      /\ e \in {"initiator", "responder"}
  BY <1>2, <1>3, Turns DEF End, Other
<1>5. s \in Seq(Frame) /\ Len(s) \in Nat
  BY <1>1, <1>2, EndTypes
<1>6. /\ Tail(s) \in Seq(Frame) /\ Len(Tail(s)) = Len(s) - 1 /\ Len(s) \in Nat \ {0}
      /\ \A j \in 1..(Len(s) - 1) : Tail(s)[j] = s[j + 1] /\ j + 1 \in 2..Len(s)
      /\ Head(s) = s[1]
  BY <1>2, <1>5, TailSeq
<1>7. Head(s) = Shake(KeyOf[o])
  BY <1>1, <1>2, <1>6 DEF Leading
<1>8. Head(s).kind = "shake" /\ Head(s).key = KeyOf[o]
  BY <1>1, <1>7, FramesMade
<1>9. /\ stream'[o] = Tail(s) /\ stream'[e] = stream[e]
      /\ remote'[e] = {KeyOf[o]} /\ remote'[o] = remote[o]
  BY <1>1, <1>2, <1>8 DEF TypeOK
<1>10. Numbered'
  <2>1. \A x \in End : st'[x] = "closed" <=> st[x] = "closed"
    BY <1>1, <1>2, <1>3
  <2>2. receiving' = IF Head(stream[Other(e)]).kind = "message"
                     THEN [receiving EXCEPT ![e] = @ + 1] ELSE receiving
    BY <1>2, <1>8
  <2>3. st[e] # "closed" /\ stream[Other(e)] # <<>>
    BY <1>2
  <2>4. QED
    BY <1>2, <2>1, <2>2, <2>3, ReadNumbered
<1>11. \A j \in 1..Len(Tail(s)) : Tail(s)[j].kind # "shake"
  BY <1>1, <1>2, <1>6 DEF Leading
<1>12. /\ Tail(s) # <<>> => Tail(s)[1].kind # "shake"
       /\ \A j \in 2..Len(Tail(s)) : Tail(s)[j].kind # "shake"
  <2>1. Tail(s) # <<>> => 1 \in 1..Len(Tail(s))
    BY <1>6, NoneSeq
  <2>2. \A j \in 2..Len(Tail(s)) : j \in 1..Len(Tail(s))
    BY <1>6
  <2>3. QED
    BY <1>11, <2>1, <2>2
<1> HIDE DEF o, s
<1>13. CASE e = "initiator"
  <2>1. /\ shakes["initiator"] = 1 /\ shakes'["initiator"] = 2 /\ o = "responder"
        /\ shakes["responder"] = 2 /\ shakes'["responder"] = 2
        /\ st'["initiator"] = "up" /\ st'["responder"] = st["responder"]
        /\ st["responder"] \in {"up", "closed"}
    <3>1. o = "responder" /\ shakes["initiator"] = 1 /\ shakes["responder"] \in 0..2
      BY <1>3, <1>4, <1>13
    <3>2. ~ (shakes["responder"] < 2)
      BY <1>2, <3>1 DEF Progress, s
    <3>3. shakes["responder"] = 2
      BY <3>1, <3>2
    <3>4. QED
      BY <1>2, <1>3, <1>13, <3>1, <3>3 DEF Progress, End
  <2>2. /\ stream'["responder"] = Tail(s) /\ stream'["initiator"] = stream["initiator"]
        /\ remote'["initiator"] = {KeyOf["responder"]} /\ remote'["responder"] = remote["responder"]
    BY <1>9, <1>13, <2>1
  <2>3. Progress'
    BY <1>2, <2>1, <2>2 DEF Progress, End
  <2>4. Leading'
    <3>1. /\ \A j \in 2..Len(stream'["responder"]) : stream'["responder"][j].kind # "shake"
          /\ stream'["responder"] # <<>> => stream'["responder"][1].kind # "shake"
      BY <1>12, <2>2
    <3>2. /\ \A j \in 2..Len(stream["initiator"]) : stream["initiator"][j].kind # "shake"
          /\ stream["initiator"] # <<>> /\ st["responder"] = "up"
               => stream["initiator"][1].kind # "shake"
      BY <1>2 DEF Leading, End, Other
    <3>3. st'["initiator"] = "up" /\ st'["responder"] # "shaking"
      BY <2>1
    <3>4. /\ Other("initiator") = "responder" /\ Other("responder") = "initiator"
          /\ \A x \in End : x = "initiator" \/ x = "responder"
          /\ stream'["initiator"] = stream["initiator"] /\ st'["responder"] = st["responder"]
      BY <2>1, <2>2 DEF End, Other
    <3>5. QED
      BY ONLY <3>1, <3>2, <3>3, <3>4 DEF Leading
  <2>5. KeysKnown'
    BY <1>2, <2>1, <2>2 DEF KeysKnown
  <2>6. QED
    BY <1>10, <2>3, <2>4, <2>5 DEF WireInv
<1>14. CASE e = "responder"
  <2>1. /\ shakes["responder"] = 0 /\ shakes'["responder"] = 1 /\ o = "initiator"
        /\ shakes'["initiator"] = shakes["initiator"] /\ shakes["initiator"] \in 0..2
        /\ st'["responder"] = "shaking" /\ st'["initiator"] = st["initiator"]
    BY <1>3, <1>4, <1>14
  <2>2. s = stream["initiator"] /\ shakes["initiator"] = 1
    <3>1. s = stream["initiator"] /\ shakes["initiator"] # 2
      BY <1>2, <2>1 DEF s, Progress
    <3>2. shakes["initiator"] = 0 => Len(s) <= 0
      BY <1>2, <3>1 DEF Progress, End
    <3>3. QED
      BY <1>6, <2>1, <3>1, <3>2
  <2>3. Len(s) = 1 /\ Tail(s) = <<>>
    <3>1. Len(s) <= 1
      BY <1>2, <2>2 DEF Progress, End
    <3>2. QED
      BY <1>6, <3>1, NoneSeq
  <2>4. /\ stream'["initiator"] = <<>> /\ stream'["responder"] = stream["responder"]
        /\ remote'["responder"] = {KeyOf["initiator"]} /\ remote'["initiator"] = remote["initiator"]
        /\ stream["responder"] = <<>>
    BY <1>2, <1>9, <1>14, <2>1, <2>3 DEF Progress
  <2>5. Len(stream'["initiator"]) = 0 /\ Len(stream'["responder"]) = 0
    BY <2>4
  <2>6. st["initiator"] # "up" /\ st["initiator"] \in {"shaking", "up", "closed"}
    BY <1>2, <2>2 DEF Progress, End
  <2>7. Progress'
    BY <2>1, <2>2, <2>4, <2>5, <2>6 DEF Progress, End
  <2>8. Leading'
    BY <2>1, <2>4, <2>5, <2>6 DEF Leading, End, Other, IsMyTurn
  <2>9. KeysKnown'
    BY <1>2, <2>1, <2>2, <2>4 DEF KeysKnown
  <2>10. QED
    BY <1>10, <2>7, <2>8, <2>9 DEF WireInv
<1>15. QED
  BY <1>4, <1>13, <1>14

\* The next frame carries the number that the reader's cipher expects.
LEMMA NextNumber ==
  ASSUME WireInv, NEW e \in End, st[e] = "up", stream[Other(e)] # <<>>,
         Head(stream[Other(e)]).kind = "message"
  PROVE  Head(stream[Other(e)]).n = receiving[e]
<1> DEFINE o == Other(e)
           s == stream[o]
<1>1. o \in End /\ Other(o) = e
  BY Ends
<1>2. s \in Seq(Frame) /\ receiving[e] \in Nat
  BY <1>1, EndTypes DEF WireInv
<1>3. Len(s) \in Nat \ {0} /\ Head(s) = s[1] /\ Head(s) \in Frame
  BY <1>2, TailSeq
<1>4. 1 \in At(s) /\ Rank(s, 1) = 1
  BY <1>2, RankTail
<1>5. InStep(o)
  <2>1. st[Other(o)] # "closed"
    BY <1>1
  <2>2. QED
    BY <1>1, <2>1, Zenon DEF WireInv, Numbered
<1>6. s[1].n + 1 = receiving[e] + 1
  BY <1>1, <1>4, <1>5 DEF InStep
<1>7. s[1].n \in Nat
  BY <1>3, FrameParts
<1>8. QED
  BY ONLY <1>2, <1>3, <1>6, <1>7

\* What a step of write_loop, and one of read_loop, does: none of them shuts
\* the connection.
LEMMA WriteIs ==
  ASSUME WireInv, NEW e \in End, WriteMessage(e)
  PROVE  LET m == Head(queue[e])
         IN /\ st[e] = "up" /\ queue[e] # <<>> /\ m \in Message
            /\ queue' = [queue EXCEPT ![e] = Tail(@)]
            /\ stream' = [stream EXCEPT ![e] = Append(@, Encrypted(sending[e], m))]
            /\ sending' = [sending EXCEPT ![e] = @ + 1]
            /\ UNCHANGED <<st, shakes, remote, receiving, got>>
<1>1. queue[e] # <<>> /\ queue[e] \in Seq(Message)
  BY EndTypes DEF WireInv, WriteMessage
<1>2. Head(queue[e]) \in Message
  BY <1>1, TailSeq
<1>3. QED
  BY <1>1, <1>2, MessageFits DEF WriteMessage

LEMMA ReadIs ==
  ASSUME WireInv, NEW e \in End, ReadFrame(e)
  PROVE  LET f == Head(stream[Other(e)])
         IN /\ st[e] = "up" /\ stream[Other(e)] # <<>> /\ f \in Frame
            /\ f.kind \in {"ping", "message"}
            /\ stream' = [stream EXCEPT ![Other(e)] = Tail(@)]
            /\ receiving' = IF f.kind = "message" THEN [receiving EXCEPT ![e] = @ + 1] ELSE receiving
            /\ got' = IF f.kind = "message" THEN [got EXCEPT ![e] = Append(@, f.msg)] ELSE got
            /\ UNCHANGED <<st, shakes, remote, queue, sending>>
<1> DEFINE f == Head(stream[Other(e)])
<1>1. st[e] = "up" /\ stream[Other(e)] # <<>>
  BY DEF ReadFrame
<1>2. Other(e) \in End /\ Other(Other(e)) = e
  BY Ends
<1>3. f \in Frame /\ f = stream[Other(e)][1]
  BY <1>1, <1>2, EndTypes, TailSeq DEF WireInv
<1>4. f.kind # "shake"
  BY <1>1, <1>2, <1>3 DEF WireInv, Leading
<1>5. f.kind \in {"ping", "message"}
  BY <1>3, <1>4, FrameParts
<1>6. f.kind = "message" => f.n = receiving[e]
  BY <1>1, NextNumber
<1> HIDE DEF f
<1>7. QED
  BY <1>1, <1>3, <1>5, <1>6 DEF ReadFrame, f

\* Every step of the threads of a connection keeps the invariant.
LEMMA WireStepInv ==
  ASSUME WireInv, NEW e \in End, WireStep(e)
  PROVE  WireInv'
<1>1. TypeOK'
  BY WireStepType DEF WireInv
<1>2. CASE ShakeWrite(e)
  BY <1>1, <1>2, ShakeWriteInv
<1>3. CASE ShakeRead(e)
  BY <1>1, <1>3, ShakeReadInv
<1>4. CASE Hangup(e)
  BY <1>4, ShutInv DEF Hangup
<1>5. CASE WriteMessage(e)
  <2> DEFINE f == Encrypted(sending[e], Head(queue[e]))
  <2>1. /\ st[e] = "up" /\ Head(queue[e]) \in Message /\ sending[e] \in Nat
        /\ stream' = [stream EXCEPT ![e] = Append(@, f)]
        /\ sending' = [sending EXCEPT ![e] = @ + 1]
        /\ UNCHANGED <<st, shakes, remote, receiving>>
    BY <1>5, WriteIs, EndTypes DEF WireInv
  <2>2. f \in Frame /\ f.kind = "message" /\ f.n = sending[e]
    BY <2>1, FramesMade
  <2> HIDE DEF f
  <2>3. QED
    BY <1>1, <2>1, <2>2, WriteInv
<1>6. CASE WritePing(e)
  <2>1. /\ st[e] = "up"
        /\ stream' = [stream EXCEPT ![e] = Append(@, Ping)]
        /\ UNCHANGED <<st, shakes, remote, sending, receiving>>
    BY <1>6 DEF WritePing, cipher
  <2>2. Ping \in Frame /\ Ping.kind = "ping"
    BY FramesMade
  <2>3. QED
    BY <1>1, <2>1, <2>2, WriteInv
<1>7. CASE ReadFrame(e)
  <2>1. /\ st[e] = "up" /\ stream[Other(e)] # <<>>
        /\ stream' = [stream EXCEPT ![Other(e)] = Tail(@)]
        /\ receiving' = IF Head(stream[Other(e)]).kind = "message"
                        THEN [receiving EXCEPT ![e] = @ + 1] ELSE receiving
        /\ UNCHANGED <<st, shakes, remote, sending>>
    BY <1>7, ReadIs
  <2>2. QED
    BY <1>1, <2>1, ReadInv
<1>8. CASE Run(e)
  <2>1. UNCHANGED <<st, shakes, remote, stream, sending, receiving>>
    BY <1>8 DEF Run, cipher
  <2>2. QED
    BY <1>1, <2>1, WireFrame DEF WireInv
<1>9. QED
  BY <1>2, <1>3, <1>4, <1>5, <1>6, <1>7, <1>8 DEF WireStep

\* A message handed over keeps the invariant.
LEMMA HandOverInv ==
  ASSUME WireInv, NEW e \in End, NEW m \in Message, HandOver(e, m)
  PROVE  WireInv'
<1>1. TypeOK'
  BY HandOverType DEF WireInv
<1>2. UNCHANGED <<st, shakes, remote, stream, sending, receiving>>
  BY DEF HandOver, cipher
<1>3. QED
  BY <1>1, <1>2, WireFrame DEF WireInv

\* The steps of AdvertPath, as the connection sees them.
LEMMA PathSteps ==
  ASSUME [Next]_vars
  PROVE  \/ \E e \in End, m \in Message : HandOver(e, m)
         \/ \E e \in End : WireStep(e)
         \/ UNCHANGED wvars
<1>1. ASSUME NEW d \in Noise \cup {Announcement(m) : m \in Hosted}, Pass(d)
      PROVE  (\E e \in End, m \in Message : HandOver(e, m)) \/ UNCHANGED wvars
  <2>1. \A p \in parse(d) : RelayGame(p.motd) \in Message
    BY HandedMessage
  <2>2. Near \in End
    BY PathAssumption
  <2>3. (\E p \in parse(d) : HandOver(Near, RelayGame(p.motd))) \/ UNCHANGED wvars
    BY <1>1 DEF Pass
  <2>4. QED
    BY <2>1, <2>2, <2>3
<1>2. CASE \E motd \in Hosted : HearGame(motd)
  BY <1>1, <1>2 DEF HearGame
<1>3. CASE \E d \in Noise : HearNoise(d)
  BY <1>1, <1>3 DEF HearNoise
<1>4. CASE \E e \in End, len \in PayloadLen : RelayPayload(e, len)
  BY <1>4, HandedMessage DEF RelayPayload
<1>5. CASE Show
  BY <1>5 DEF Show
<1>6. CASE UNCHANGED vars
  BY <1>6 DEF vars
<1>7. QED
  BY <1>2, <1>3, <1>4, <1>5, <1>6 DEF Next

\* Every step keeps the invariant.
LEMMA NextInv == WireInv /\ [Next]_vars => WireInv'
<1> SUFFICES ASSUME WireInv, [Next]_vars PROVE WireInv'
  OBVIOUS
<1>1. CASE UNCHANGED wvars
  <2>1. TypeOK'
    BY <1>1 DEF WireInv, TypeOK, wvars
  <2>2. UNCHANGED <<st, shakes, remote, stream, sending, receiving>>
    BY <1>1 DEF wvars
  <2>3. QED
    BY <2>1, <2>2, WireFrame DEF WireInv
<1>2. QED
  BY <1>1, PathSteps, HandOverInv, WireStepInv

\* A new connection satisfies the invariant.
LEMMA InitInv == Init => WireInv
<1> SUFFICES ASSUME WireInit PROVE WireInv
  BY DEF Init
<1>1. \A e \in End : /\ st[e] = "shaking" /\ shakes[e] = 0 /\ stream[e] = <<>>
                     /\ sending[e] = 0 /\ receiving[e] = 0
  BY DEF WireInit
<1>2. "initiator" \in End /\ "responder" \in End /\ \A e \in End : Other(e) \in End
  BY DEF End, Other
<1>3. Len(<<>>) = 0 /\ At(<<>>) = {} /\ Count(<<>>) = 0
  BY FS_EmptySet DEF At, Count
<1>4. TypeOK
  <2>1. <<>> \in Seq(Message) /\ <<>> \in Seq(Frame)
    BY EmptySeq
  <2>2. 0 \in 0..2
    OBVIOUS
  <2>3. QED
    BY <2>1, <2>2 DEF WireInit, TypeOK
<1>5. Progress
  BY <1>1, <1>2, <1>3 DEF Progress
<1>6. Leading
  BY <1>1, <1>2, <1>3 DEF Leading
<1>7. KeysKnown
  BY <1>1, <1>2 DEF KeysKnown
<1>8. \A e \in End : InStep(e) /\ Level(e)
  BY <1>1, <1>2, <1>3 DEF InStep, Level
<1>9. QED
  BY <1>4, <1>5, <1>6, <1>7, <1>8 DEF WireInv, Numbered

\* The invariant holds in every reachable state.
LEMMA WireAlways == Spec => []WireInv
BY InitInv, NextInv, PTL DEF Spec

\* Both ends of a connection keep their types.
THEOREM TypeCorrect == Spec => []TypeOK
<1>1. WireInv => TypeOK
  BY DEF WireInv
<1>2. QED
  BY <1>1, WireAlways, PTL

\* Payloads and MOTDs in any order and number, pings anywhere between them,
\* any number of them unread, an end that runs long after the other, and a
\* stream that breaks anywhere never put the ciphers out of step or overrun a
\* frame, and an end that is up knows the other's key.
THEOREM ConnectionSound == Spec => []NoOwnFault
<1>1. WireInv => NoOwnFault
  <2> SUFFICES ASSUME WireInv, NEW e \in End
               PROVE  /\ st[e] \notin {"garbled", "too long"}
                      /\ shakes[e] = 2 => remote[e] = {KeyOf[Other(e)]}
    BY DEF NoOwnFault
  <2>1. st[e] \in {"shaking", "up", "closed"}
    BY DEF WireInv, Progress
  <2>2. shakes[e] = 2 => remote[e] = {KeyOf[Other(e)]}
    BY DEF WireInv, KeysKnown, End, Other
  <2>3. QED
    BY <2>1, <2>2
<1>2. QED
  BY <1>1, WireAlways, PTL

-----------------------------------------------------------------------------
(* The messages on a stream. *)

\* The message of rank i is the i-th one.
LEMMA MessagesAre ==
  ASSUME NEW s \in Seq(Frame)
  PROVE  /\ Messages(s) \in Seq(Message) /\ Len(Messages(s)) = Count(s) /\ Count(s) \in Nat
         /\ \A j \in At(s) : /\ Rank(s, j) \in 1..Count(s)
                             /\ Messages(s)[Rank(s, j)] = s[j].msg
<1> DEFINE n == Count(s)
           c(i) == CHOOSE j \in At(s) : Rank(s, j) = i
<1>1. n \in Nat /\ At(s) \subseteq 1..Len(s)
  BY RankIs
<1>2. /\ \A j \in At(s) : Rank(s, j) \in 1..n
      /\ \A j, k \in At(s) : Rank(s, j) = Rank(s, k) => j = k
      /\ \A i \in 1..n : \E j \in At(s) : Rank(s, j) = i
  BY Ranked
<1>3. ASSUME NEW i \in 1..n PROVE c(i) \in At(s) /\ Rank(s, c(i)) = i
  BY <1>2
<1>4. ASSUME NEW j \in At(s) PROVE s[j].msg \in Message
  <2>1. s[j] \in Frame
    BY <1>1, ElementOfSeq
  <2>2. s[j].kind = "message"
    BY DEF At
  <2>3. QED
    BY <2>1, <2>2, FrameParts
<1>5. Messages(s) = [i \in 1..n |-> s[c(i)].msg]
  BY DEF Messages, Count
<1> HIDE DEF n, c
<1>6. Messages(s) \in [1..n -> Message]
  BY <1>3, <1>4, <1>5
<1>7. Messages(s) \in Seq(Message)
  BY <1>1, <1>6, SeqDef
<1>8. Len(Messages(s)) = n
  BY <1>1, <1>5, <1>7
<1>9. ASSUME NEW j \in At(s) PROVE Messages(s)[Rank(s, j)] = s[j].msg
  <2>1. Rank(s, j) \in 1..n
    BY <1>2
  <2>2. c(Rank(s, j)) = j
    BY <1>2, <1>3, <2>1
  <2>3. QED
    BY <1>5, <2>1, <2>2
<1>10. QED
  BY <1>1, <1>2, <1>7, <1>8, <1>9 DEF n

\* The messages of a stream are known by their ranks.
LEMMA MessagesEqual ==
  ASSUME NEW s \in Seq(Frame), NEW t \in Seq(Message), Len(t) = Count(s),
         \A j \in At(s) : t[Rank(s, j)] = s[j].msg
  PROVE  Messages(s) = t
<1>1. /\ Messages(s) \in Seq(Message) /\ Len(Messages(s)) = Count(s)
      /\ \A j \in At(s) : Messages(s)[Rank(s, j)] = s[j].msg
  BY MessagesAre
<1>2. \A i \in 1..Count(s) : \E j \in At(s) : Rank(s, j) = i
  BY Ranked
<1>3. \A i \in 1..Count(s) : Messages(s)[i] = t[i]
  BY <1>1, <1>2
<1>4. QED
  BY <1>1, <1>3, SeqEqual

\* An empty stream carries nothing.
LEMMA MessagesNone == Messages(<<>>) = <<>>
<1>1. <<>> \in Seq(Frame) /\ Count(<<>>) = 0
  BY EmptySeq, FS_EmptySet DEF At, Count
<1>2. Messages(<<>>) \in Seq(Message) /\ Len(Messages(<<>>)) = 0
  BY <1>1, MessagesAre
<1>3. QED
  BY <1>2, NoneSeq

\* A ping or a handshake message, wherever it is written, carries nothing.
LEMMA MessagesPlain ==
  ASSUME NEW s \in Seq(Frame), NEW f \in Frame, f.kind # "message"
  PROVE  Messages(Append(s, f)) = Messages(s)
<1> DEFINE t == Append(s, f)
<1>1. t \in Seq(Frame) /\ \A j \in At(s) : t[j] = s[j]
  BY AppendSeq, RankIs
<1>2. At(t) = At(s) /\ Count(t) = Count(s) /\ \A j \in At(s) : Rank(t, j) = Rank(s, j)
  BY RankAppend DEF Count
<1>3. /\ Messages(s) \in Seq(Message) /\ Len(Messages(s)) = Count(s)
      /\ \A j \in At(s) : Messages(s)[Rank(s, j)] = s[j].msg
  BY MessagesAre
<1> HIDE DEF t
<1>4. \A j \in At(t) : Messages(s)[Rank(t, j)] = t[j].msg
  BY <1>1, <1>2, <1>3
<1>5. Messages(t) = Messages(s)
  BY <1>1, <1>2, <1>3, <1>4, MessagesEqual
<1>6. QED
  BY <1>5 DEF t

\* A message written comes last.
LEMMA MessagesWrite ==
  ASSUME NEW s \in Seq(Frame), NEW n \in Nat, NEW m \in Message
  PROVE  Messages(Append(s, Encrypted(n, m))) = Append(Messages(s), m)
<1> DEFINE f == Encrypted(n, m)
           t == Append(s, f)
           u == Append(Messages(s), m)
<1>1. f \in Frame /\ f.kind = "message" /\ f.msg = m
  BY FramesMade
<1>2. t \in Seq(Frame) /\ t[Len(s) + 1] = f /\ \A j \in At(s) : t[j] = s[j]
  BY <1>1, AppendSeq, RankIs
<1>3. /\ At(t) = At(s) \cup {Len(s) + 1} /\ Count(t) = Count(s) + 1
      /\ Rank(t, Len(s) + 1) = Count(s) + 1 /\ \A j \in At(s) : Rank(t, j) = Rank(s, j)
  BY <1>1, RankAppend
<1>4. /\ Messages(s) \in Seq(Message) /\ Len(Messages(s)) = Count(s)
      /\ \A j \in At(s) : /\ Rank(s, j) \in 1..Count(s)
                          /\ Messages(s)[Rank(s, j)] = s[j].msg
  BY MessagesAre
<1>5. /\ u \in Seq(Message) /\ Len(u) = Count(s) + 1
      /\ \A i \in 1..Count(s) : u[i] = Messages(s)[i]
      /\ u[Count(s) + 1] = m
  BY <1>4, AppendSeq
<1> HIDE DEF f, t, u
<1>6. \A j \in At(t) : u[Rank(t, j)] = t[j].msg
  BY <1>1, <1>2, <1>3, <1>4, <1>5
<1>7. Messages(t) = u
  BY <1>2, <1>3, <1>5, <1>6, MessagesEqual
<1>8. QED
  BY <1>7 DEF t, f, u

\* A frame read was the first: a message, or nothing that counts.
LEMMA MessagesRead ==
  ASSUME NEW s \in Seq(Frame), s # <<>>
  PROVE  /\ Head(s).kind # "message" => Messages(Tail(s)) = Messages(s)
         /\ Head(s).kind = "message" =>
              /\ Messages(s) # <<>> /\ Head(Messages(s)) = Head(s).msg
              /\ Messages(Tail(s)) = Tail(Messages(s))
<1> DEFINE t == Tail(s)
           m == Messages(s)
           d == IF Head(s).kind = "message" THEN 1 ELSE 0
<1>1. t \in Seq(Frame) /\ Head(s) = s[1]
  BY TailSeq
<1>2. /\ \A j \in At(t) : /\ j + 1 \in At(s) /\ t[j] = s[j + 1]
                          /\ Rank(t, j) = Rank(s, j + 1) - d
      /\ Count(t) = Count(s) - d
      /\ Head(s).kind = "message" => 1 \in At(s) /\ Rank(s, 1) = 1
  BY RankTail
<1>3. /\ m \in Seq(Message) /\ Len(m) = Count(s) /\ Count(s) \in Nat
      /\ \A j \in At(s) : Rank(s, j) \in 1..Count(s) /\ m[Rank(s, j)] = s[j].msg
  BY MessagesAre
<1>4. \A j \in At(t) : Rank(t, j) \in 1..Count(t)
  BY <1>1, MessagesAre
<1>5. CASE Head(s).kind # "message"
  <2>1. d = 0
    BY <1>5
  <2> HIDE DEF t, m, d
  <2>2. Count(t) = Count(s) /\ \A j \in At(t) : Rank(t, j) = Rank(s, j + 1)
    BY <1>2, <1>3, <2>1
  <2>3. \A j \in At(t) : m[Rank(t, j)] = t[j].msg
    BY <1>2, <1>3, <2>2
  <2>4. Messages(t) = m
    BY <1>1, <1>3, <2>2, <2>3, MessagesEqual
  <2>5. QED
    BY <1>5, <2>4 DEF t, m
<1>6. CASE Head(s).kind = "message"
  <2>1. d = 1 /\ 1 \in At(s) /\ Rank(s, 1) = 1
    BY <1>2, <1>6
  <2> HIDE DEF t, m, d
  <2>2. m[1] = Head(s).msg /\ 1 \in 1..Count(s)
    BY <1>1, <1>3, <2>1
  <2>3. m # <<>>
    BY <1>3, <2>2, NoneSeq
  <2>4. /\ Head(m) = m[1] /\ Tail(m) \in Seq(Message) /\ Len(Tail(m)) = Count(s) - 1
        /\ \A i \in 1..(Count(s) - 1) : Tail(m)[i] = m[i + 1]
    BY <1>3, <2>3, TailSeq
  <2>5. ASSUME NEW j \in At(t) PROVE Tail(m)[Rank(t, j)] = t[j].msg
    <3>1. Rank(t, j) \in 1..(Count(s) - 1) /\ Rank(t, j) + 1 = Rank(s, j + 1)
      <4>1. /\ Rank(t, j) = Rank(s, j + 1) - 1 /\ Rank(s, j + 1) \in 1..Count(s)
            /\ Rank(t, j) \in 1..Count(t) /\ Count(t) = Count(s) - 1
        BY <1>2, <1>3, <1>4, <2>1
      <4>2. QED
        BY ONLY <1>3, <4>1
    <3>2. m[Rank(s, j + 1)] = t[j].msg
      BY <1>2, <1>3
    <3>3. QED
      BY <2>4, <3>1, <3>2
  <2>6. Messages(t) = Tail(m)
    BY <1>1, <1>2, <2>1, <2>4, <2>5, MessagesEqual
  <2>7. QED
    BY <1>6, <2>2, <2>3, <2>4, <2>6 DEF t, m
<1>7. QED
  BY <1>5, <1>6

\* What arrives of a stream that breaks is a part of the messages on it, and of
\* what was still to follow.
LEMMA MessagesBreak ==
  ASSUME NEW s \in Seq(Frame), NEW n \in 0..Len(s), NEW q \in Seq(Message)
  PROVE  \E i \in 0..Len(Messages(s) \o q) :
           Messages(SubSeq(s, 1, n)) = SubSeq(Messages(s) \o q, 1, i)
<1> DEFINE t == SubSeq(s, 1, n)
           m == Messages(s)
           w == m \o q
           c == Count(t)
<1>1. t \in Seq(Frame)
  BY PrefixSeq
<1>2. /\ \A j \in At(t) : j \in At(s) /\ t[j] = s[j] /\ Rank(t, j) = Rank(s, j)
      /\ c \in 0..Count(s)
  BY RankPrefix
<1>3. /\ m \in Seq(Message) /\ Len(m) = Count(s) /\ Count(s) \in Nat
      /\ \A j \in At(s) : Rank(s, j) \in 1..Count(s) /\ m[Rank(s, j)] = s[j].msg
  BY MessagesAre
<1>4. \A j \in At(t) : Rank(t, j) \in 1..c
  BY <1>1, MessagesAre
<1>5. /\ w \in Seq(Message) /\ Len(w) = Len(m) + Len(q) /\ Len(q) \in Nat
      /\ \A j \in 1..(Len(m) + Len(q)) : w[j] = IF j <= Len(m) THEN m[j] ELSE q[j - Len(m)]
  BY <1>3, ConcatProperties, LenProperties
<1> DEFINE u == SubSeq(w, 1, c)
<1> HIDE DEF t, m, w, c
<1>6. c \in 0..Len(w) /\ \A i \in 1..Count(s) : w[i] = m[i]
  <2>1. Len(w) = Count(s) + Len(q)
    BY <1>3, <1>5
  <2>2. c \in 0..Len(w)
    BY <1>2, <1>3, <1>5, <2>1
  <2>3. \A i \in 1..Count(s) : i \in 1..(Len(m) + Len(q)) /\ i <= Len(m)
    BY <1>3, <1>5
  <2>4. QED
    BY <1>5, <2>2, <2>3
<1>7. u \in Seq(Message) /\ Len(u) = c /\ \A i \in 1..c : u[i] = w[i]
  BY <1>5, <1>6, PrefixSeq
<1> HIDE DEF u
<1>8. \A j \in At(t) : u[Rank(t, j)] = t[j].msg
  BY <1>2, <1>3, <1>4, <1>6, <1>7
<1>9. Messages(t) = u
  BY <1>1, <1>7, <1>8, MessagesEqual DEF c
<1>10. QED
  BY <1>6, <1>9 DEF t, u, w, m

-----------------------------------------------------------------------------
(* The connection as a session. *)

\* What is handed over at e and not yet received at the other end.
UnderWay(e) == Messages(stream[e]) \o queue[e]

\* The two variables of the session, end by end.
LEMMA SessionIs ==
  /\ SessionPhase = [e \in End |-> CASE st[e] = "shaking" -> "new" [] st[e] = "up" -> "up"
                                     [] OTHER -> "dropped"]
  /\ SessionWire = [e \in End |-> IF SessionPhase[Other(e)] = "dropped" THEN <<>> ELSE UnderWay(e)]
BY DEF SessionPhase, SessionWire, UnderWay

LEMMA PhaseIs ==
  ASSUME NEW e \in End
  PROVE  /\ SessionPhase[e] = "new" <=> st[e] = "shaking"
         /\ SessionPhase[e] = "up" <=> st[e] = "up"
         /\ SessionPhase[e] = "dropped" <=> st[e] \notin {"shaking", "up"}
BY DEF SessionPhase

\* The same of the next state.
LEMMA NextSessionIs ==
  /\ SessionPhase' = [e \in End |-> CASE st'[e] = "shaking" -> "new" [] st'[e] = "up" -> "up"
                                      [] OTHER -> "dropped"]
  /\ SessionWire' = [e \in End |-> IF SessionPhase'[Other(e)] = "dropped" THEN <<>> ELSE UnderWay(e)']
  /\ \A e \in End : /\ SessionPhase'[e] = "new" <=> st'[e] = "shaking"
                    /\ SessionPhase'[e] = "up" <=> st'[e] = "up"
                    /\ SessionPhase'[e] = "dropped" <=> st'[e] \notin {"shaking", "up"}
BY DEF SessionPhase, SessionWire, UnderWay

LEMMA WireOnEnds ==
  /\ SessionWire = [e \in End |-> SessionWire[e]]
  /\ SessionWire' = [e \in End |-> SessionWire'[e]]
BY DEF SessionWire

\* What lies on the streams of a connection.
LEMMA StreamsType ==
  ASSUME WireInv, NEW e \in End
  PROVE  /\ stream[e] \in Seq(Frame) /\ Messages(stream[e]) \in Seq(Message)
         /\ queue[e] \in Seq(Message) /\ UnderWay(e) \in Seq(Message)
<1>1. stream[e] \in Seq(Frame) /\ queue[e] \in Seq(Message)
  BY EndTypes DEF WireInv
<1>2. Messages(stream[e]) \in Seq(Message)
  BY <1>1, MessagesAre
<1>3. QED
  BY <1>1, <1>2, ConcatProperties DEF UnderWay

\* Steps that move nothing under way and establish or drop nobody.
LEMMA SameWire ==
  ASSUME \A e \in End : st'[e] \notin {"shaking", "up"} <=> st[e] \notin {"shaking", "up"},
         \A e \in End : UnderWay(e)' = UnderWay(e)
  PROVE  SessionWire' = SessionWire
<1>1. \A e \in End : SessionPhase'[Other(e)] = "dropped" <=> SessionPhase[Other(e)] = "dropped"
  BY PhaseIs, NextSessionIs, Ends
<1>2. QED
  BY <1>1, SessionIs, NextSessionIs

\* RelayConnectionHandle::send hands a message to the session, or to nobody.
LEMMA SessionHandOver ==
  ASSUME WireInv, NEW e \in End, NEW m \in Message, HandOver(e, m)
  PROVE  [Session!SessionNext]_(Session!svars)
<1> DEFINE o == Other(e)
<1>1. o \in End /\ o # e /\ Other(o) = e /\ \A x \in End : x = e \/ x = o
  BY Ends
<1>2. /\ st[e] = "up" /\ queue' = [queue EXCEPT ![e] = Append(@, m)]
      /\ UNCHANGED <<st, stream, got>>
  BY DEF HandOver
<1>3. SessionPhase' = SessionPhase
  BY <1>2, SessionIs, NextSessionIs
<1>4. UnderWay(o)' = UnderWay(o)
  BY <1>1, <1>2 DEF UnderWay, WireInv, TypeOK
<1>5. UnderWay(e)' = Append(UnderWay(e), m)
  <2>1. queue'[e] = Append(queue[e], m) /\ stream'[e] = stream[e]
    BY <1>2 DEF WireInv, TypeOK
  <2>2. Messages(stream[e]) \in Seq(Message) /\ queue[e] \in Seq(Message)
    BY StreamsType
  <2>3. ASSUME NEW a \in Seq(Message), NEW b \in Seq(Message)
        PROVE  a \o Append(b, m) = Append(a \o b, m)
    BY ONLY <2>3, m \in Message, AppendConcat
  <2>4. Messages(stream[e]) \o Append(queue[e], m) = Append(Messages(stream[e]) \o queue[e], m)
    BY <2>2, <2>3, Zenon
  <2>5. QED
    BY <2>1, <2>4 DEF UnderWay
<1>6. SessionPhase[e] = "up"
  BY <1>2, PhaseIs
<1>7. CASE SessionPhase[o] = "dropped"
  <2>1. SessionWire' = SessionWire
    BY <1>1, <1>3, <1>4, <1>7, SessionIs, NextSessionIs
  <2>2. QED
    BY <1>2, <1>3, <2>1 DEF Session!svars
<1>8. CASE SessionPhase[o] # "dropped"
  <2>1. SessionWire' = [SessionWire EXCEPT ![e] = Append(@, m)]
    BY <1>1, <1>3, <1>4, <1>5, <1>8, SessionIs, NextSessionIs
  <2>2. Session!Send(e, m)
    BY <1>2, <1>3, <1>6, <2>1 DEF Session!Send
  <2>3. QED
    BY <2>2 DEF Session!SessionNext
<1>9. QED
  BY <1>7, <1>8

\* A handshake message counted moves no message, and establishes an end with
\* the second one.
LEMMA SessionShake ==
  ASSUME WireInv, NEW e \in End, st[e] = "shaking", Shaken(e), got' = got,
         \A x \in End : UnderWay(x)' = UnderWay(x),
         e = "initiator" /\ shakes[e] = 1 => st["responder"] # "shaking"
  PROVE  [Session!SessionNext]_(Session!svars)
<1> DEFINE o == Other(e)
<1>1. o \in End /\ o # e /\ \A x \in End : x = e \/ x = o
  BY Ends
<1>2. /\ shakes[e] \in {0, 1} /\ st'[o] = st[o]
      /\ st'[e] = (IF shakes[e] = 0 THEN "shaking" ELSE "up")
  BY ShakenIs DEF WireInv
<1>3. SessionWire' = SessionWire
  <2>1. \A x \in End : st'[x] \notin {"shaking", "up"} <=> st[x] \notin {"shaking", "up"}
    BY <1>1, <1>2
  <2>2. QED
    BY <2>1, SameWire
<1>4. CASE shakes[e] = 0
  <2>1. \A x \in End : st'[x] = st[x]
    BY <1>1, <1>2, <1>4
  <2>2. SessionPhase' = SessionPhase
    BY <2>1, SessionIs, NextSessionIs
  <2>3. QED
    BY <1>3, <2>2 DEF Session!svars
<1>5. CASE shakes[e] = 1
  <2>1. st'[e] = "up"
    BY <1>2, <1>5
  <2>2. SessionPhase' = [SessionPhase EXCEPT ![e] = "up"]
    BY <1>1, <1>2, <2>1, SessionIs, NextSessionIs
  <2>3. SessionPhase[e] = "new"
    BY PhaseIs
  <2>4. e = "initiator" => SessionPhase[Other(e)] # "new"
    BY <1>5, PhaseIs, Ends
  <2>5. Session!Establish(e)
    BY <1>3, <2>2, <2>3, <2>4 DEF Session!Establish
  <2>6. QED
    BY <2>5 DEF Session!SessionNext
<1>6. QED
  BY <1>2, <1>4, <1>5

\* Both steps of the handshake, as steps of the session.
LEMMA SessionShakeWrite ==
  ASSUME WireInv, NEW e \in End, ShakeWrite(e)
  PROVE  [Session!SessionNext]_(Session!svars)
<1> DEFINE o == Other(e)
           f == Shake(KeyOf[e])
<1>1. o \in End /\ o # e /\ \A x \in End : x = e \/ x = o
  BY Ends
<1>2. /\ st[e] = "shaking" /\ Shaken(e) /\ queue' = queue /\ got' = got
      /\ stream' = [stream EXCEPT ![e] = Append(@, f)]
  BY DEF ShakeWrite
<1>3. e = "initiator" => shakes[e] = 0
  BY ShakeWriteFirst
<1>4. f \in Frame /\ f.kind # "message"
  BY FramesMade
<1>5. stream'[e] = Append(stream[e], f) /\ stream'[o] = stream[o] /\ stream[e] \in Seq(Frame)
  BY <1>1, <1>2 DEF WireInv, TypeOK
<1>6. Messages(stream'[e]) = Messages(stream[e])
  BY <1>4, <1>5, MessagesPlain
<1>7. \A x \in End : UnderWay(x)' = UnderWay(x)
  BY <1>1, <1>2, <1>5, <1>6 DEF UnderWay
<1>8. e = "initiator" /\ shakes[e] = 1 => st["responder"] # "shaking"
  BY <1>3
<1>9. QED
  BY <1>2, <1>7, <1>8, SessionShake

LEMMA SessionShakeRead ==
  ASSUME WireInv, NEW e \in End, ShakeRead(e)
  PROVE  [Session!SessionNext]_(Session!svars)
<1> DEFINE o == Other(e)
<1>1. o \in End /\ o # e /\ Other(o) = e /\ \A x \in End : x = e \/ x = o
  BY Ends
<1>2. /\ st[e] = "shaking" /\ Shaken(e) /\ queue' = queue /\ got' = got
      /\ stream[o] # <<>> /\ stream' = [stream EXCEPT ![o] = Tail(@)]
  BY DEF ShakeRead
<1>3. stream[o] \in Seq(Frame)
  BY <1>1, StreamsType
<1>4. Head(stream[o]).kind # "message"
  <2>1. Head(stream[o]) = stream[o][1]
    BY <1>2, <1>3, TailSeq
  <2>2. stream[o][1] = Shake(KeyOf[o])
    BY <1>1, <1>2 DEF WireInv, Leading
  <2>3. QED
    BY <1>1, <2>1, <2>2, FramesMade
<1>5. stream'[o] = Tail(stream[o]) /\ stream'[e] = stream[e]
  BY <1>1, <1>2 DEF WireInv, TypeOK
<1>6. Messages(Tail(stream[o])) = Messages(stream[o])
  BY <1>2, <1>3, <1>4, MessagesRead
<1>7. \A x \in End : UnderWay(x)' = UnderWay(x)
  BY <1>1, <1>2, <1>5, <1>6 DEF UnderWay
<1>8. e = "initiator" => st["responder"] # "shaking"
  <2> SUFFICES ASSUME e = "initiator" PROVE st["responder"] # "shaking"
    OBVIOUS
  <2>1. stream["responder"] # <<>> /\ "responder" \in End
    BY <1>2, Ends
  <2>2. QED
    BY <2>1 DEF WireInv, Progress
<1>9. QED
  BY <1>2, <1>7, <1>8, SessionShake

\* A message that is written stays under way, and so does what a ping is
\* written after.
LEMMA SessionWrite ==
  ASSUME WireInv, NEW e \in End, WriteMessage(e) \/ WritePing(e)
  PROVE  UNCHANGED Session!svars
<1> DEFINE o == Other(e)
<1>1. o \in End /\ o # e /\ \A x \in End : x = e \/ x = o
  BY Ends
<1>2. st' = st /\ got' = got
  BY WriteIs DEF WritePing
<1>3. UnderWay(e)' = UnderWay(e) /\ UnderWay(o)' = UnderWay(o)
  <2>1. CASE WriteMessage(e)
    <3> DEFINE a == Messages(stream[e])
               q == queue[e]
               m == Head(q)
    <3>1. /\ q # <<>> /\ m \in Message /\ queue' = [queue EXCEPT ![e] = Tail(@)]
          /\ stream' = [stream EXCEPT ![e] = Append(@, Encrypted(sending[e], m))]
      BY <2>1, WriteIs
    <3>2. /\ queue'[e] = Tail(q) /\ stream'[e] = Append(stream[e], Encrypted(sending[e], m))
          /\ queue'[o] = queue[o] /\ stream'[o] = stream[o]
      BY <1>1, <3>1 DEF WireInv, TypeOK
    <3>3. stream[e] \in Seq(Frame) /\ a \in Seq(Message) /\ q \in Seq(Message) /\ sending[e] \in Nat
      BY StreamsType, EndTypes DEF WireInv
    <3>4. Messages(stream'[e]) = Append(a, m)
      BY <3>1, <3>2, <3>3, MessagesWrite
    <3> HIDE DEF a, q
    <3>5. Append(a, Head(q)) \o Tail(q) = a \o q
      BY <3>1, <3>3, MoveHead
    <3>6. QED
      BY <3>2, <3>4, <3>5 DEF UnderWay, a, q
  <2>2. CASE WritePing(e)
    <3>1. queue' = queue /\ stream' = [stream EXCEPT ![e] = Append(@, Ping)]
      BY <2>2 DEF WritePing
    <3>2. stream'[e] = Append(stream[e], Ping) /\ stream'[o] = stream[o] /\ stream[e] \in Seq(Frame)
      BY <1>1, <3>1 DEF WireInv, TypeOK
    <3>3. Ping \in Frame /\ Ping.kind # "message"
      BY FramesMade
    <3>4. Messages(stream'[e]) = Messages(stream[e])
      BY <3>2, <3>3, MessagesPlain
    <3>5. QED
      BY <3>1, <3>2, <3>4 DEF UnderWay
  <2>3. QED
    BY <2>1, <2>2
<1>4. SessionWire' = SessionWire
  <2>1. \A x \in End : UnderWay(x)' = UnderWay(x)
    BY <1>1, <1>3
  <2>2. QED
    BY <1>2, <2>1, SameWire
<1>5. SessionPhase' = SessionPhase
  BY <1>2, SessionIs, NextSessionIs
<1>6. QED
  BY <1>2, <1>4, <1>5 DEF Session!svars

\* A frame that is read is a message received, or a ping that nobody notices.
LEMMA SessionRead ==
  ASSUME WireInv, NEW e \in End, ReadFrame(e)
  PROVE  [Session!SessionNext]_(Session!svars)
<1> DEFINE o == Other(e)
           f == Head(stream[o])
<1>1. o \in End /\ o # e /\ Other(o) = e /\ \A x \in End : x = e \/ x = o
  BY Ends
<1>2. /\ st[e] = "up" /\ stream[o] # <<>> /\ stream' = [stream EXCEPT ![o] = Tail(@)]
      /\ got' = IF f.kind = "message" THEN [got EXCEPT ![e] = Append(@, f.msg)] ELSE got
      /\ st' = st /\ queue' = queue
  BY ReadIs
<1>3. stream[o] \in Seq(Frame) /\ Messages(stream[o]) \in Seq(Message) /\ queue[o] \in Seq(Message)
  BY <1>1, StreamsType
<1>4. stream'[o] = Tail(stream[o]) /\ stream'[e] = stream[e]
  BY <1>1, <1>2 DEF WireInv, TypeOK
<1>5. SessionPhase' = SessionPhase
  BY <1>2, SessionIs, NextSessionIs
<1>6. UnderWay(e)' = UnderWay(e)
  BY <1>2, <1>4 DEF UnderWay
<1>7. CASE f.kind # "message"
  <2>1. Messages(Tail(stream[o])) = Messages(stream[o])
    BY <1>2, <1>3, <1>7, MessagesRead
  <2>2. \A x \in End : UnderWay(x)' = UnderWay(x)
    BY <1>1, <1>2, <1>4, <1>6, <2>1 DEF UnderWay
  <2>3. SessionWire' = SessionWire
    BY <1>2, <2>2, SameWire
  <2>4. QED
    BY <1>2, <1>5, <1>7, <2>3 DEF Session!svars
<1>8. CASE f.kind = "message"
  <2> DEFINE a == Messages(stream[o])
             q == queue[o]
  <2>1. a # <<>> /\ Head(a) = f.msg /\ Messages(Tail(stream[o])) = Tail(a)
    BY <1>2, <1>3, <1>8, MessagesRead
  <2>2. a \in Seq(Message) /\ q \in Seq(Message)
    BY <1>3
  <2>3. UnderWay(o) = a \o q /\ UnderWay(o)' = Tail(a) \o q
    BY <1>2, <1>4, <2>1 DEF UnderWay
  <2> HIDE DEF a, q
  <2>4. a \o q # <<>> /\ Head(a \o q) = Head(a) /\ Tail(a \o q) = Tail(a) \o q
    BY <2>1, <2>2, ConcatHead
  <2>5. UnderWay(o) # <<>> /\ f.msg = Head(UnderWay(o)) /\ UnderWay(o)' = Tail(UnderWay(o))
    BY <2>1, <2>3, <2>4
  <2>6. SessionPhase[e] = "up"
    BY <1>2, PhaseIs
  <2>7. SessionWire[o] = UnderWay(o)
    BY <1>1, <2>6, SessionIs
  <2>8. SessionWire' = [SessionWire EXCEPT ![o] = Tail(@)]
    <3>1. SessionWire'[o] = Tail(SessionWire[o])
      BY <1>1, <1>5, <2>5, <2>6, <2>7, NextSessionIs
    <3>2. SessionWire'[e] = SessionWire[e]
      BY <1>1, <1>5, <1>6, SessionIs, NextSessionIs
    <3>3. QED
      BY <1>1, <3>1, <3>2, WireOnEnds
  <2>9. Session!Receive(e)
    BY <1>2, <1>5, <1>8, <2>5, <2>6, <2>7, <2>8 DEF Session!Receive
  <2>10. QED
    BY <2>9 DEF Session!SessionNext
<1>9. QED
  BY <1>7, <1>8

\* A connection that breaks, whatever of its stream still arrives, is a session
\* dropped.
LEMMA SessionHangup ==
  ASSUME WireInv, NEW e \in End, Hangup(e)
  PROVE  Session!SessionNext
<1> DEFINE o == Other(e)
<1>1. o \in End /\ o # e /\ Other(o) = e /\ \A x \in End : x = e \/ x = o
  BY Ends
<1>2. PICK n \in 0..Len(stream[e]) :
        /\ st[e] \in {"shaking", "up"} /\ st' = [st EXCEPT ![e] = "closed"]
        /\ queue' = [queue EXCEPT ![e] = <<>>] /\ got' = got
        /\ stream' = [stream EXCEPT ![e] = SubSeq(@, 1, n), ![Other(e)] = <<>>]
  BY DEF Hangup, Shut
<1>3. st'[e] = "closed" /\ st'[o] = st[o]
  BY <1>1, <1>2 DEF WireInv, TypeOK
<1>4. queue'[e] = <<>> /\ stream'[e] = SubSeq(stream[e], 1, n)
  BY <1>1, <1>2 DEF WireInv, TypeOK
<1>5. SessionPhase[e] # "dropped" /\ SessionPhase' = [SessionPhase EXCEPT ![e] = "dropped"]
  BY <1>1, <1>2, <1>3, PhaseIs, SessionIs, NextSessionIs
<1>6. SessionWire'[o] = <<>>
  BY <1>1, <1>5, NextSessionIs, SessionIs
<1>7. PICK i \in 0..Len(SessionWire[e]) : SessionWire'[e] = SubSeq(SessionWire[e], 1, i)
  <2>1. CASE SessionPhase[o] = "dropped"
    <3>1. SessionWire[e] = <<>> /\ SessionWire'[e] = <<>>
      BY <1>1, <1>5, <2>1, SessionIs, NextSessionIs
    <3>2. 0 \in 0..Len(<<>>) /\ SubSeq(<<>>, 1, 0) = <<>>
      OBVIOUS
    <3>3. QED
      BY <3>1, <3>2
  <2>2. CASE SessionPhase[o] # "dropped"
    <3>1. SessionWire[e] = UnderWay(e) /\ SessionWire'[e] = UnderWay(e)'
      BY <1>1, <1>5, <2>2, SessionIs, NextSessionIs
    <3>2. stream[e] \in Seq(Frame) /\ queue[e] \in Seq(Message)
      BY StreamsType
    <3>3. \E i \in 0..Len(UnderWay(e)) : Messages(stream'[e]) = SubSeq(UnderWay(e), 1, i)
      BY <1>4, <3>2, MessagesBreak DEF UnderWay
    <3>4. UnderWay(e)' = Messages(stream'[e])
      <4>1. Messages(stream'[e]) \in Seq(Message)
        BY <1>4, <3>2, PrefixSeq, MessagesAre
      <4>2. Messages(stream'[e]) \o <<>> = Messages(stream'[e])
        BY <4>1, ConcatEmptySeq
      <4>3. QED
        BY <1>4, <4>2 DEF UnderWay
    <3>5. QED
      BY <3>1, <3>3, <3>4
  <2>3. QED
    BY <2>1, <2>2
<1>8. SessionWire' = [SessionWire EXCEPT ![e] = SubSeq(@, 1, i), ![Other(e)] = <<>>]
  <2> DEFINE w == [SessionWire EXCEPT ![e] = SubSeq(@, 1, i), ![Other(e)] = <<>>]
  <2>1. w = [x \in End |-> w[x]] /\ w[e] = SubSeq(SessionWire[e], 1, i) /\ w[o] = <<>>
    BY <1>1, WireOnEnds
  <2>2. SessionWire'[e] = w[e] /\ SessionWire'[o] = w[o]
    BY <1>6, <1>7, <2>1
  <2> HIDE DEF w
  <2>3. SessionWire' = w
    BY <1>1, <2>1, <2>2, WireOnEnds
  <2>4. QED
    BY <2>3 DEF w
<1>9. Session!Drop(e)
  BY <1>2, <1>5, <1>8 DEF Session!Drop
<1>10. QED
  BY <1>9 DEF Session!SessionNext

\* Every step of the connection is a step of the session, or none of it.
LEMMA StepIsSession == WireInv /\ [Next]_vars => [Session!SessionNext]_(Session!svars)
<1> SUFFICES ASSUME WireInv, [Next]_vars PROVE [Session!SessionNext]_(Session!svars)
  OBVIOUS
<1>1. ASSUME UNCHANGED <<st, stream, queue, got>> PROVE UNCHANGED Session!svars
  <2>1. SessionPhase' = SessionPhase
    BY <1>1, SessionIs, NextSessionIs
  <2>2. \A e \in End : UnderWay(e)' = UnderWay(e)
    BY <1>1 DEF UnderWay
  <2>3. SessionWire' = SessionWire
    BY <1>1, <2>2, SameWire
  <2>4. QED
    BY <1>1, <2>1, <2>3 DEF Session!svars
<1>2. ASSUME NEW e \in End, WireStep(e) PROVE [Session!SessionNext]_(Session!svars)
  <2>1. CASE ShakeWrite(e)
    BY <2>1, SessionShakeWrite
  <2>2. CASE ShakeRead(e)
    BY <2>2, SessionShakeRead
  <2>3. CASE Hangup(e)
    BY <2>3, SessionHangup
  <2>4. CASE WriteMessage(e) \/ WritePing(e)
    BY <2>4, SessionWrite
  <2>5. CASE ReadFrame(e)
    BY <2>5, SessionRead
  <2>6. CASE Run(e)
    BY <1>1, <2>6 DEF Run
  <2>7. QED
    BY <1>2, <2>1, <2>2, <2>3, <2>4, <2>5, <2>6 DEF WireStep
<1>3. CASE UNCHANGED wvars
  BY <1>1, <1>3 DEF wvars
<1>4. QED
  BY <1>2, <1>3, PathSteps, SessionHandOver

\* A new connection is a new session.
LEMMA InitIsSession == Init => Session!SessionInit
<1> SUFFICES ASSUME WireInit PROVE Session!SessionInit
  BY DEF Init
<1>1. \A e \in End : st[e] = "shaking" /\ stream[e] = <<>> /\ queue[e] = <<>>
  BY DEF WireInit
<1>2. SessionPhase = [e \in End |-> "new"]
  BY <1>1, SessionIs
<1>3. SessionWire = [e \in End |-> <<>>]
  <2>1. \A e \in End : UnderWay(e) = <<>>
    <3>1. Messages(<<>>) = <<>>
      BY MessagesNone
    <3>2. <<>> \o <<>> = <<>>
      OBVIOUS
    <3>3. QED
      BY <1>1, <3>1, <3>2 DEF UnderWay
  <2>2. QED
    BY <2>1, SessionIs
<1>4. got = [e \in End |-> <<>>]
  BY DEF WireInit
<1>5. QED
  BY <1>2, <1>3, <1>4 DEF Session!SessionInit

\* A relay connection, with its handshake, frames, counters, pings anywhere
\* between the messages, ends that run at different times and a stream that may
\* break anywhere, implements the session that the relays are built
\* on: for any keys, MOTDs and numbers of messages, what one end hands over
\* the other end receives in that order, without gaps or repetitions, and only
\* once it is established.
THEOREM ConnectionIsSession == Spec => IsSession
<1>1. Init => Session!SessionInit
  BY InitIsSession
<1>2. WireInv /\ [Next]_vars => [Session!SessionNext]_(Session!svars)
  BY StepIsSession
<1>3. Spec => []WireInv
  BY WireAlways
<1>4. QED
  BY <1>1, <1>2, <1>3, PTL DEF Spec, IsSession, Session!SessionSpec

=============================================================================
