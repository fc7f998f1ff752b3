--------------------------- MODULE FrontDoorProofs ---------------------------
(***************************************************************************)
(* Whom FrontDoor lets in, for any number of connections, keys, hosts and  *)
(* lines, and whatever the user types.                                     *)
(***************************************************************************)
EXTENDS FrontDoor, TLAPS

-----------------------------------------------------------------------------
(* Types. *)

\* What the threads put into the queue of ui_loop.
LEMMA InputTypes ==
  /\ \A line \in Line : Input(line) \in Message
  /\ \A i \in Incoming : AcceptConnection(i) \in Message
BY DEF Input, AcceptConnection, Message

\* An answer says yes, no or nothing.
LEMMA VerdictType ==
  ASSUME NEW line
  PROVE  verdict(line) \in {"none", "yes", "no"}
BY DEF verdict

\* What an Option holds is a set; emptying one leaves an Option.
LEMMA OptionType ==
  ASSUME NEW S, NEW o \in Option(S)
  PROVE  /\ o \in SUBSET S
         /\ \A x : o \ {x} \in Option(S)
<1>1. CASE o = {}
  BY <1>1 DEF Option
<1>2. ASSUME NEW y \in S, o = {y} PROVE o \in SUBSET S /\ \A x : o \ {x} \in Option(S)
  <2>1. ASSUME NEW x PROVE o \ {x} = {} \/ o \ {x} = {y}
    BY <1>2
  <2>2. QED
    BY <1>2, <2>1 DEF Option
<1>3. QED
  BY <1>1, <1>2 DEF Option

\* Lines read from stdin keep the types.
LEMMA ReadLineType ==
  ASSUME TypeOK, NEW line \in Line, ReadLine(line), spare' \in 0..MaxLines
  PROVE  TypeOK'
<1>1. uiq' \in Seq(Message)
  BY InputTypes DEF TypeOK, ReadLine
<1>2. QED
  BY <1>1 DEF TypeOK, ReadLine, ui, door, dials

\* The steps of ui_loop keep the types.
LEMMA UiType ==
  ASSUME TypeOK, Ui
  PROVE  TypeOK'
<1>1. ASSUME NEW type, TakeUi(type)
      PROVE  /\ uiq' \in Seq(Message) /\ Head(uiq) \in Message /\ Head(uiq).type = type
             /\ UNCHANGED <<stdin, spare, doorq, asking, trusted, seen, inc, told>>
  BY <1>1 DEF TypeOK, TakeUi, door
<1>2. CASE UiAnswer
  <2>1. verdict(Head(uiq).line) \in {"none", "yes", "no"}
    BY VerdictType
  <2>2. /\ waiting' \in Option(Incoming)
        /\ reply' \in [Incoming -> {"none", "yes", "no"}]
    BY <1>2, <2>1 DEF UiAnswer, TypeOK, Option
  <2>3. approved' \in SUBSET Key
    BY <1>2, OptionType DEF UiAnswer, TypeOK, Key
  <2>4. TakeUi("Input") /\ UNCHANGED <<connect_handle, dials>>
    BY <1>2 DEF UiAnswer
  <2>5. QED
    BY <1>1, <2>2, <2>3, <2>4 DEF TypeOK, dials
<1>3. CASE UiConnect
  <2>1. flag' \in [Dialer -> BOOLEAN]
    BY <1>3 DEF UiConnect, TypeOK
  <2>2. cancelled' \in SUBSET Dialer
    BY <1>3, OptionType DEF UiConnect, TypeOK
  <2>3. /\ connect_handle' \in Option(Dialer)
        /\ dial' \in [Dialer -> DialState]
    BY <1>3 DEF UiConnect, TypeOK, DialState, Option
  <2>4. TakeUi("Input") /\ UNCHANGED <<waiting, approved, reply>>
    BY <1>3 DEF UiConnect
  <2>5. QED
    BY <1>1, <2>1, <2>2, <2>3, <2>4 DEF TypeOK
<1>4. CASE UiAsk
  <2>1. TakeUi("AcceptConnection") /\ UNCHANGED <<connect_handle, approved, dials>>
    BY <1>4 DEF UiAsk
  <2>2. Head(uiq).peer \in Incoming
    BY <1>1, <2>1 DEF Message
  <2>3. waiting' \in Option(Incoming) /\ reply' \in [Incoming -> {"none", "yes", "no"}]
    BY <1>4, <2>2 DEF UiAsk, TypeOK, Option
  <2>4. QED
    BY <1>1, <2>1, <2>3 DEF TypeOK, dials
<1>5. QED
  BY <1>2, <1>3, <1>4 DEF Ui

\* The steps of the threads that accept and of those that connect keep the
\* types.
LEMMA ThreadsType ==
  ASSUME TypeOK
  PROVE  /\ AskUser => TypeOK'
         /\ \A i \in Incoming :
              Arrive(i) \/ AcceptTcp(i) \/ IncHandshakeOk(i) \/ IncEnd(i) \/ Replied(i) => TypeOK'
         /\ \A t \in Dialer :
              (\/ Check(t) \/ Connect(t) \/ DialHandshakeOk(t)
               \/ DialEnd(t) \/ DialRunOk(t) \/ Wake(t)) => TypeOK'
<1>1. ASSUME AskUser PROVE TypeOK'
  <2>1. Head(doorq) \in Incoming /\ doorq' \in Seq(Incoming)
    BY <1>1 DEF AskUser, TypeOK
  <2>2. uiq' \in Seq(Message)
    BY <1>1, <2>1, InputTypes DEF AskUser, TypeOK
  <2>3. asking' \in Option(Incoming)
    BY <1>1, <2>1 DEF AskUser, Option
  <2>4. QED
    BY <1>1, <2>1, <2>2, <2>3 DEF AskUser, TypeOK, ui, dials
<1>2. ASSUME NEW i \in Incoming, Arrive(i) PROVE TypeOK'
  BY <1>2 DEF Arrive, TypeOK, IncState, ui, dials
<1>3. ASSUME NEW i \in Incoming, AcceptTcp(i) PROVE TypeOK'
  BY <1>3 DEF AcceptTcp, TypeOK, IncState, ui, dials
<1>4. ASSUME NEW i \in Incoming, IncHandshakeOk(i) PROVE TypeOK'
  <2>1. inc' \in [Incoming -> IncState]
    BY <1>4 DEF IncHandshakeOk, TypeOK, IncState
  <2>2. /\ doorq' = doorq \/ doorq' = Append(doorq, i)
        /\ doorq \in Seq(Incoming)
    BY <1>4 DEF IncHandshakeOk, TypeOK
  <2>3. doorq' \in Seq(Incoming)
    BY <2>2
  <2>4. QED
    BY <1>4, <2>1, <2>3 DEF IncHandshakeOk, TypeOK, ui, dials
<1>5. ASSUME NEW i \in Incoming, IncEnd(i) PROVE TypeOK'
  BY <1>5 DEF IncEnd, TypeOK, IncState, ui, dials
<1>6. ASSUME NEW i \in Incoming, Replied(i) PROVE TypeOK'
  <2>1. KeyOf[i] \in Key
    BY DEF Key
  <2>2. asking' \in Option(Incoming)
    BY <1>6, OptionType DEF Replied, TypeOK
  <2>3. QED
    BY <1>6, <2>1, <2>2 DEF Replied, TypeOK, IncState, ui, dials
<1>7. ASSUME NEW t \in Dialer, NEW from, NEW to \in DialState, Step(t, from, to),
             UNCHANGED told \/ told' = told \cup {t} \/ told' = told \ {t},
             flag' \in [Dialer -> BOOLEAN]
      PROVE  TypeOK'
  BY <1>7 DEF Step, TypeOK, ui, door
<1>8. ASSUME NEW t \in Dialer PROVE Check(t) => TypeOK'
  BY <1>7 DEF Check, DialState, TypeOK
<1>9. ASSUME NEW t \in Dialer, Connect(t) PROVE TypeOK'
  <2>1. PICK to \in {"handshaking", "sleeping", "ended"} : Step(t, "connecting", to)
    BY <1>9 DEF Connect
  <2>2. to \in DialState
    BY DEF DialState
  <2>3. UNCHANGED told /\ flag' \in [Dialer -> BOOLEAN]
    BY <1>9 DEF Connect, TypeOK
  <2>4. QED
    BY <1>7, <2>1, <2>2, <2>3
<1>10. ASSUME NEW t \in Dialer PROVE DialHandshakeOk(t) => TypeOK'
  BY <1>7 DEF DialHandshakeOk, DialState, TypeOK
<1>11. ASSUME NEW t \in Dialer PROVE DialEnd(t) => TypeOK'
  BY <1>7 DEF DialEnd, DialState, TypeOK
<1>12. ASSUME NEW t \in Dialer PROVE DialRunOk(t) => TypeOK'
  BY <1>7 DEF DialRunOk, DialState, TypeOK
<1>13. ASSUME NEW t \in Dialer PROVE Wake(t) => TypeOK'
  BY <1>7 DEF Wake, DialState, TypeOK
<1>14. QED
  BY <1>1, <1>2, <1>3, <1>4, <1>5, <1>6, <1>8, <1>9, <1>10, <1>11, <1>12, <1>13

\* Every step, also one of the user, keeps the types.
LEMMA NextType ==
  ASSUME TypeOK, [Next]_vars
  PROVE  TypeOK'
<1>1. ASSUME NEW line \in Typed, TypeAhead(line) PROVE TypeOK'
  <2>1. spare' \in 0..MaxLines
    <3>1. MaxLines \in Nat /\ spare \in 0..MaxLines
      BY DoorAssumption DEF TypeOK
    <3>2. spare > 0 /\ spare' = spare - 1
      BY <1>1 DEF TypeAhead
    <3>3. QED
      BY <3>1, <3>2
  <2>2. line \in Line /\ ReadLine(line)
    BY <1>1 DEF TypeAhead, Line
  <2>3. QED
    BY <2>1, <2>2, ReadLineType
<1>2. CASE Answer
  <2>1. PICK line \in {"", "no"} : ReadLine(line)
    BY <1>2 DEF Answer
  <2>2. line \in Line /\ spare' \in 0..MaxLines
    BY <1>2 DEF Answer, TypeOK, Line
  <2>3. QED
    BY <2>1, <2>2, ReadLineType
<1>3. CASE Eof
  BY <1>3 DEF Eof, TypeOK, ui, door, dials
<1>4. CASE UNCHANGED vars
  BY <1>4 DEF vars, TypeOK, ui, door, dials
<1>5. CASE Ui
  BY <1>5, UiType
<1>6. CASE AskUser
  BY <1>6, ThreadsType
<1>7. ASSUME NEW i \in Incoming,
             Arrive(i) \/ AcceptTcp(i) \/ IncHandshakeOk(i) \/ IncEnd(i) \/ Replied(i)
      PROVE  TypeOK'
  BY <1>7, ThreadsType
<1>8. ASSUME NEW t \in Dialer,
             \/ Check(t) \/ Connect(t) \/ DialHandshakeOk(t)
             \/ DialEnd(t) \/ DialRunOk(t) \/ Wake(t)
      PROVE  TypeOK'
  BY <1>8, ThreadsType
<1>9. QED
  BY <1>1, <1>2, <1>3, <1>4, <1>5, <1>6, <1>7, <1>8 DEF Next

\* The queues, the threads and the sets of keys keep their types, for any
\* number of connections, hosts and lines.
THEOREM TypeCorrect == Spec => []TypeOK
<1>1. ASSUME Init PROVE TypeOK
  <2>1. spare \in 0..MaxLines
    <3>1. MaxLines \in Nat
      BY DoorAssumption
    <3>2. QED
      BY <1>1, <3>1 DEF Init
  <2>2. uiq \in Seq(Message) /\ doorq \in Seq(Incoming)
    BY <1>1 DEF Init
  <2>3. /\ inc \in [Incoming -> IncState] /\ dial \in [Dialer -> DialState]
        /\ seen \in [Incoming -> SUBSET Key] /\ flag \in [Dialer -> BOOLEAN]
        /\ reply \in [Incoming -> {"none", "yes", "no"}]
    BY <1>1 DEF Init, IncState, DialState
  <2>4. QED
    BY <1>1, <2>1, <2>2, <2>3 DEF Init, TypeOK, Option
<1>2. TypeOK /\ [Next]_vars => TypeOK'
  BY NextType
<1>3. QED
  BY <1>1, <1>2, PTL DEF Spec

-----------------------------------------------------------------------------
(* Who is let in. *)

\* Every yes on its way to a connection, and every copy of trusted_peers, goes
\* back to a yes of the user for the same key; the prompt never shows Self.
Vouched ==
  /\ Self \notin approved
  /\ trusted \subseteq approved
  /\ \A i \in Incoming :
       /\ seen[i] \subseteq approved
       /\ reply[i] = "yes" => KeyOf[i] \in approved
       /\ i \in waiting => KeyOf[i] # Self
       /\ inc[i] = "running" => KeyOf[i] \in approved

\* Steps that touch none of the state Vouched is about.
LEMMA VouchedFrame ==
  ASSUME Vouched, UNCHANGED <<waiting, approved, trusted, seen, inc, reply>>
  PROVE  Vouched'
BY DEF Vouched

\* ui_loop: the answer is for the relay on the screen, whatever was typed.
LEMMA VouchedUi ==
  ASSUME TypeOK, Vouched, Ui
  PROVE  Vouched'
<1>1. CASE UiAnswer
  <2> DEFINE says == verdict(Head(uiq).line)
  <2>1. /\ reply' = [i \in Incoming |-> IF i \in waiting THEN says ELSE reply[i]]
        /\ waiting' \subseteq waiting
        /\ approved' = approved \cup {KeyOf[i] : i \in {j \in waiting : says = "yes"}}
        /\ UNCHANGED <<trusted, seen, inc>>
    BY <1>1 DEF UiAnswer, TakeUi, door
  <2> HIDE DEF says
  <2>2. approved \subseteq approved'
    BY <2>1
  <2>3. Self \notin approved'
    BY <2>1, OptionType DEF Vouched, TypeOK
  <2>4. ASSUME NEW i \in Incoming, reply'[i] = "yes" PROVE KeyOf[i] \in approved'
    BY <2>1, <2>2, <2>4 DEF Vouched
  <2>5. QED
    BY <2>1, <2>2, <2>3, <2>4 DEF Vouched
<1>2. CASE UiConnect
  BY <1>2, VouchedFrame DEF UiConnect, TakeUi, door
<1>3. CASE UiAsk
  <2> DEFINE new == Head(uiq).peer
  <2>1. /\ waiting' = IF KeyOf[new] = Self THEN waiting ELSE {new}
        /\ \A i \in Incoming : reply'[i] = reply[i] \/ reply'[i] = "no"
        /\ UNCHANGED <<approved, trusted, seen, inc>>
    BY <1>3 DEF UiAsk, TakeUi, door
  <2> HIDE DEF new
  <2>2. QED
    BY <2>1 DEF Vouched
<1>4. QED
  BY <1>1, <1>2, <1>3 DEF Ui

\* The threads that accept: one lets a connection in because of a reply or of
\* its copy of trusted_peers.
LEMMA VouchedAccept ==
  ASSUME TypeOK, Vouched, NEW i \in Incoming,
         Arrive(i) \/ AcceptTcp(i) \/ IncHandshakeOk(i) \/ IncEnd(i) \/ Replied(i)
  PROVE  Vouched'
<1>1. CASE Arrive(i)
  BY <1>1 DEF Arrive, Vouched, TypeOK, ui
<1>2. CASE AcceptTcp(i)
  BY <1>2 DEF AcceptTcp, Vouched, TypeOK, ui
<1>3. CASE IncHandshakeOk(i)
  BY <1>3 DEF IncHandshakeOk, Vouched, TypeOK, ui
<1>4. CASE IncEnd(i)
  BY <1>4 DEF IncEnd, Vouched, TypeOK, ui
<1>5. CASE Replied(i)
  BY <1>5 DEF Replied, Vouched, TypeOK, ui
<1>6. QED
  BY <1>1, <1>2, <1>3, <1>4, <1>5

\* The threads of RelayHandle::connect, stdin and accept_loop let nobody in.
LEMMA VouchedRest ==
  ASSUME Vouched,
         \/ \E line \in Typed : TypeAhead(line)
         \/ Answer \/ Eof \/ AskUser
         \/ \E t \in Dialer : \/ Check(t) \/ Connect(t) \/ DialHandshakeOk(t)
                             \/ DialEnd(t) \/ DialRunOk(t) \/ Wake(t)
         \/ UNCHANGED vars
  PROVE  Vouched'
<1>1. ASSUME NEW line, ReadLine(line) PROVE Vouched'
  BY <1>1, VouchedFrame DEF ReadLine, ui, door
<1>2. ASSUME NEW t, NEW from, NEW to, Step(t, from, to) PROVE Vouched'
  BY <1>2, VouchedFrame DEF Step, ui, door
<1>3. CASE \E line \in Typed : TypeAhead(line)
  BY <1>1, <1>3 DEF TypeAhead
<1>4. CASE Answer
  BY <1>1, <1>4 DEF Answer
<1>5. CASE Eof
  BY <1>5, VouchedFrame DEF Eof, ui, door
<1>6. CASE AskUser
  BY <1>6, VouchedFrame DEF AskUser, ui
<1>7. CASE \E t \in Dialer : \/ Check(t) \/ Connect(t) \/ DialHandshakeOk(t)
                           \/ DialEnd(t) \/ DialRunOk(t) \/ Wake(t)
  BY <1>2, <1>7 DEF Check, Connect, DialHandshakeOk, DialEnd, DialRunOk, Wake
<1>8. CASE UNCHANGED vars
  BY <1>8, VouchedFrame DEF vars, ui, door
<1>9. QED
  BY <1>3, <1>4, <1>5, <1>6, <1>7, <1>8

\* Whatever is typed ahead and however many connections of one relay overlap,
\* a connection runs only under a key the user has said yes to, and never one
\* to this relay itself.
THEOREM WelcomeSafe == Spec => []OnlyWelcomeRun
<1>1. Init => Vouched
  BY DEF Init, Vouched
<1>2. TypeOK /\ Vouched /\ [Next]_vars => Vouched'
  BY VouchedUi, VouchedAccept, VouchedRest DEF Next
<1>3. Vouched => OnlyWelcomeRun
  BY DEF Vouched, OnlyWelcomeRun
<1>4. QED
  BY <1>1, <1>2, <1>3, TypeCorrect, PTL DEF Spec

-----------------------------------------------------------------------------
(* Who is on the screen. *)

\* What Append and Tail do to the positions of a queue.
LEMMA AppendAt ==
  ASSUME NEW S, NEW s \in Seq(S), NEW e \in S,
         NEW j \in 1..Len(Append(s, e))
  PROVE  \/ j \in 1..Len(s) /\ Append(s, e)[j] = s[j]
         \/ j = Len(s) + 1 /\ Append(s, e)[j] = e
OBVIOUS

LEMMA TailAt ==
  ASSUME NEW S, NEW s \in Seq(S), s # <<>>
  PROVE  /\ 1 \in 1..Len(s) /\ s[1] = Head(s)
         /\ \A j \in 1..Len(Tail(s)) :
              j + 1 \in 1..Len(s) /\ j + 1 # 1 /\ Tail(s)[j] = s[j + 1]
OBVIOUS

\* The question at position j of the queue of ui_loop.
AsksAt(j) == j \in 1..Len(uiq) /\ uiq[j].type = "AcceptConnection"

\* accept_loop asks one question at a time and waits for the reply to that one:
\* in the queue or on the screen there is at most the question it waits for.
Questions ==
  /\ \A j \in 1..Len(uiq) : AsksAt(j) =>
       /\ asking = {uiq[j].peer}
       /\ reply[uiq[j].peer] = "none"
       /\ waiting = {}
  /\ \A j, k \in 1..Len(uiq) : AsksAt(j) /\ AsksAt(k) => j = k

\* A connection is asked about once, after its handshake and before it runs.
Pending ==
  /\ \A i \in asking : asking = {i} /\ inc[i] = "pending"
  /\ \A j \in 1..Len(doorq) :
       /\ inc[doorq[j]] = "pending"
       /\ reply[doorq[j]] = "none"
       /\ doorq[j] \notin asking
  /\ \A j, k \in 1..Len(doorq) : doorq[j] = doorq[k] => j = k
  /\ \A i \in Incoming : inc[i] \in {"away", "backlog", "handshaking"} => reply[i] = "none"

QuestionInv == OneQuestion /\ Questions /\ Pending

\* Steps that leave the questions, the replies and the connections alone.
LEMMA QuestionFrame ==
  ASSUME QuestionInv, UNCHANGED <<uiq, waiting, asking, doorq, reply, inc>>
  PROVE  QuestionInv'
BY DEF QuestionInv, OneQuestion, Questions, Pending, AsksAt

\* A line from stdin goes behind whatever is in the queue.
LEMMA QuestionRead ==
  ASSUME TypeOK, QuestionInv, NEW line \in Line, ReadLine(line)
  PROVE  QuestionInv'
<1>1. /\ uiq' = Append(uiq, Input(line)) /\ uiq \in Seq(Message)
      /\ Input(line) \in Message /\ Input(line).type = "Input"
      /\ UNCHANGED <<waiting, asking, doorq, reply, inc>>
  BY InputTypes DEF ReadLine, TypeOK, ui, door, Input
<1>2. \A j \in 1..Len(uiq') :
        \/ j \in 1..Len(uiq) /\ uiq'[j] = uiq[j]
        \/ uiq'[j].type = "Input"
  BY <1>1, AppendAt
<1>3. \A j : AsksAt(j)' => AsksAt(j) /\ uiq'[j] = uiq[j]
  BY <1>2 DEF AsksAt
<1>4. Pending'
  BY <1>1 DEF QuestionInv, Pending
<1>5. Questions'
  BY <1>1, <1>3 DEF QuestionInv, Questions, AsksAt
<1>6. OneQuestion'
  BY <1>1, <1>2 DEF QuestionInv, OneQuestion
<1>7. QED
  BY <1>4, <1>5, <1>6 DEF QuestionInv

\* ui_loop answers the question on the screen, or puts the next one there.
LEMMA QuestionUi ==
  ASSUME TypeOK, QuestionInv, Ui
  PROVE  QuestionInv'
<1>1. /\ uiq # <<>> /\ uiq' = Tail(uiq) /\ uiq \in Seq(Message)
      /\ UNCHANGED <<doorq, asking, inc>>
  BY DEF Ui, UiAnswer, UiConnect, UiAsk, TakeUi, TypeOK, door
<1>2. /\ 1 \in 1..Len(uiq) /\ uiq[1] = Head(uiq)
      /\ \A j \in 1..Len(uiq') :
           j + 1 \in 1..Len(uiq) /\ j + 1 # 1 /\ uiq'[j] = uiq[j + 1]
  BY <1>1, TailAt
<1>3. \A j : AsksAt(j)' => AsksAt(j + 1) /\ uiq'[j] = uiq[j + 1] /\ j + 1 # 1
  BY <1>2 DEF AsksAt
<1>4. \A j, k \in 1..Len(uiq') : AsksAt(j)' /\ AsksAt(k)' => j = k
  <2>1. SUFFICES ASSUME NEW j \in 1..Len(uiq'), NEW k \in 1..Len(uiq'), AsksAt(j)', AsksAt(k)'
                 PROVE  j = k
    OBVIOUS
  <2>2. j + 1 = k + 1
    BY <1>2, <1>3, <2>1 DEF QuestionInv, Questions
  <2>3. j \in Nat /\ k \in Nat
    BY <1>1
  <2>4. QED
    BY <2>2, <2>3
<1>5. (\A j \in 1..Len(uiq) : ~AsksAt(j)) => \A j \in 1..Len(uiq') : ~AsksAt(j)'
  BY <1>2, <1>3
<1>6. waiting # {} => \A j \in 1..Len(uiq) : ~AsksAt(j)
  BY DEF QuestionInv, OneQuestion, AsksAt
<1>7. CASE UiAnswer
  <2> DEFINE says == verdict(Head(uiq).line)
  <2>1. /\ reply' = [i \in Incoming |-> IF i \in waiting THEN says ELSE reply[i]]
        /\ waiting' = IF says = "none" THEN waiting ELSE {}
        /\ waiting # {}
    BY <1>7 DEF UiAnswer
  <2> HIDE DEF says
  <2>2. \A j \in 1..Len(uiq') : ~AsksAt(j)'
    BY <1>5, <1>6, <2>1
  <2>3. Questions'
    BY <1>4, <2>2 DEF Questions
  <2>4. Pending'
    <3>1. \A i \in Incoming : i \notin waiting => reply'[i] = reply[i]
      BY <2>1
    <3>2. \A i \in waiting : inc[i] = "pending" /\ i \in asking
      BY DEF QuestionInv, OneQuestion, Pending
    <3>3. \A j \in 1..Len(doorq) : doorq[j] \in Incoming /\ doorq[j] \notin asking
      BY DEF QuestionInv, Pending, TypeOK
    <3>4. QED
      BY <1>1, <3>1, <3>2, <3>3 DEF QuestionInv, Pending
  <2>5. OneQuestion'
    <3>1. waiting \subseteq Incoming
      BY OptionType DEF TypeOK
    <3>2. QED
      BY <1>1, <2>1, <2>2, <3>1 DEF QuestionInv, OneQuestion, AsksAt
  <2>6. QED
    BY <2>3, <2>4, <2>5 DEF QuestionInv
<1>8. CASE UiConnect
  <2>1. UNCHANGED <<waiting, reply>> /\ waiting = {}
    BY <1>8 DEF UiConnect
  <2>2. Questions'
    BY <1>1, <1>2, <1>3, <1>4, <2>1 DEF QuestionInv, Questions
  <2>3. Pending' /\ OneQuestion'
    BY <1>1, <2>1 DEF QuestionInv, Pending, OneQuestion
  <2>4. QED
    BY <2>2, <2>3 DEF QuestionInv
<1>9. CASE UiAsk
  <2> DEFINE i == Head(uiq).peer
  <2>1. Head(uiq).type = "AcceptConnection" /\ AsksAt(1)
    BY <1>2, <1>9 DEF UiAsk, TakeUi, AsksAt
  <2>2. /\ asking = {i} /\ reply[i] = "none" /\ waiting = {}
    BY <1>2, <2>1 DEF QuestionInv, Questions
  <2>3. /\ waiting' = IF KeyOf[i] = Self THEN {} ELSE {i}
        /\ reply' = [j \in Incoming |->
             IF j \in (IF KeyOf[i] = Self THEN {i} ELSE {}) THEN "no" ELSE reply[j]]
    BY <1>9, <2>2 DEF UiAsk
  <2> HIDE DEF i
  <2>4. \A j \in 1..Len(uiq') : ~AsksAt(j)'
    BY <1>2, <1>3, <2>1 DEF QuestionInv, Questions
  <2>5. Questions'
    BY <1>4, <2>4 DEF Questions
  <2>6. \A j \in Incoming : reply'[j] = reply[j] \/ j = i
    BY <2>3
  <2>7. Pending'
    <3>1. \A j \in 1..Len(doorq) : doorq[j] \in Incoming /\ doorq[j] # i
      BY <2>2 DEF QuestionInv, Pending, TypeOK
    <3>2. inc[i] = "pending"
      BY <2>2 DEF QuestionInv, Pending
    <3>3. QED
      BY <1>1, <2>6, <3>1, <3>2 DEF QuestionInv, Pending
  <2>8. ASSUME NEW j \in waiting' PROVE asking' = {j} /\ reply'[j] = "none"
    <3>1. j = i /\ KeyOf[i] # Self
      BY <2>3, <2>8
    <3>2. i \in Incoming
      BY <2>2, OptionType DEF TypeOK
    <3>3. QED
      BY <1>1, <2>2, <2>3, <3>1, <3>2
  <2>9. OneQuestion'
    BY <2>4, <2>8 DEF OneQuestion, AsksAt
  <2>10. QED
    BY <2>5, <2>7, <2>9 DEF QuestionInv
<1>10. QED
  BY <1>7, <1>8, <1>9 DEF Ui

\* accept_loop only asks when it has the last answer.
LEMMA QuestionAsk ==
  ASSUME TypeOK, QuestionInv, AskUser
  PROVE  QuestionInv'
<1> DEFINE new == Head(doorq)
<1>1. /\ doorq # <<>> /\ doorq' = Tail(doorq) /\ doorq \in Seq(Incoming)
      /\ asking = {} /\ asking' = {new}
      /\ uiq' = Append(uiq, AcceptConnection(new)) /\ uiq \in Seq(Message)
      /\ UNCHANGED <<waiting, reply, inc>>
  BY DEF AskUser, TypeOK, ui
<1>2. waiting = {} /\ \A j \in 1..Len(uiq) : ~AsksAt(j)
  BY <1>1 DEF QuestionInv, OneQuestion, Questions
<1>3. /\ 1 \in 1..Len(doorq) /\ doorq[1] = new
      /\ \A j \in 1..Len(doorq') :
           j + 1 \in 1..Len(doorq) /\ j + 1 # 1 /\ doorq'[j] = doorq[j + 1]
  BY <1>1, TailAt
<1> HIDE DEF new
<1>4. new \in Incoming /\ inc[new] = "pending" /\ reply[new] = "none"
  BY <1>1, <1>3 DEF QuestionInv, Pending
<1>5. /\ AcceptConnection(new) \in Message
      /\ AcceptConnection(new).peer = new
  BY <1>4, InputTypes DEF AcceptConnection
<1>6. \A j \in 1..Len(uiq') :
        \/ j \in 1..Len(uiq) /\ uiq'[j] = uiq[j]
        \/ j = Len(uiq) + 1 /\ uiq'[j] = AcceptConnection(new)
  BY <1>1, <1>5, AppendAt
<1>7. \A j : AsksAt(j)' => j = Len(uiq) + 1 /\ uiq'[j] = AcceptConnection(new)
  BY <1>2, <1>6 DEF AsksAt
<1>8. Questions'
  BY <1>1, <1>2, <1>4, <1>5, <1>7 DEF Questions
<1>9. \A j \in 1..Len(doorq') : doorq'[j] # new
  BY <1>3 DEF QuestionInv, Pending
<1>10. \A j, k \in 1..Len(doorq') : doorq'[j] = doorq'[k] => j = k
  <2>1. SUFFICES ASSUME NEW j \in 1..Len(doorq'), NEW k \in 1..Len(doorq'), doorq'[j] = doorq'[k]
                 PROVE  j = k
    OBVIOUS
  <2>2. j + 1 = k + 1
    BY <1>3, <2>1 DEF QuestionInv, Pending
  <2>3. j \in Nat /\ k \in Nat
    BY <1>1
  <2>4. QED
    BY <2>2, <2>3
<1>11. Pending'
  BY <1>1, <1>3, <1>4, <1>9, <1>10 DEF QuestionInv, Pending
<1>12. OneQuestion'
  BY <1>1, <1>2 DEF OneQuestion
<1>13. QED
  BY <1>8, <1>11, <1>12 DEF QuestionInv

\* The thread of a connection queues up once; the reply frees accept_loop.
LEMMA QuestionAccept ==
  ASSUME TypeOK, QuestionInv, NEW i \in Incoming,
         Arrive(i) \/ AcceptTcp(i) \/ IncHandshakeOk(i) \/ IncEnd(i) \/ Replied(i)
  PROVE  QuestionInv'
<1>1. UNCHANGED <<uiq, waiting, reply>>
  BY DEF Arrive, AcceptTcp, IncHandshakeOk, IncEnd, Replied, ui
<1>2. /\ \A j \in 1..Len(doorq) : doorq[j] \in Incoming
      /\ asking \subseteq Incoming
  BY OptionType DEF TypeOK
<1>3. ASSUME UNCHANGED <<asking, doorq>>, inc[i] # "pending",
             \A k \in Incoming \ {i} : inc'[k] = inc[k],
             inc'[i] \in {"away", "backlog", "handshaking"}
               => inc[i] \in {"away", "backlog", "handshaking"}
      PROVE  QuestionInv'
  <2>1. i \notin asking /\ \A j \in 1..Len(doorq) : doorq[j] # i
    BY <1>3 DEF QuestionInv, Pending
  <2>2. Pending'
    BY <1>1, <1>2, <1>3, <2>1 DEF QuestionInv, Pending
  <2>3. Questions' /\ OneQuestion'
    BY <1>1, <1>3 DEF QuestionInv, Questions, OneQuestion, AsksAt
  <2>4. QED
    BY <2>2, <2>3 DEF QuestionInv
<1>4. CASE Arrive(i)
  BY <1>3, <1>4 DEF Arrive, TypeOK
<1>5. CASE AcceptTcp(i)
  BY <1>3, <1>5 DEF AcceptTcp, TypeOK
<1>6. CASE IncEnd(i)
  BY <1>3, <1>6 DEF IncEnd, TypeOK
<1>7. CASE IncHandshakeOk(i)
  <2>1. CASE KeyOf[i] \in seen[i]
    BY <1>3, <1>7, <2>1 DEF IncHandshakeOk, TypeOK
  <2>2. CASE KeyOf[i] \notin seen[i]
    <3>1. /\ inc[i] = "handshaking" /\ inc' = [inc EXCEPT ![i] = "pending"]
          /\ doorq' = Append(doorq, i) /\ doorq \in Seq(Incoming) /\ UNCHANGED asking
      BY <1>7, <2>2 DEF IncHandshakeOk, TypeOK
    <3>2. /\ i \notin asking /\ reply[i] = "none"
          /\ \A j \in 1..Len(doorq) : doorq[j] # i
      BY <3>1 DEF QuestionInv, Pending
    <3>3. \A j \in 1..Len(doorq') :
            \/ j \in 1..Len(doorq) /\ doorq'[j] = doorq[j]
            \/ j = Len(doorq) + 1 /\ doorq'[j] = i
      BY <3>1, AppendAt
    <3>4. inc'[i] = "pending" /\ \A k \in Incoming \ {i} : inc'[k] = inc[k]
      BY <3>1 DEF TypeOK
    <3>5. \A j, k \in 1..Len(doorq') : doorq'[j] = doorq'[k] => j = k
      BY <3>2, <3>3 DEF QuestionInv, Pending
    <3>6. \A j \in 1..Len(doorq') :
            inc'[doorq'[j]] = "pending" /\ reply'[doorq'[j]] = "none" /\ doorq'[j] \notin asking'
      BY <1>1, <1>2, <3>1, <3>2, <3>3, <3>4 DEF QuestionInv, Pending
    <3>7. Pending'
      BY <1>1, <3>1, <3>2, <3>4, <3>5, <3>6 DEF QuestionInv, Pending, TypeOK
    <3>8. Questions' /\ OneQuestion'
      BY <1>1, <3>1 DEF QuestionInv, Questions, OneQuestion, AsksAt
    <3>9. QED
      BY <3>7, <3>8 DEF QuestionInv
  <2>3. QED
    BY <2>1, <2>2
<1>8. CASE Replied(i)
  <2>1. /\ i \in asking /\ reply[i] # "none" /\ asking' = asking \ {i} /\ UNCHANGED doorq
        /\ inc'[i] \in {"running", "ended"} /\ \A k \in Incoming \ {i} : inc'[k] = inc[k]
    BY <1>8 DEF Replied, TypeOK
  <2>2. asking = {i} /\ asking' = {}
    BY <2>1 DEF QuestionInv, Pending
  <2>3. waiting = {} /\ \A j \in 1..Len(uiq) : ~AsksAt(j)
    BY <2>1, <2>2 DEF QuestionInv, OneQuestion, Questions
  <2>4. \A j \in 1..Len(doorq) : doorq[j] # i
    BY <2>1 DEF QuestionInv, Pending
  <2>5. Pending'
    BY <1>1, <1>2, <2>1, <2>2, <2>4 DEF QuestionInv, Pending
  <2>6. Questions' /\ OneQuestion'
    BY <1>1, <2>3 DEF Questions, OneQuestion, AsksAt
  <2>7. QED
    BY <2>5, <2>6 DEF QuestionInv
<1>9. QED
  BY <1>4, <1>5, <1>6, <1>7, <1>8

\* The terminal never shows a question while another waits for its answer, so
\* no relay is refused unseen: for any number of connections that arrive, stall
\* and end in any order, and whatever the user types ahead.
THEOREM NobodyOverwritten == Spec => []OneQuestion
<1>1. Init => QuestionInv
  BY DEF Init, QuestionInv, OneQuestion, Questions, Pending, AsksAt
<1>2. ASSUME TypeOK, QuestionInv, [Next]_vars PROVE QuestionInv'
  <2>1. ASSUME NEW line \in Typed, TypeAhead(line) PROVE QuestionInv'
    BY <1>2, <2>1, QuestionRead DEF TypeAhead, Line
  <2>2. CASE Answer
    BY <1>2, <2>2, QuestionRead DEF Answer, Line
  <2>3. CASE Eof
    BY <1>2, <2>3, QuestionFrame DEF Eof, ui, door
  <2>4. ASSUME NEW t, NEW from, NEW to, Step(t, from, to) PROVE QuestionInv'
    BY <1>2, <2>4, QuestionFrame DEF Step, ui, door
  <2>5. ASSUME NEW t \in Dialer,
               \/ Check(t) \/ Connect(t) \/ DialHandshakeOk(t)
               \/ DialEnd(t) \/ DialRunOk(t) \/ Wake(t)
        PROVE  QuestionInv'
    BY <2>4, <2>5 DEF Check, Connect, DialHandshakeOk, DialEnd, DialRunOk, Wake
  <2>6. CASE UNCHANGED vars
    BY <1>2, <2>6, QuestionFrame DEF vars, ui, door
  <2>7. QED
    BY <1>2, <2>1, <2>2, <2>3, <2>5, <2>6, QuestionUi, QuestionAsk, QuestionAccept DEF Next
<1>3. QuestionInv => OneQuestion
  BY DEF QuestionInv
<1>4. QED
  BY <1>1, <1>2, <1>3, TypeCorrect, PTL DEF Spec

=============================================================================
