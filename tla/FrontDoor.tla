------------------------------ MODULE FrontDoor ------------------------------
(***************************************************************************)
(* How relay connections come about: the terminal (stdin_loop, ui_loop),   *)
(* the thread of RelayHandle::listen, which runs listen_loop and           *)
(* accept_loop by turns, one thread per connection in RelayHandle::accept  *)
(* and one per host in RelayHandle::connect.                               *)
(*                                                                         *)
(* A line is "" (Enter), "yes" ("y"), "no" ("n") or any other text; a host *)
(* is only a text.  told says which connections the relay has got an       *)
(* AddPeer for and no RemovePeer: the actions that change it are Handshake *)
(* and Drop of RelayProcess.                                               *)
(***************************************************************************)
EXTENDS Naturals, Sequences, FiniteSets

CONSTANTS
  Incoming,   \* connections other relays make to this one
  KeyOf,      \* the static key the handshake of each of them proves
  Self,       \* this relay's own static key
  Dialer,     \* threads of RelayHandle::connect
  Args,       \* the threads main() starts for its arguments
  Typed,      \* what the user may type without being asked
  MaxLines    \* bound on the lines typed without being asked

ASSUME DoorAssumption ==
  /\ KeyOf \in [Incoming -> STRING]
  /\ Args \subseteq Dialer
  /\ IsFiniteSet(Dialer)
  /\ Incoming \cap Dialer = {}
  /\ Typed \subseteq {"", "yes", "no", "host"}
  /\ MaxLines \in Nat

Line == Typed \cup {"", "no"}

VARIABLES
  stdin,           \* "open" or "ended"
  spare,           \* lines the user may still type without being asked
  uiq,             \* the queue of ui_loop
  waiting,         \* its waiting_peer ...
  connect_handle,  \* ... and its connect_handle
  doorq,           \* the connections accept_loop has yet to ask about
  asking,          \* the connection fun() waits for an answer about
  reply,           \* its reply channel: "none", "yes", "no" (sender dropped)
  trusted,         \* trusted_peers
  seen,            \* the copy of trusted_peers each connection came with
  inc,             \* the threads of RelayHandle::accept
  dial,            \* the threads of RelayHandle::connect
  flag,            \* the AtomicBool of each RelayConnectHandle
  told,            \* connections the relay knows of
  approved,        \* history: keys the user has said yes to
  cancelled        \* history: threads whose handle was cancelled

ui == <<waiting, connect_handle, approved>>
door == <<doorq, asking, trusted, seen, inc>>
dials == <<dial, flag, cancelled>>
vars == <<stdin, spare, uiq, ui, door, reply, dials, told>>

Key == {KeyOf[i] : i \in Incoming}

Input(line) == [type |-> "Input", line |-> line]
AcceptConnection(i) == [type |-> "AcceptConnection", peer |-> i]
Message ==
  [type : {"Input"}, line : Line] \cup [type : {"AcceptConnection"}, peer : Incoming]

IncState == {"away", "backlog", "handshaking", "pending", "running", "ended"}
DialState == {"new", "check", "connecting", "handshaking", "running", "sleeping", "ended"}

\* An Option, as the set of what it holds.
Option(S) == {{}} \cup {{x} : x \in S}

\* waiting_peer and connect_handle are Options, and accept_loop waits for one
\* answer at most.
TypeOK ==
  /\ stdin \in {"open", "ended"}
  /\ spare \in 0..MaxLines
  /\ uiq \in Seq(Message)
  /\ waiting \in Option(Incoming)
  /\ connect_handle \in Option(Dialer)
  /\ doorq \in Seq(Incoming)
  /\ asking \in Option(Incoming)
  /\ reply \in [Incoming -> {"none", "yes", "no"}]
  /\ trusted \in SUBSET Key
  /\ seen \in [Incoming -> SUBSET Key]
  /\ inc \in [Incoming -> IncState]
  /\ dial \in [Dialer -> DialState]
  /\ flag \in [Dialer -> BOOLEAN]
  /\ told \in SUBSET (Incoming \cup Dialer)
  /\ approved \in SUBSET Key
  /\ cancelled \in SUBSET Dialer

Init ==
  /\ stdin = "open" /\ spare = MaxLines /\ uiq = <<>>
  /\ waiting = {} /\ connect_handle = {} /\ approved = {}
  /\ doorq = <<>> /\ asking = {}
  /\ trusted = {} /\ seen = [i \in Incoming |-> {}]
  /\ inc = [i \in Incoming |-> "away"] /\ reply = [i \in Incoming |-> "none"]
  /\ dial = [t \in Dialer |-> IF t \in Args THEN "check" ELSE "new"]
  /\ flag = [t \in Dialer |-> FALSE]
  /\ told = {} /\ cancelled = {}

-----------------------------------------------------------------------------
(* stdin_loop. *)

ReadLine(line) ==
  /\ stdin = "open"
  /\ uiq' = Append(uiq, Input(line))
  /\ UNCHANGED <<stdin, ui, door, reply, dials, told>>

\* The user types whatever the prompt says, a host as long as there is a
\* thread left for it ...
TypeAhead(line) ==
  /\ spare > 0
  /\ spare' = spare - 1
  /\ line # "" =>
       Cardinality({j \in 1..Len(uiq) : uiq[j].type = "Input" /\ uiq[j].line # ""})
         < Cardinality({t \in Dialer : dial[t] = "new"})
  /\ ReadLine(line)

\* ... or answers the question on the screen.
Answer ==
  /\ waiting # {}
  /\ \A j \in 1..Len(uiq) : uiq[j].type # "Input"
  /\ \E line \in {"", "no"} : ReadLine(line)
  /\ UNCHANGED spare

\* End of file or an error: the thread ends, ui_loop still has a sender.
Eof ==
  /\ stdin = "open"
  /\ stdin' = "ended"
  /\ UNCHANGED <<spare, uiq, ui, door, reply, dials, told>>

-----------------------------------------------------------------------------
(* ui_loop. *)

TakeUi(type) ==
  /\ uiq # <<>>
  /\ Head(uiq).type = type
  /\ uiq' = Tail(uiq)
  /\ UNCHANGED <<stdin, spare, door, told>>

\* Faulty: only a yes is an answer.
verdict_yes(line) == IF line \in {"", "yes"} THEN "yes" ELSE "none"

\* What a line means for the relay that waits; dropping reply_tx is a no.
verdict(line) ==
  CASE line \in {"", "yes"} -> "yes"
    [] line = "no" -> "no"
    [] OTHER -> "none"

\* A line while a relay waits.
UiAnswer ==
  /\ TakeUi("Input")
  /\ waiting # {}
  /\ LET says == verdict(Head(uiq).line)
     IN /\ reply' = [i \in Incoming |-> IF i \in waiting THEN says ELSE reply[i]]
        /\ waiting' = IF says = "none" THEN waiting ELSE {}
        /\ approved' = approved \cup {KeyOf[i] : i \in {j \in waiting : says = "yes"}}
  /\ UNCHANGED <<connect_handle, dials>>

\* A line while nobody waits: the last host is given up, a new one tried.
UiConnect ==
  /\ TakeUi("Input")
  /\ waiting = {}
  /\ flag' = [t \in Dialer |-> flag[t] \/ t \in connect_handle]
  /\ cancelled' = cancelled \cup connect_handle
  /\ IF Head(uiq).line = ""
     THEN connect_handle' = {} /\ UNCHANGED dial
     ELSE \E t \in Dialer : /\ dial[t] = "new"
                            /\ connect_handle' = {t}
                            /\ dial' = [dial EXCEPT ![t] = "check"]
  /\ UNCHANGED <<waiting, approved, reply>>

\* Faulty: a relay may ask itself.
UiAsk_anyone ==
  /\ TakeUi("AcceptConnection")
  /\ waiting' = {Head(uiq).peer}
  /\ UNCHANGED <<connect_handle, approved, reply, dials>>

\* A relay asks to be let in.  Whoever waited before would be refused.
UiAsk ==
  /\ TakeUi("AcceptConnection")
  /\ LET i == Head(uiq).peer
         refused == IF KeyOf[i] = Self THEN {i} ELSE waiting
     IN /\ waiting' = IF KeyOf[i] = Self THEN waiting ELSE {i}
        /\ reply' = [j \in Incoming |-> IF j \in refused THEN "no" ELSE reply[j]]
  /\ UNCHANGED <<connect_handle, approved, dials>>

Ui == UiAnswer \/ UiConnect \/ UiAsk

-----------------------------------------------------------------------------
(* The thread of RelayHandle::listen.  While fun() waits for the user, it  *)
(* neither accepts nor sleeps.                                             *)

\* RelayListener::run; the new thread gets a copy of trusted_peers.  An error
\* of accept() only makes listen_loop wait a second; one of the connection
\* drops it.
AcceptTcp(i) ==
  /\ asking = {}
  /\ inc[i] = "backlog"
  /\ inc' \in {[inc EXCEPT ![i] = "handshaking"], [inc EXCEPT ![i] = "ended"]}
  /\ seen' = [seen EXCEPT ![i] = trusted]
  /\ UNCHANGED <<stdin, spare, uiq, ui, doorq, asking, reply, trusted, dials, told>>

\* Faulty: asks about the next one before the last one is answered.
AskUser_eager ==
  /\ doorq # <<>>
  /\ doorq' = Tail(doorq)
  /\ asking' = asking \cup {Head(doorq)}
  /\ uiq' = Append(uiq, AcceptConnection(Head(doorq)))
  /\ UNCHANGED <<stdin, spare, ui, reply, trusted, seen, inc, dials, told>>

\* accept_loop takes the next connection and calls fun().
AskUser ==
  /\ asking = {}
  /\ doorq # <<>>
  /\ doorq' = Tail(doorq)
  /\ asking' = {Head(doorq)}
  /\ uiq' = Append(uiq, AcceptConnection(Head(doorq)))
  /\ UNCHANGED <<stdin, spare, ui, reply, trusted, seen, inc, dials, told>>

\* fun() returns; the thread of the connection runs it or drops it.
Replied(i) ==
  /\ i \in asking
  /\ reply[i] # "none"
  /\ asking' = asking \ {i}
  /\ trusted' = IF reply[i] = "yes" THEN trusted \cup {KeyOf[i]} ELSE trusted
  /\ inc' = [inc EXCEPT ![i] = IF reply[i] = "yes" THEN "running" ELSE "ended"]
  /\ told' = IF reply[i] = "yes" THEN told ELSE told \ {i}
  /\ UNCHANGED <<stdin, spare, uiq, ui, doorq, reply, seen, dials>>

-----------------------------------------------------------------------------
(* The threads of RelayHandle::accept. *)

Arrive(i) ==
  /\ inc[i] = "away"
  /\ inc' = [inc EXCEPT ![i] = "backlog"]
  /\ UNCHANGED <<stdin, spare, uiq, ui, doorq, asking, reply, trusted, seen, dials, told>>

IncHandshakeOk(i) ==
  /\ inc[i] = "handshaking"
  /\ told' = told \cup {i}
  /\ IF KeyOf[i] \in seen[i]
     THEN inc' = [inc EXCEPT ![i] = "running"] /\ UNCHANGED doorq
     ELSE inc' = [inc EXCEPT ![i] = "pending"] /\ doorq' = Append(doorq, i)
  /\ UNCHANGED <<stdin, spare, uiq, ui, asking, reply, trusted, seen, dials>>

\* The handshake fails, or run() returns.
IncEnd(i) ==
  /\ inc[i] \in {"handshaking", "running"}
  /\ inc' = [inc EXCEPT ![i] = "ended"]
  /\ told' = told \ {i}
  /\ UNCHANGED <<stdin, spare, uiq, ui, doorq, asking, reply, trusted, seen, dials>>

-----------------------------------------------------------------------------
(* The threads of RelayHandle::connect. *)

Step(t, from, to) ==
  /\ dial[t] = from
  /\ dial' = [dial EXCEPT ![t] = to]
  /\ UNCHANGED <<stdin, spare, uiq, ui, door, reply, cancelled>>

\* The condition of the while loop.
Check(t) ==
  /\ Step(t, "check", IF flag[t] THEN "ended" ELSE "connecting")
  /\ UNCHANGED <<flag, told>>

\* RelayConnection::connect: connected, failed or timed out, or no address.
Connect(t) ==
  /\ \E to \in {"handshaking", "sleeping", "ended"} : Step(t, "connecting", to)
  /\ UNCHANGED <<flag, told>>

DialHandshakeOk(t) ==
  /\ Step(t, "handshaking", "running")
  /\ told' = told \cup {t}
  /\ UNCHANGED flag

\* A failed handshake returns, an error of run() breaks the loop.
DialEnd(t) ==
  /\ Step(t, "handshaking", "ended") \/ Step(t, "running", "ended")
  /\ told' = told \ {t}
  /\ UNCHANGED flag

\* run() returns Ok: the relay has dropped the handle.  store(false) takes
\* back a cancel() that came since the last check.
DialRunOk(t) ==
  /\ Step(t, "running", "sleeping")
  /\ flag' = [flag EXCEPT ![t] = FALSE]
  /\ told' = told \ {t}

\* reconnect_time is over.
Wake(t) ==
  /\ Step(t, "sleeping", "check")
  /\ UNCHANGED <<flag, told>>

Next ==
  \/ \E line \in Typed : TypeAhead(line)
  \/ Answer \/ Eof \/ Ui \/ AskUser
  \/ \E i \in Incoming :
       Arrive(i) \/ AcceptTcp(i) \/ IncHandshakeOk(i) \/ IncEnd(i) \/ Replied(i)
  \/ \E t \in Dialer :
       Check(t) \/ Connect(t) \/ DialHandshakeOk(t) \/ DialEnd(t) \/ DialRunOk(t) \/ Wake(t)

Spec == Init /\ [][Next]_vars

\* The threads go on while they are not blocked; connect() and the sleep are
\* timed; the user answers a question as long as there is an stdin; accept()
\* does not fail every time.  Handshakes and connections may last for ever.
Fairness ==
  /\ WF_vars(Ui) /\ WF_vars(AskUser) /\ WF_vars(Answer)
  /\ \A i \in Incoming : WF_vars(Replied(i)) /\ WF_vars(AcceptTcp(i))
  /\ \A t \in Dialer : WF_vars(Check(t) \/ Connect(t) \/ Wake(t))

FairSpec == Spec /\ Fairness

-----------------------------------------------------------------------------
(* Properties. *)

\* Only relays the user has said yes to are let in, under the key they said
\* yes to, and never this relay itself: however prompts, lines typed ahead,
\* copies of trusted_peers and connections of the same relay overlap.
OnlyWelcomeRun ==
  \A i \in Incoming : inc[i] = "running" => KeyOf[i] \in approved /\ KeyOf[i] # Self

\* A relay on the screen is the one accept_loop waits for, and no other
\* question is on its way.  So ui_loop never overwrites waiting_peer, which
\* would refuse a relay without the user having seen it.
OneQuestion ==
  \A i \in waiting :
    /\ asking = {i}
    /\ reply[i] = "none"
    /\ \A j \in 1..Len(uiq) : uiq[j].type # "AcceptConnection"

\* "Press Enter or enter a new host to stop trying to connect": a cancelled
\* loop begins no further attempt.
CancelHolds ==
  [][\A t \in cancelled : dial[t] # "connecting" => dial'[t] # "connecting"]_dial

\* Nobody stays at the door for ever, although the thread that accepts is the
\* one that waits for the user, as long as lines can still be read: a relay
\* that connects is accepted even if others stall in their handshakes, and one
\* that has to be asked about gets its answer.
EveryoneAnswered ==
  \A i \in Incoming :
    /\ inc[i] = "backlog" ~> inc[i] # "backlog" \/ stdin = "ended"
    /\ inc[i] = "pending" ~> inc[i] # "pending" \/ stdin = "ended"

=============================================================================
