------------------------- MODULE GameListenerProofs -------------------------
(***************************************************************************)
(* A game listener keeps its contract, for any number of players.          *)
(***************************************************************************)
EXTENDS GameListener, TLAPS

\* The thread owns its reference exactly as long as run() has not returned.
OwnedInv == TypeOK /\ (owned <=> pc \notin {"ended", "reported"})

Messages == {"AcceptGameConnection", "RemoveGameListener"}

\* OwnedInv holds of a new listener.
LEMMA OwnedInit == Init => OwnedInv
<1> SUFFICES ASSUME Init PROVE OwnedInv
  OBVIOUS
<1>1. queue \in Seq(Messages)
  BY DEF Init
<1>2. pc = "accept" /\ main = "idle" /\ owned /\ handle \in BOOLEAN /\ flag \in BOOLEAN
      /\ owned \in BOOLEAN
  BY Zenon DEF Init
<1>3. pc \notin {"ended", "reported"}
  BY <1>2
<1>4. QED
  BY <1>1, <1>2, <1>3, Zenon DEF OwnedInv, TypeOK, Messages

\* Every step keeps OwnedInv.
LEMMA OwnedStep == OwnedInv /\ [Next]_vars => OwnedInv'
<1> SUFFICES ASSUME OwnedInv, [Next]_vars PROVE OwnedInv'
  OBVIOUS
<1>1. ASSUME queue' = queue, handle' \in BOOLEAN, flag' \in BOOLEAN, owned' = owned,
             main' \in {"idle", "upgraded", "stored", "refused"},
             pc' \in {"accept", "accepted", "sent", "expired"}, owned
      PROVE  OwnedInv'
  <2>1. pc' \notin {"ended", "reported"}
    BY <1>1
  <2>2. QED
    BY <1>1, <2>1 DEF OwnedInv, TypeOK
<1>2. ASSUME queue' = queue, UNCHANGED <<main, handle, flag>>, pc' = "ended",
             owned' \in BOOLEAN, ~ owned'
      PROVE  OwnedInv'
  BY <1>2 DEF OwnedInv, TypeOK
<1>3. pc \in {"accept", "accepted", "sent", "expired"} => owned
  BY DEF OwnedInv
<1>4. CASE AcceptPlayer \/ Expire \/ ClearFlag
  BY <1>1, <1>3, <1>4 DEF AcceptPlayer, Expire, ClearFlag, OwnedInv, TypeOK
<1>5. CASE TryUnwrap
  <2>1. CASE Borrowed
    BY <1>1, <1>3, <1>5, <2>1 DEF TryUnwrap, OwnedInv, TypeOK
  <2>2. CASE ~ Borrowed
    <3>1. owned' \in BOOLEAN /\ ~ owned'
      <4>1. Borrowed \in BOOLEAN
        BY DEF Borrowed
      <4>2. owned' = Borrowed
        BY <1>5 DEF TryUnwrap
      <4>3. QED
        BY <2>2, <4>1, <4>2, Zenon
    <3>2. QED
      BY <1>2, <1>5, <2>2, <3>1 DEF TryUnwrap
  <2>3. QED
    BY <2>1, <2>2
<1>6. CASE Fail
  BY <1>2, <1>6 DEF Fail
<1>7. CASE SendConnection
  <2>1. queue' \in Seq(Messages)
    BY <1>7 DEF SendConnection, OwnedInv, TypeOK, Messages
  <2>2. QED
    BY <1>3, <1>7, <2>1 DEF SendConnection, OwnedInv, TypeOK, Messages
<1>8. CASE Report
  <2>1. queue' \in Seq(Messages)
    BY <1>8 DEF Report, OwnedInv, TypeOK, Messages
  <2>2. QED
    BY <1>8, <2>1 DEF Report, OwnedInv, TypeOK, Messages
<1>9. CASE Main
  <2>1. /\ UNCHANGED <<pc, owned, queue>>
        /\ main' \in {"idle", "upgraded", "stored", "refused"}
        /\ handle' \in BOOLEAN
        /\ flag' \in BOOLEAN
    BY <1>9 DEF Main, Upgrade, Store, KeepaliveOk, KeepaliveErr, RemoveGame, OwnedInv, TypeOK
  <2>2. QED
    BY <2>1 DEF OwnedInv, TypeOK
<1>10. CASE UNCHANGED vars
  BY <1>10 DEF vars, OwnedInv, TypeOK
<1>11. QED
  BY <1>4, <1>5, <1>6, <1>7, <1>8, <1>9, <1>10 DEF Next, Thread

\* OwnedInv holds in every reachable state.
LEMMA OwnedAlways == Spec => []OwnedInv
BY OwnedInit, OwnedStep, PTL DEF Spec

\* The thread, the main thread and the queue between them keep their types.
THEOREM TypeCorrect == Spec => []TypeOK
<1>1. OwnedInv => TypeOK
  BY DEF OwnedInv
<1>2. QED
  BY <1>1, OwnedAlways, PTL

\* A new listener is a new listener of the contract.
LEMMA InitKeepsContract == Init => Contract!ContractInit
BY DEF Init, Contract!ContractInit, ContractSt, ContractCall

\* Every step of either thread is a step of the contract or does not show.
LEMMA StepKeepsContract ==
  OwnedInv /\ [Next]_vars => [Contract!ContractNext]_(Contract!cvars)
<1> SUFFICES ASSUME OwnedInv, [Next]_vars
             PROVE  [Contract!ContractNext]_(Contract!cvars)
  OBVIOUS
<1> USE DEF OwnedInv, TypeOK, ContractSt, ContractCall, Contract!ContractNext, Contract!cvars
<1>1. CASE AcceptPlayer \/ Expire \/ ClearFlag
  BY <1>1 DEF AcceptPlayer, Expire, ClearFlag
<1>2. CASE SendConnection
  BY <1>2 DEF SendConnection, Contract!Deliver
<1>3. CASE TryUnwrap
  BY <1>3 DEF TryUnwrap, Contract!End
<1>4. CASE Fail
  BY <1>4 DEF Fail, Contract!End
<1>5. CASE Report
  BY <1>5 DEF Report, Contract!Report
<1>6. CASE Upgrade
  BY <1>6 DEF Upgrade, Contract!Keepalive
<1>7. CASE Store
  BY <1>7 DEF Store
<1>8. CASE KeepaliveOk \/ KeepaliveErr
  BY <1>8 DEF KeepaliveOk, KeepaliveErr, Contract!Return
<1>9. CASE RemoveGame
  BY <1>9 DEF RemoveGame
<1>10. CASE UNCHANGED vars
  BY <1>10 DEF vars
<1>11. QED
  BY <1>1, <1>2, <1>3, <1>4, <1>5, <1>6, <1>7, <1>8, <1>9, <1>10 DEF Next, Thread, Main

\* The listener's thread and the main thread, racing on the keepalive cell,
\* implement the contract that RelayProcess relies on: keepalive() answers as
\* if it were one step, and the RemoveGameListener comes once, last.
THEOREM ListenerKeepsContract == Spec => KeepsContract
BY OwnedAlways, InitKeepsContract, StepKeepsContract, PTL
   DEF Spec, KeepsContract, Contract!ContractSpec

=============================================================================
