------------------------ MODULE ShmQueueWakeupProofs ------------------------
(***************************************************************************)
(* Proofs that no wakeup is lost: a thread that waits for what is already  *)
(* there is about to be notified.                                          *)
(***************************************************************************)
EXTENDS ShmQueueProofs

(* Removing a message adds nothing that a search would match. *)
LEMMA ShrinkAddsNoMatch ==
  ASSUME TypeOK, NEW r \in Receivers, WaitShrink(r), NEW q, NEW d \in data', Matches(q, d)
  PROVE  \E e \in data : Matches(q, e)
  <1>1. CASE d \in data
    BY <1>1
  <1>2. ASSUME NEW e \in data, d = [e EXCEPT !.at = @ - copy[r].size] PROVE \E f \in data : Matches(q, f)
    <2>1. e \in Message
      BY FieldTypes
    <2>2. d.type = e.type /\ d.nr = e.nr
      BY <1>2, <2>1 DEF Message
    <2>3. QED BY <2>2 DEF Matches
  <1> QED BY <1>1, <1>2 DEF WaitShrink

LEMMA ReceiverWakeupStep == IInv /\ ReceiverWakeup /\ [Next]_vars => ReceiverWakeup'
  <1> SUFFICES ASSUME IInv, ReceiverWakeup, [Next]_vars,
                      senderCrashes' = 0, NEW r \in Receivers, pc'[r] = "wait",
                      NEW d \in data', Matches(search'[r], d)
               PROVE  \E s \in Senders : pc'[s] = "notify"
    BY DEF ReceiverWakeup, Matches
  <1>t. TypeOK /\ pc \in [Threads -> SenderPC \cup ReceiverPC \cup OwnerPC] /\ senderCrashes \in Nat
        /\ search \in [Receivers -> Search]
    BY DEF IInv, TypeOK
  <1> USE ThreadsAssumption DEF Threads, Go, segment, locals, ghosts
  <1> DEFINE Kept == /\ pc[r] = "wait" /\ search'[r] = search[r] /\ senderCrashes = 0
                     /\ \A s \in Senders : pc[s] = "notify" => pc'[s] = "notify"
  <1>1. CASE Kept /\ data' = data
    BY <1>1 DEF ReceiverWakeup
  <1>2. CASE Begin
    <2>1. CASE BeginReset BY <2>1 DEF BeginReset
    <2>2. CASE ~BeginReset
      BY <1>1, <1>2, <1>t, <2>2 DEF Begin, BeginOpen, BeginLock, BeginFails
    <2>3. QED BY <2>1, <2>2
  <1>3. ASSUME NEW s \in Senders, Send(s) PROVE \E u \in Senders : pc'[u] = "notify"
    <2>1. CASE SendPut(s)
      BY <2>1, <1>t DEF SendPut
    <2>2. CASE SendNotify(s)
      BY <2>2, <1>t DEF SendNotify, Broadcast
    <2>3. CASE ~SendPut(s) /\ ~SendNotify(s)
      <3>1. /\ pc[s] # "notify" /\ UNCHANGED <<data, search, senderCrashes>>
            /\ \E label : pc' = [pc EXCEPT ![s] = label]
        BY <1>3, <2>3 DEF Send, SendCall, SendLock, SendFails, SendDrop, SendWait, SendWoken, SendUnlock
      <3>2. QED BY <1>1, <1>t, <3>1
    <2>4. QED BY <2>1, <2>2, <2>3
  <1>4. ASSUME NEW q \in Receivers, Wait(q) PROVE \E s \in Senders : pc'[s] = "notify"
    <2>1. CASE WaitShrink(q)
      <3>1. Kept
        BY <2>1, <1>t DEF WaitShrink
      <3>2. \E e \in data : Matches(search[r], e)
        BY <2>1, <1>t, <3>1, ShrinkAddsNoMatch
      <3>3. QED BY <3>1, <3>2 DEF ReceiverWakeup
    <2>2. CASE WaitWait(q)
      <3>1. CASE q = r BY <2>2, <3>1 DEF WaitWait
      <3>2. CASE q # r BY <2>2, <3>2, <1>1, <1>t DEF WaitWait
      <3>3. QED BY <3>1, <3>2
    <2>3. CASE WaitNotify(q)
      BY <2>3, <1>1, <1>t DEF WaitNotify, Broadcast
    <2>4. CASE ~WaitShrink(q) /\ ~WaitWait(q) /\ ~WaitNotify(q)
      <3>1. /\ UNCHANGED <<data, senderCrashes>>
            /\ \A u \in Receivers \ {q} : search'[u] = search[u]
            /\ \E label : label # "wait" /\ pc' = [pc EXCEPT ![q] = label]
        BY <1>4, <1>t, <2>4 DEF Wait, WaitCall, WaitLock, WaitFails, WaitTake, WaitUnlock, WaitTimeout, WaitWoken
      <3>2. QED BY <1>1, <1>t, <3>1
    <2>5. QED BY <2>1, <2>2, <2>3, <2>4
  <1>5. ASSUME NEW s \in Senders, SenderCrash(s) PROVE FALSE
    BY <1>5, <1>t DEF SenderCrash
  <1>6. CASE OwnerCrash
    BY <1>6, <1>t DEF OwnerCrash
  <1>7. CASE UNCHANGED vars
    BY <1>7, <1>1 DEF vars
  <1> QED BY <1>2, <1>3, <1>4, <1>5, <1>6, <1>7 DEF Next

LEMMA SenderWakeupStep == IInv /\ SenderWakeup /\ [Next]_vars => SenderWakeup'
  <1> SUFFICES ASSUME IInv, SenderWakeup, [Next]_vars, pc'[Owner] = "up",
                      NEW s \in Senders, pc'[s] = "wait",
                      total_size' >= filled' + m'[s].size
               PROVE  s \in forgotten' \/ \E r \in Receivers : pc'[r] = "notify"
    BY DEF SenderWakeup, HasRoom
  <1>t. TypeOK /\ pc \in [Threads -> SenderPC \cup ReceiverPC \cup OwnerPC] /\ m \in [Senders -> Request]
    BY DEF IInv, TypeOK
  <1>n. /\ filled \in Nat /\ total_size \in Nat /\ m[s].size \in Nat
        /\ \A u \in Senders : m[u].size \in Nat
    BY <1>t, FieldTypes
  <1> USE ThreadsAssumption DEF Threads, Go, segment, locals, ghosts
  <1> DEFINE Kept == /\ pc[Owner] = "up" /\ pc[s] = "wait" /\ m'[s] = m[s]
                     /\ total_size >= filled + m[s].size
                     /\ s \in forgotten => s \in forgotten'
                     /\ \A r \in Receivers : pc[r] = "notify" => pc'[r] = "notify"
  <1>1. CASE Kept
    BY <1>1 DEF SenderWakeup, HasRoom
  <1>2. CASE Begin
    BY <1>1, <1>2, <1>t DEF Begin, BeginOpen, BeginLock, BeginFails, BeginReset
  <1>3. ASSUME NEW u \in Senders, Send(u) \/ SenderCrash(u) PROVE s \in forgotten' \/ \E r \in Receivers : pc'[r] = "notify"
    <2>1. CASE SendPut(u)
      BY <2>1, <1>1, <1>t, <1>n DEF SendPut
    <2>2. CASE SendNotify(u)
      BY <2>2, <1>1, <1>t DEF SendNotify, Broadcast
    <2>3. CASE SendWait(u)
      <3>1. CASE u = s BY <2>3, <3>1 DEF SendWait, HasRoom
      <3>2. CASE u # s BY <2>3, <3>2, <1>1, <1>t DEF SendWait
      <3>3. QED BY <3>1, <3>2
    <2>4. CASE ~SendPut(u) /\ ~SendNotify(u) /\ ~SendWait(u)
      <3>1. /\ UNCHANGED <<filled, total_size>> /\ forgotten \ {u} \subseteq forgotten'
            /\ \A v \in Senders \ {u} : m'[v] = m[v]
            /\ \E label : label # "wait" /\ pc' = [pc EXCEPT ![u] = label]
        BY <1>3, <1>t, <2>4 DEF Send, SendCall, SendLock, SendFails, SendDrop, SendWoken, SendUnlock, SenderCrash
      <3>2. QED BY <1>1, <1>t, <3>1
    <2>5. QED BY <2>1, <2>2, <2>3, <2>4
  <1>4. ASSUME NEW r \in Receivers, Wait(r) PROVE s \in forgotten' \/ \E q \in Receivers : pc'[q] = "notify"
    <2>1. CASE WaitShrink(r)
      BY <2>1, <1>t DEF WaitShrink
    <2>2. CASE WaitNotify(r)
      BY <2>2, <1>t DEF WaitNotify, Broadcast
    <2>3. CASE ~WaitShrink(r) /\ ~WaitNotify(r)
      <3>1. /\ UNCHANGED <<filled, total_size, forgotten, m>> /\ pc[r] # "notify"
            /\ \E label : pc' = [pc EXCEPT ![r] = label]
        BY <1>4, <1>t, <2>3
        DEF Wait, WaitCall, WaitLock, WaitFails, WaitTake, WaitUnlock, WaitWait, WaitTimeout, WaitWoken
      <3>2. QED BY <1>1, <1>t, <3>1
    <2>4. QED BY <2>1, <2>2, <2>3
  <1>5. CASE OwnerCrash
    BY <1>5, <1>t DEF OwnerCrash
  <1>6. CASE UNCHANGED vars
    BY <1>6, <1>1 DEF vars
  <1> QED BY <1>2, <1>3, <1>4, <1>5, <1>6 DEF Next

(* No wake-up of wait_for_message is lost while no sender crashes.          *)
THEOREM ReceiversAreWoken == Spec => []ReceiverWakeup
  <1>1. Init => ReceiverWakeup
    BY DEF Init, ReceiverWakeup
  <1> QED
    BY <1>1, Invariance, ReceiverWakeupStep, PTL DEF Spec

(* No wake-up of send_message is lost, but for what begin() forgets.        *)
THEOREM SendersAreWoken == Spec => []SenderWakeup
  <1>1. Init => SenderWakeup
    BY ThreadsAssumption DEF Init, SenderWakeup, Threads
  <1> QED
    BY <1>1, Invariance, SenderWakeupStep, PTL DEF Spec

=============================================================================
