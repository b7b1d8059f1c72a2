--------------------------- MODULE ShmQueueProofs ---------------------------
(***************************************************************************)
(* Proofs about ShmQueue for any senders, receivers, capacity, messages,   *)
(* searches and number of crashes.                                         *)
(***************************************************************************)
EXTENDS ShmQueue, TLAPS

(* A thread in a critical section holds the mutex. *)
HolderInside ==
    \A t \in Threads : InCriticalSection(t) => holder = t

(* The owner's threads run only once begin() has returned. *)
RunningOwner ==
    \A r \in Receivers : pc[r] # "idle" => pc[Owner] = "up"

(* What wait_for_message is removing is in the queue until it shrinks. *)
Removing ==
    \A r \in Receivers : pc[r] = "shrink" => copy[r] \in data

(* Bytes are mid-move only while a receiver moves them or the owner is down. *)
TornExplained ==
    torn => pc[Owner] # "up" \/ \E r \in Receivers : pc[r] = "shrink"

IInv ==
    /\ TypeOK
    /\ HolderInside
    /\ RunningOwner
    /\ Removing
    /\ Layout
    /\ TornExplained

LEMMA InitIInv == Init => IInv
  <1> SUFFICES ASSUME Init PROVE IInv
    OBVIOUS
  <1> USE ThreadsAssumption DEF Init, Threads
  <1>1. /\ (CHOOSE q \in Requests : TRUE) \in Request
        /\ (CHOOSE q \in Searches : TRUE) \in Search
        /\ (CHOOSE z \in Sizes : TRUE) \in Sizes
    BY SizesAssumption, CallsAssumption
  <1>2. TypeOK
    <2>1. m \in [Senders -> Request] /\ search \in [Receivers -> Search]
      BY <1>1
    <2>2. copy \in [Receivers -> Message]
      BY <1>1 DEF Message, Types
    <2>3. /\ pc \in [Threads -> SenderPC \cup ReceiverPC \cup OwnerPC]
          /\ \A s \in Senders : pc[s] \in SenderPC
          /\ \A r \in Receivers : pc[r] \in ReceiverPC
          /\ pc[Owner] \in OwnerPC
      BY DEF SenderPC, ReceiverPC, OwnerPC, InSend, InWait
    <2>4. total_size \in {0, Capacity} /\ filled \in 0 .. total_size
      OBVIOUS
    <2>5. QED
      BY <2>1, <2>2, <2>3, <2>4 DEF TypeOK
  <1>3. HolderInside /\ RunningOwner /\ Removing /\ TornExplained
    BY DEF HolderInside, RunningOwner, Removing, TornExplained, InCriticalSection, InSend, InWait
  <1>4. Layout
    BY DEF Layout
  <1>5. QED
    BY <1>2, <1>3, <1>4 DEF IInv

(* A step of one thread of the mutex keeps every other thread out. *)
LEMMA HolderStep == TypeOK /\ HolderInside /\ [Next]_vars => HolderInside'
  <1> SUFFICES ASSUME TypeOK, HolderInside, [Next]_vars
               PROVE  HolderInside'
    OBVIOUS
  <1> USE ThreadsAssumption DEF TypeOK, HolderInside, InCriticalSection, Threads, InSend, InWait,
          Go, mutex, Lock, Lockable, Unlock
  <1>1. CASE BeginOpen
    BY <1>1 DEF BeginOpen
  <1>2. CASE BeginLock
    BY <1>2 DEF BeginLock
  <1>3. CASE BeginFails
    BY <1>3 DEF BeginFails
  <1>4. CASE BeginReset
    BY <1>4 DEF BeginReset
  <1>5. ASSUME NEW s \in Senders, Send(s) PROVE HolderInside'
    <2>1. CASE SendCall(s) BY <2>1 DEF SendCall
    <2>2. CASE SendLock(s) BY <2>2 DEF SendLock
    <2>3. CASE SendFails(s) BY <2>3 DEF SendFails
    <2>4. CASE SendPut(s) BY <2>4 DEF SendPut
    <2>5. CASE SendDrop(s) BY <2>5 DEF SendDrop
    <2>6. CASE SendWait(s) BY <2>6 DEF SendWait
    <2>7. CASE SendWoken(s) BY <2>7 DEF SendWoken
    <2>8. CASE SendNotify(s) BY <2>8 DEF SendNotify, Broadcast
    <2>9. CASE SendUnlock(s) BY <2>9 DEF SendUnlock
    <2> QED BY <1>5, <2>1, <2>2, <2>3, <2>4, <2>5, <2>6, <2>7, <2>8, <2>9 DEF Send
  <1>6. ASSUME NEW r \in Receivers, Wait(r) PROVE HolderInside'
    <2>1. CASE WaitCall(r) BY <2>1 DEF WaitCall
    <2>2. CASE WaitLock(r) BY <2>2 DEF WaitLock
    <2>3. CASE WaitFails(r) BY <2>3 DEF WaitFails
    <2>4. CASE WaitTake(r) BY <2>4 DEF WaitTake
    <2>5. CASE WaitShrink(r) BY <2>5 DEF WaitShrink
    <2>6. CASE WaitNotify(r) BY <2>6 DEF WaitNotify, Broadcast
    <2>7. CASE WaitUnlock(r) BY <2>7 DEF WaitUnlock
    <2>8. CASE WaitWait(r) BY <2>8 DEF WaitWait
    <2>9. CASE WaitTimeout(r) BY <2>9 DEF WaitTimeout
    <2>10. CASE WaitWoken(r) BY <2>10 DEF WaitWoken
    <2> QED BY <1>6, <2>1, <2>2, <2>3, <2>4, <2>5, <2>6, <2>7, <2>8, <2>9, <2>10 DEF Wait
  <1>7. ASSUME NEW s \in Senders, SenderCrash(s) PROVE HolderInside'
    BY <1>7 DEF SenderCrash, Abandon
  <1>8. CASE OwnerCrash
    BY <1>8 DEF OwnerCrash, Abandon
  <1>9. CASE UNCHANGED vars
    BY <1>9 DEF vars
  <1> QED BY <1>1, <1>2, <1>3, <1>4, <1>5, <1>6, <1>7, <1>8, <1>9 DEF Next, Begin

LEMMA RunningStep == TypeOK /\ RunningOwner /\ [Next]_vars => RunningOwner'
  <1> SUFFICES ASSUME TypeOK, RunningOwner, [Next]_vars
               PROVE  RunningOwner'
    OBVIOUS
  <1> USE ThreadsAssumption DEF TypeOK, RunningOwner, Threads, Go
  <1>1. CASE Begin
    BY <1>1 DEF Begin, BeginOpen, BeginLock, BeginFails, BeginReset
  <1>2. ASSUME NEW s \in Senders, Send(s) \/ SenderCrash(s) PROVE RunningOwner'
    <2>1. CASE SendNotify(s) BY <2>1 DEF SendNotify, Broadcast
    <2>2. CASE ~SendNotify(s)
      <3>1. \E label : pc' = [pc EXCEPT ![s] = label]
        BY <1>2, <2>2 DEF Send, SendCall, SendLock, SendFails, SendPut, SendDrop, SendWait, SendWoken,
           SendUnlock, SenderCrash
      <3>2. QED BY <3>1
    <2>3. QED BY <2>1, <2>2
  <1>3. ASSUME NEW r \in Receivers, Wait(r) PROVE RunningOwner'
    <2>1. CASE WaitNotify(r) BY <2>1 DEF WaitNotify, Broadcast
    <2>2. CASE ~WaitNotify(r)
      <3>1. /\ pc[Owner] = "up"
            /\ \E label : pc' = [pc EXCEPT ![r] = label]
        BY <1>3, <2>2 DEF Wait, WaitCall, WaitLock, WaitFails, WaitTake, WaitShrink, WaitUnlock, WaitWait,
           WaitTimeout, WaitWoken
      <3>2. QED BY <3>1
    <2>3. QED BY <2>1, <2>2
  <1>4. CASE OwnerCrash
    BY <1>4 DEF OwnerCrash
  <1>5. CASE UNCHANGED vars
    BY <1>5 DEF vars
  <1> QED BY <1>1, <1>2, <1>3, <1>4, <1>5 DEF Next

(* The data of the segment changes only in three places. *)
LEMMA DataSteps ==
  ASSUME [Next]_vars
  PROVE  \/ BeginReset
         \/ \E s \in Senders : SendPut(s)
         \/ \E r \in Receivers : WaitShrink(r)
         \/ UNCHANGED <<data, filled, total_size>>
  BY DEF Next, vars, segment, Begin, BeginOpen, BeginLock, BeginFails,
     Send, SendCall, SendLock, SendFails, SendDrop, SendWait, SendWoken, SendNotify, SendUnlock,
     Wait, WaitCall, WaitLock, WaitFails, WaitTake, WaitNotify, WaitUnlock, WaitWait, WaitTimeout, WaitWoken,
     SenderCrash, OwnerCrash

(* The fields of the messages, as the provers need them. *)
LEMMA FieldTypes ==
  ASSUME TypeOK
  PROVE  /\ \A s \in Senders : /\ m[s] \in Request /\ m[s].size \in Sizes
                               /\ m[s].type \in Types /\ m[s].nr \in Nat
         /\ \A d \in data : /\ d \in Message /\ d.at \in Nat /\ d.size \in Sizes
                            /\ d.type \in Types /\ d.nr \in Nat
         /\ \A z \in Sizes : z \in Nat \ {0}
         /\ filled \in Nat /\ total_size \in Nat /\ filled <= total_size
  <1>1. \A s \in Senders : m[s] \in Request
    BY DEF TypeOK
  <1>2. \A q \in Request : q.size \in Sizes /\ q.type \in Types /\ q.nr \in Nat
    BY DEF Request
  <1>3. \A d \in Message : d.at \in Nat /\ d.size \in Sizes /\ d.type \in Types /\ d.nr \in Nat
    BY DEF Message
  <1>4. filled \in Nat /\ total_size \in Nat /\ filled <= total_size
    BY SizesAssumption DEF TypeOK
  <1> QED
    BY <1>1, <1>2, <1>3, <1>4, SizesAssumption DEF TypeOK

(* Appending a message at data[filled]. *)
LEMMA LayoutPut ==
  ASSUME TypeOK, Layout, NEW s \in Senders, SendPut(s)
  PROVE  Layout'
  <1> DEFINE new == [at |-> filled, size |-> m[s].size, type |-> m[s].type, nr |-> m[s].nr]
  <1>1. /\ m[s].size \in Nat \ {0} /\ filled \in Nat
        /\ \A d \in data : d.at \in Nat /\ d.size \in Nat \ {0}
    BY FieldTypes
  <1>2. /\ new.at = filled /\ new.size = m[s].size
        /\ data' = data \cup {new} /\ filled' = filled + m[s].size
    BY DEF SendPut
  <1> HIDE DEF new
  <1>3. \A d \in data' : d.at + d.size <= filled'
    BY <1>1, <1>2 DEF Layout
  <1>4. \A d, e \in data' : d = e \/ d.at + d.size <= e.at \/ e.at + e.size <= d.at
    BY <1>1, <1>2 DEF Layout
  <1>5. ASSUME NEW d \in data' PROVE d.at = 0 \/ \E e \in data' : e.at + e.size = d.at
    BY <1>1, <1>2 DEF Layout
  <1>6. new \in data' /\ new.at + new.size = filled'
    BY <1>2
  <1> QED
    BY <1>3, <1>4, <1>5, <1>6 DEF Layout

(* Removing the message a receiver copied, and moving down what follows. *)
LEMMA LayoutShrink ==
  ASSUME TypeOK, Layout, Removing, NEW r \in Receivers, WaitShrink(r)
  PROVE  Layout' /\ filled' \in 0 .. filled /\ data' \subseteq Message
  <1> DEFINE c == copy[r]
             Down(d) == [d EXCEPT !.at = @ - c.size]
             Low == {d \in data : d.at < c.at}
             High == {d \in data : d.at > c.at}
  <1>1. c \in data /\ pc[r] = "shrink"
    BY DEF Removing, WaitShrink
  <1>2. /\ filled \in Nat
        /\ \A d \in data : /\ d \in Message /\ d.at \in Nat /\ d.size \in Nat \ {0}
                           /\ Down(d).at = d.at - c.size /\ Down(d).size = d.size
                           /\ Down(d).type = d.type /\ Down(d).nr = d.nr
                           /\ (d.at - c.size \in Nat => Down(d) \in Message)
    BY <1>1, SizesAssumption DEF TypeOK, Message
  <1>3. /\ data' = Low \cup {Down(d) : d \in High}
        /\ filled' = filled - c.size
    BY DEF WaitShrink
  <1> HIDE DEF c, Down
  <1>4. /\ \A d \in Low : d.at + d.size <= c.at
        /\ \A d \in High : c.at + c.size <= d.at
        /\ \A d \in data : d.at = c.at => d = c
    BY <1>1, <1>2 DEF Layout
  <1>5. data' \subseteq Message /\ filled' \in 0 .. filled
    BY <1>1, <1>2, <1>3, <1>4 DEF Layout
  <1>6. \A d \in data' : d.at + d.size <= filled'
    BY <1>1, <1>2, <1>3, <1>4 DEF Layout
  <1>7. \A d, e \in data' : d = e \/ d.at + d.size <= e.at \/ e.at + e.size <= d.at
    <2> SUFFICES ASSUME NEW d \in data', NEW e \in data'
                 PROVE  d = e \/ d.at + d.size <= e.at \/ e.at + e.size <= d.at
      OBVIOUS
    <2>1. CASE d \in Low /\ e \in Low
      BY <2>1 DEF Layout
    <2>2. ASSUME NEW h \in High, NEW k \in High, d = Down(h), e = Down(k)
          PROVE  d = e \/ d.at + d.size <= e.at \/ e.at + e.size <= d.at
      BY <2>2, <1>1, <1>2 DEF Layout
    <2>3. ASSUME NEW h \in High, d \in Low, e = Down(h)
          PROVE  d.at + d.size <= e.at
      BY <2>3, <1>1, <1>2, <1>4
    <2>4. ASSUME NEW h \in High, e \in Low, d = Down(h)
          PROVE  e.at + e.size <= d.at
      BY <2>4, <1>1, <1>2, <1>4
    <2>5. QED
      BY <2>1, <2>2, <2>3, <2>4, <1>3
  <1>8. ASSUME NEW d \in data' PROVE d.at = 0 \/ \E e \in data' : e.at + e.size = d.at
    <2>1. CASE d \in Low
      BY <2>1, <1>1, <1>2, <1>3 DEF Layout
    <2>2. ASSUME NEW h \in High, d = Down(h)
          PROVE  d.at = 0 \/ \E e \in data' : e.at + e.size = d.at
      <3>1. PICK e \in data : e.at + e.size = h.at
        BY <2>2, <1>1, <1>2 DEF Layout
      <3>2. CASE e \in High
        <4>1. Down(e) \in data' /\ Down(e).at + Down(e).size = d.at
          BY <2>2, <3>1, <3>2, <1>1, <1>2, <1>3
        <4>2. QED BY <4>1
      <3>3. CASE e = c
        <4>1. d.at = c.at
          BY <2>2, <3>1, <3>3, <1>1, <1>2
        <4>2. CASE c.at = 0
          BY <4>1, <4>2
        <4>3. CASE c.at # 0
          <5>1. PICK k \in data : k.at + k.size = c.at
            BY <4>3, <1>1 DEF Layout
          <5>2. k \in Low
            BY <5>1, <1>1, <1>2
          <5>3. QED BY <4>1, <5>1, <5>2, <1>3
        <4>4. QED BY <4>2, <4>3
      <3>4. CASE e \in Low
        BY <2>2, <3>1, <3>4, <1>1, <1>2, <1>4
      <3>5. QED BY <3>1, <3>2, <3>3, <3>4, <1>1, <1>2, <1>4
    <2>3. QED BY <2>1, <2>2, <1>3
  <1>9. filled' = 0 \/ \E e \in data' : e.at + e.size = filled'
    <2>1. PICK e \in data : e.at + e.size = filled
      BY <1>1, <1>2 DEF Layout
    <2>2. CASE e \in High
      <3>1. Down(e) \in data' /\ Down(e).at + Down(e).size = filled'
        BY <2>1, <2>2, <1>1, <1>2, <1>3
      <3>2. QED BY <3>1
    <2>3. CASE e = c
      <3>1. filled' = c.at
        BY <2>1, <2>3, <1>1, <1>2, <1>3
      <3>2. CASE c.at = 0
        BY <3>1, <3>2
      <3>3. CASE c.at # 0
        <4>1. PICK k \in data : k.at + k.size = c.at
          BY <3>3, <1>1 DEF Layout
        <4>2. k \in Low
          BY <4>1, <1>1, <1>2
        <4>3. QED BY <3>1, <4>1, <4>2, <1>3
      <3>4. QED BY <3>2, <3>3
    <2>4. CASE e \in Low
      BY <2>1, <2>4, <1>1, <1>2, <1>4 DEF Layout
    <2>5. QED BY <2>1, <2>2, <2>3, <2>4, <1>1, <1>2, <1>4
  <1> QED
    BY <1>5, <1>6, <1>7, <1>8, <1>9 DEF Layout

LEMMA TypeStep == TypeOK /\ Layout /\ Removing /\ [Next]_vars => TypeOK'
  <1> SUFFICES ASSUME TypeOK, Layout, Removing, [Next]_vars
               PROVE  TypeOK'
    OBVIOUS
  <1>a. /\ data' \subseteq Message
        /\ total_size' \in {0, Capacity} /\ filled' \in 0 .. total_size'
    <2>1. CASE BeginReset
      BY <2>1, SizesAssumption DEF BeginReset
    <2>2. ASSUME NEW s \in Senders, SendPut(s) PROVE <1>a!:
      <3>1. [at |-> filled, size |-> m[s].size, type |-> m[s].type, nr |-> m[s].nr] \in Message
        BY FieldTypes DEF Message
      <3>2. filled + m[s].size \in 0 .. total_size
        BY <2>2, FieldTypes DEF SendPut, HasRoom
      <3>3. QED
        BY <2>2, <3>1, <3>2 DEF SendPut, TypeOK
    <2>3. ASSUME NEW r \in Receivers, WaitShrink(r) PROVE <1>a!:
      <3>1. filled' \in 0 .. filled /\ data' \subseteq Message /\ total_size' = total_size
        BY <2>3, LayoutShrink DEF WaitShrink
      <3>2. QED
        BY <3>1, FieldTypes DEF TypeOK
    <2>4. CASE UNCHANGED <<data, filled, total_size>>
      BY <2>4 DEF TypeOK
    <2>5. QED BY <2>1, <2>2, <2>3, <2>4, DataSteps
  <1>b. m' \in [Senders -> Request] /\ most_recent_msg_nr' \in Nat
    <2>1. ASSUME NEW s \in Senders, SendCall(s) PROVE <1>b!:
      BY <2>1, CallsAssumption DEF SendCall, TypeOK, segment
    <2>2. ASSUME NEW s \in Senders, SendLock(s) PROVE <1>b!:
      <3>1. CASE m[s].type = "reply"
        BY <2>2, <3>1 DEF SendLock, TypeOK
      <3>2. CASE m[s].type # "reply"
        <4>1. [m[s] EXCEPT !.nr = most_recent_msg_nr + 1] \in Request
          BY FieldTypes DEF Request, TypeOK
        <4>2. m' = [m EXCEPT ![s] = [m[s] EXCEPT !.nr = most_recent_msg_nr + 1]]
          BY <2>2, <3>2 DEF SendLock
        <4>3. QED
          BY <2>2, <3>2, <4>1, <4>2 DEF SendLock, TypeOK
      <3>3. QED BY <3>1, <3>2
    <2>3. CASE UNCHANGED <<m, most_recent_msg_nr>>
      BY <2>3 DEF TypeOK
    <2>4. QED
      BY <2>1, <2>2, <2>3
      DEF Next, vars, segment, locals, Begin, BeginOpen, BeginLock, BeginFails, BeginReset,
          Send, SendFails, SendPut, SendDrop, SendWait, SendWoken, SendNotify, SendUnlock,
          Wait, WaitCall, WaitLock, WaitFails, WaitTake, WaitShrink, WaitNotify, WaitUnlock, WaitWait,
          WaitTimeout, WaitWoken, SenderCrash, OwnerCrash
  <1>c. search' \in [Receivers -> Search] /\ copy' \in [Receivers -> Message]
    <2>1. ASSUME NEW r \in Receivers, WaitCall(r) PROVE <1>c!:
      BY <2>1, CallsAssumption DEF WaitCall, TypeOK
    <2>2. ASSUME NEW r \in Receivers, WaitTake(r) PROVE <1>c!:
      BY <2>2 DEF WaitTake, TypeOK
    <2>3. CASE UNCHANGED <<search, copy>>
      BY <2>3 DEF TypeOK
    <2>4. QED
      BY <2>1, <2>2, <2>3
      DEF Next, vars, locals, Begin, BeginOpen, BeginLock, BeginFails, BeginReset,
          Send, SendCall, SendLock, SendFails, SendPut, SendDrop, SendWait, SendWoken, SendNotify, SendUnlock,
          Wait, WaitLock, WaitFails, WaitShrink, WaitNotify, WaitUnlock, WaitWait,
          WaitTimeout, WaitWoken, SenderCrash, OwnerCrash
  <1> DEFINE Rest == /\ exists' \in BOOLEAN /\ torn' \in BOOLEAN
                     /\ holder' \in Threads \cup {NoThread}
                     /\ robust' \in {"ok", "dead", "inconsistent", "lost"}
                     /\ pc' \in [Threads -> SenderPC \cup ReceiverPC \cup OwnerPC]
                     /\ \A s \in Senders : pc'[s] \in SenderPC
                     /\ \A r \in Receivers : pc'[r] \in ReceiverPC
                     /\ pc'[Owner] \in OwnerPC
                     /\ delivered' \subseteq Nat
                     /\ forgotten' \subseteq Senders
                     /\ senderCrashes' \in Nat /\ ownerCrashes' \in Nat
  <1>d. Rest
    <2> USE ThreadsAssumption DEF TypeOK, Threads, SenderPC, ReceiverPC, OwnerPC, InSend, InWait,
            Go, mutex, segment, ghosts, Lock, Lockable, Unlock
    <2>1. CASE Begin
      <3>1. CASE BeginOpen BY <3>1 DEF BeginOpen
      <3>2. CASE BeginLock BY <3>2 DEF BeginLock
      <3>3. CASE BeginFails BY <3>3 DEF BeginFails
      <3>4. CASE BeginReset BY <3>4 DEF BeginReset
      <3>5. QED BY <2>1, <3>1, <3>2, <3>3, <3>4 DEF Begin
    <2>2. ASSUME NEW s \in Senders, Send(s) PROVE Rest
      <3>1. CASE SendCall(s) BY <3>1 DEF SendCall
      <3>2. CASE SendLock(s) BY <3>2 DEF SendLock
      <3>3. CASE SendFails(s) BY <3>3 DEF SendFails
      <3>4. CASE SendPut(s) BY <3>4 DEF SendPut
      <3>8. CASE SendDrop(s) BY <3>8 DEF SendDrop
      <3>9. CASE SendWait(s) BY <3>9 DEF SendWait
      <3>10. CASE SendUnlock(s) BY <3>10 DEF SendUnlock
      <3>5. CASE SendWoken(s) BY <3>5 DEF SendWoken
      <3>6. CASE SendNotify(s) BY <3>6 DEF SendNotify, Broadcast
      <3>7. QED BY <2>2, <3>1, <3>2, <3>3, <3>4, <3>5, <3>6, <3>8, <3>9, <3>10 DEF Send
    <2>3. ASSUME NEW r \in Receivers, Wait(r) PROVE Rest
      <3>1. CASE WaitCall(r) BY <3>1 DEF WaitCall
      <3>8. CASE WaitLock(r) BY <3>8 DEF WaitLock
      <3>9. CASE WaitFails(r) BY <3>9 DEF WaitFails
      <3>2. CASE WaitTake(r)
        <4>1. torn' \in BOOLEAN
          BY <3>2 DEF WaitTake
        <4>2. pc' = [pc EXCEPT ![r] = "shrink"]
          BY <3>2 DEF WaitTake
        <4>3. UNCHANGED <<exists, mutex, ghosts>>
          BY <3>2 DEF WaitTake
        <4>4. QED BY <4>1, <4>2, <4>3
      <3>3. CASE WaitShrink(r) BY <3>3 DEF WaitShrink
      <3>4. CASE WaitNotify(r) BY <3>4 DEF WaitNotify, Broadcast
      <3>5. CASE WaitUnlock(r)
        <4>1. copy[r].nr \in Nat
          <5>1. copy[r] \in Message OBVIOUS
          <5>2. QED BY <5>1 DEF Message
        <4>2. QED BY <3>5, <4>1 DEF WaitUnlock
      <3>6. CASE WaitWait(r) BY <3>6 DEF WaitWait
      <3>10. CASE WaitTimeout(r) BY <3>10 DEF WaitTimeout
      <3>11. CASE WaitWoken(r) BY <3>11 DEF WaitWoken
      <3>12. QED
        BY <2>3, <3>1, <3>2, <3>3, <3>4, <3>5, <3>6, <3>8, <3>9, <3>10, <3>11 DEF Wait
    <2>4. ASSUME NEW s \in Senders, SenderCrash(s) PROVE Rest
      BY <2>4 DEF SenderCrash, Abandon
    <2>5. CASE OwnerCrash
      BY <2>5 DEF OwnerCrash, Abandon
    <2>6. CASE UNCHANGED vars
      BY <2>6 DEF vars
    <2>7. QED BY <2>1, <2>2, <2>3, <2>4, <2>5, <2>6 DEF Next
  <1> QED
    BY <1>a, <1>b, <1>c, <1>d DEF TypeOK

(* Only its own thread changes what a receiver is removing, and no other    *)
(* thread can touch the data meanwhile.                                     *)
LEMMA RemovingStep == TypeOK /\ HolderInside /\ Removing /\ [Next]_vars => Removing'
  <1> SUFFICES ASSUME TypeOK, HolderInside, Removing, [Next]_vars,
                      NEW r \in Receivers, pc'[r] = "shrink"
               PROVE  copy'[r] \in data'
    BY DEF Removing
  <1>t. /\ pc \in [Threads -> SenderPC \cup ReceiverPC \cup OwnerPC]
        /\ copy \in [Receivers -> Message]
    BY DEF TypeOK
  <1> USE <1>t, ThreadsAssumption DEF Threads
  <1>1. CASE WaitTake(r)
    BY <1>1 DEF WaitTake
  <1>2. CASE ~WaitTake(r)
    <2>1. pc[r] = "shrink" /\ UNCHANGED <<data, copy>>
      <3> USE DEF HolderInside, InCriticalSection, InSend, InWait, Go
      <3>1. CASE Begin
        BY <3>1 DEF Begin, BeginOpen, BeginLock, BeginFails, BeginReset, segment, locals
      <3>2. ASSUME NEW s \in Senders, Send(s) \/ SenderCrash(s) PROVE <2>1!:
        <4>1. CASE SendNotify(s)
          BY <4>1 DEF SendNotify, Broadcast, segment, locals
        <4>2. CASE SendPut(s)
          BY <4>2 DEF SendPut
        <4>3. CASE ~SendNotify(s) /\ ~SendPut(s)
          <5>1. UNCHANGED <<data, copy>> /\ \E label : pc' = [pc EXCEPT ![s] = label]
            BY <3>2, <4>3 DEF Send, SendCall, SendLock, SendFails, SendDrop, SendWait, SendWoken, SendUnlock,
               SenderCrash, segment, locals
          <5>2. QED BY <5>1
        <4>4. QED BY <4>1, <4>2, <4>3
      <3>3. ASSUME NEW q \in Receivers, Wait(q) PROVE <2>1!:
        <4>1. CASE WaitNotify(q)
          BY <4>1 DEF WaitNotify, Broadcast, segment, locals
        <4>2. CASE WaitShrink(q)
          BY <4>2 DEF WaitShrink
        <4>3. CASE WaitTake(q)
          BY <4>3, <1>2 DEF WaitTake
        <4>4. CASE ~WaitNotify(q) /\ ~WaitShrink(q) /\ ~WaitTake(q)
          <5>1. UNCHANGED <<data, copy>> /\ \E label : label # "shrink" /\ pc' = [pc EXCEPT ![q] = label]
            BY <3>3, <4>4 DEF Wait, WaitCall, WaitLock, WaitFails, WaitUnlock, WaitWait, WaitTimeout, WaitWoken,
               segment, locals
          <5>2. QED BY <5>1
        <4>5. QED BY <4>1, <4>2, <4>3, <4>4
      <3>4. CASE OwnerCrash
        BY <3>4 DEF OwnerCrash, segment, locals
      <3>5. CASE UNCHANGED vars
        BY <3>5 DEF vars
      <3>6. QED BY <3>1, <3>2, <3>3, <3>4, <3>5 DEF Next
    <2>2. QED BY <2>1 DEF Removing
  <1> QED BY <1>1, <1>2

LEMMA LayoutStep == TypeOK /\ Removing /\ Layout /\ [Next]_vars => Layout'
  <1> SUFFICES ASSUME TypeOK, Removing, Layout, [Next]_vars
               PROVE  Layout'
    OBVIOUS
  <1>1. CASE BeginReset
    BY <1>1 DEF BeginReset, Layout
  <1>2. ASSUME NEW s \in Senders, SendPut(s) PROVE Layout'
    BY <1>2, LayoutPut
  <1>3. ASSUME NEW r \in Receivers, WaitShrink(r) PROVE Layout'
    BY <1>3, LayoutShrink
  <1>4. CASE UNCHANGED <<data, filled, total_size>>
    BY <1>4 DEF Layout
  <1> QED BY <1>1, <1>2, <1>3, <1>4, DataSteps

LEMMA TornStep ==
  TypeOK /\ HolderInside /\ RunningOwner /\ TornExplained /\ [Next]_vars => TornExplained'
  <1> SUFFICES ASSUME TypeOK, HolderInside, RunningOwner, TornExplained, [Next]_vars
               PROVE  TornExplained'
    OBVIOUS
  <1>t. torn \in BOOLEAN /\ pc \in [Threads -> SenderPC \cup ReceiverPC \cup OwnerPC]
    BY DEF TypeOK
  <1> USE <1>t, ThreadsAssumption DEF RunningOwner, TornExplained, Threads, Go, segment
  <1>1. CASE Begin
    BY <1>1 DEF Begin, BeginOpen, BeginLock, BeginFails, BeginReset
  <1>2. ASSUME NEW s \in Senders, Send(s) \/ SenderCrash(s) PROVE TornExplained'
    <2>1. CASE SendNotify(s)
      <3>1. \A r \in Receivers : pc[r] = "shrink" => pc'[r] = "shrink"
        BY <2>1 DEF SendNotify, Broadcast
      <3>2. QED BY <2>1, <3>1 DEF SendNotify, Broadcast
    <2>2. CASE ~SendNotify(s)
      <3>1. torn' = torn /\ \E label : pc' = [pc EXCEPT ![s] = label]
        BY <1>2, <2>2 DEF Send, SendCall, SendLock, SendFails, SendPut, SendDrop, SendWait, SendWoken,
           SendUnlock, SenderCrash
      <3>2. QED BY <3>1
    <2>3. QED BY <2>1, <2>2
  <1>3. ASSUME NEW r \in Receivers, Wait(r) PROVE TornExplained'
    <2>1. CASE WaitTake(r) BY <2>1 DEF WaitTake
    <2>2. CASE WaitShrink(r) BY <2>2 DEF WaitShrink
    <2>3. CASE WaitNotify(r)
      <3>1. \A q \in Receivers : pc[q] = "shrink" => pc'[q] = "shrink"
        BY <2>3 DEF WaitNotify, Broadcast
      <3>2. QED BY <2>3, <3>1 DEF WaitNotify, Broadcast
    <2>4. CASE ~WaitTake(r) /\ ~WaitShrink(r) /\ ~WaitNotify(r)
      <3>1. /\ torn' = torn /\ pc[r] # "shrink"
            /\ \E label : pc' = [pc EXCEPT ![r] = label]
        BY <1>3, <2>4 DEF Wait, WaitCall, WaitLock, WaitFails, WaitUnlock, WaitWait, WaitTimeout, WaitWoken
      <3>2. QED BY <3>1
    <2>5. QED BY <2>1, <2>2, <2>3, <2>4
  <1>4. CASE OwnerCrash
    BY <1>4 DEF OwnerCrash
  <1>5. CASE UNCHANGED vars
    BY <1>5 DEF vars
  <1> QED BY <1>1, <1>2, <1>3, <1>4, <1>5 DEF Next

LEMMA Invariance == Spec => []IInv
  <1>1. IInv /\ [Next]_vars => IInv'
    BY TypeStep, HolderStep, RunningStep, RemovingStep, LayoutStep, TornStep DEF IInv
  <1> QED
    BY InitIInv, <1>1, PTL DEF Spec

(* The state of the segment and of every thread stays well-formed; in       *)
(* particular "filled" never exceeds total_size and never wraps below zero  *)
(* when wait_for_message subtracts the length of what it removes.           *)
THEOREM TypeCorrect == Spec => []TypeOK
  BY Invariance, PTL DEF IInv

(* No two threads are ever between a lock and an unlock of shm.cpp at the   *)
(* same time, however many of them crash and wherever they do.              *)
THEOREM Exclusion == Spec => []MutualExclusion
  <1>1. IInv => MutualExclusion
    BY DEF IInv, HolderInside, MutualExclusion
  <1> QED
    BY <1>1, Invariance, PTL

(* The messages in the segment are always back to back, so a walk from      *)
(* header to header reaches every one of them and ends at "filled".         *)
THEOREM LayoutCorrect == Spec => []Layout
  BY Invariance, PTL DEF IInv

(* wait_for_message never walks over half-moved bytes, because a restarted  *)
(* owner empties the queue before its threads look at it.                   *)
THEOREM ScansWholeMessages == Spec => []NeverScanTorn
  <1>1. IInv => NeverScanTorn
    BY ThreadsAssumption
    DEF IInv, NeverScanTorn, TornExplained, RunningOwner, HolderInside, InCriticalSection, InWait, Threads
  <1> QED
    BY <1>1, Invariance, PTL

=============================================================================
