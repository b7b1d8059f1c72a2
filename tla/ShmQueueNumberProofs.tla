------------------------ MODULE ShmQueueNumberProofs ------------------------
(***************************************************************************)
(* Proofs that the numbers of requests are used once: no two requests      *)
(* share one and none is delivered twice.                                  *)
(***************************************************************************)
EXTENDS ShmQueueProofs

(* Numbers: none is above the counter, and what a receiver has taken is     *)
(* neither in the queue nor with a sender any more.                         *)
NumbersBounded ==
    /\ \A d \in data : IsRequest(d) => d.nr <= most_recent_msg_nr
    /\ \A s \in Senders : Numbered(s) => m[s].nr <= most_recent_msg_nr
    /\ \A n \in delivered : n <= most_recent_msg_nr
    /\ \A r \in Receivers : Taken(r) => copy[r].nr <= most_recent_msg_nr

TakenApart ==
    \A r \in Receivers : Taken(r) =>
       /\ \A d \in data : IsRequest(d) => d.nr # copy[r].nr
       /\ \A s \in Senders : Numbered(s) => m[s].nr # copy[r].nr

(* A request's number is in one place only, be it a sender that has yet to  *)
(* put it, the queue, a receiver about to return it, or the past.           *)
Numbering == NumbersUnique /\ DeliveredOnce /\ NumbersBounded /\ TakenApart

(* A step that moves no number. *)
NumbersRest ==
    /\ UNCHANGED <<data, most_recent_msg_nr, delivered>>
    /\ \A s \in Senders : Numbered(s)' => Numbered(s) /\ m'[s] = m[s]
    /\ \A r \in Receivers : Taken(r)' => Taken(r) /\ copy'[r] = copy[r]

LEMMA QuietSteps ==
  ASSUME TypeOK, [Next]_vars,
         \A s \in Senders : ~SendLock(s) /\ ~SendPut(s),
         \A r \in Receivers : ~WaitShrink(r) /\ ~WaitUnlock(r),
         ~BeginReset
  PROVE  NumbersRest
  <1> USE ThreadsAssumption DEF TypeOK, Threads, Go, segment, locals, ghosts, NumbersRest, Numbered, Taken,
          IsRequest
  <1>1. CASE Begin
    BY <1>1 DEF Begin, BeginOpen, BeginLock, BeginFails
  <1>2. ASSUME NEW s \in Senders, Send(s) PROVE NumbersRest
    <2>1. CASE SendCall(s) BY <2>1 DEF SendCall
    <2>2. CASE SendFails(s) BY <2>2 DEF SendFails
    <2>3. CASE SendDrop(s) BY <2>3 DEF SendDrop
    <2>4. CASE SendWait(s) BY <2>4 DEF SendWait
    <2>5. CASE SendWoken(s) BY <2>5 DEF SendWoken
    <2>6. CASE SendNotify(s) BY <2>6 DEF SendNotify, Broadcast
    <2>7. CASE SendUnlock(s) BY <2>7 DEF SendUnlock
    <2>8. QED BY <1>2, <2>1, <2>2, <2>3, <2>4, <2>5, <2>6, <2>7 DEF Send
  <1>3. ASSUME NEW r \in Receivers, Wait(r) PROVE NumbersRest
    <2>1. CASE WaitCall(r) BY <2>1 DEF WaitCall
    <2>2. CASE WaitLock(r) BY <2>2 DEF WaitLock
    <2>3. CASE WaitFails(r) BY <2>3 DEF WaitFails
    <2>4. CASE WaitTake(r) BY <2>4 DEF WaitTake
    <2>5. CASE WaitNotify(r) BY <2>5 DEF WaitNotify, Broadcast
    <2>6. CASE WaitWait(r) BY <2>6 DEF WaitWait
    <2>7. CASE WaitTimeout(r) BY <2>7 DEF WaitTimeout
    <2>8. CASE WaitWoken(r) BY <2>8 DEF WaitWoken
    <2>9. QED BY <1>3, <2>1, <2>2, <2>3, <2>4, <2>5, <2>6, <2>7, <2>8 DEF Wait
  <1>4. ASSUME NEW s \in Senders, SenderCrash(s) PROVE NumbersRest
    BY <1>4 DEF SenderCrash
  <1>5. CASE OwnerCrash
    BY <1>5 DEF OwnerCrash
  <1>6. CASE UNCHANGED vars
    BY <1>6 DEF vars
  <1> QED BY <1>1, <1>2, <1>3, <1>4, <1>5, <1>6 DEF Next

LEMMA NumberingStep == IInv /\ Numbering /\ [Next]_vars => Numbering'
  <1> SUFFICES ASSUME IInv, Numbering, [Next]_vars
               PROVE  Numbering'
    OBVIOUS
  <1>t. /\ TypeOK /\ Removing /\ Layout
        /\ most_recent_msg_nr \in Nat /\ delivered \subseteq Nat
        /\ pc \in [Threads -> SenderPC \cup ReceiverPC \cup OwnerPC]
        /\ m \in [Senders -> Request] /\ copy \in [Receivers -> Message]
    BY DEF IInv, TypeOK
  <1>n. /\ \A d \in data : d.nr \in Nat
        /\ \A s \in Senders : m[s].nr \in Nat
        /\ \A r \in Receivers : copy[r].nr \in Nat
    <2>1. \A d \in Message : d.nr \in Nat
      BY DEF Message
    <2>2. QED BY <1>t, <2>1, FieldTypes
  <1> USE ThreadsAssumption DEF Threads, Numbered, Taken, IsRequest
  <1>1. ASSUME NEW s \in Senders, SendLock(s) PROVE Numbering'
    <2>1. /\ UNCHANGED <<data, delivered, copy>>
          /\ pc' = [pc EXCEPT ![s] = "try"] /\ pc[s] = "lock"
      BY <1>1 DEF SendLock, ghosts, Go
    <2>2. CASE m[s].type = "reply"
      <3>1. UNCHANGED <<most_recent_msg_nr, m>>
        BY <1>1, <2>2 DEF SendLock
      <3>2. \A t \in Senders : Numbered(t)' => Numbered(t)
        BY <1>t, <2>1, <2>2, <3>1
      <3>3. \A r \in Receivers : Taken(r)' => Taken(r)
        BY <1>t, <2>1
      <3>a. NumbersUnique'
        BY <2>1, <3>1, <3>2, <3>3 DEF Numbering, NumbersUnique
      <3>b. DeliveredOnce'
        BY <2>1, <3>1, <3>2, <3>3 DEF Numbering, DeliveredOnce
      <3>c. NumbersBounded'
        BY <2>1, <3>1, <3>2, <3>3, <1>n DEF Numbering, NumbersBounded
      <3>d. TakenApart'
        BY <2>1, <3>1, <3>2, <3>3 DEF Numbering, TakenApart
      <3> QED BY <3>a, <3>b, <3>c, <3>d DEF Numbering
    <2>3. CASE m[s].type # "reply"
      <3>1. /\ most_recent_msg_nr' = most_recent_msg_nr + 1
            /\ m'[s].nr = most_recent_msg_nr + 1
            /\ \A t \in Senders \ {s} : m'[t] = m[t]
        BY <1>1, <1>t, <2>3 DEF SendLock, Request
      <3>2. \A t \in Senders \ {s} : Numbered(t)' => Numbered(t)
        BY <1>t, <2>1, <3>1
      <3>3. \A r \in Receivers : Taken(r)' => Taken(r)
        BY <1>t, <2>1
      <3>a. NumbersUnique'
        BY <1>t, <1>n, <2>1, <3>1, <3>2, <3>3 DEF Numbering, NumbersBounded, NumbersUnique
      <3>b. DeliveredOnce'
        BY <1>t, <1>n, <2>1, <3>1, <3>2, <3>3 DEF Numbering, NumbersBounded, DeliveredOnce
      <3>c. NumbersBounded'
        BY <1>t, <1>n, <2>1, <3>1, <3>2, <3>3 DEF Numbering, NumbersBounded
      <3>d. TakenApart'
        BY <1>t, <1>n, <2>1, <3>1, <3>2, <3>3 DEF Numbering, NumbersBounded, TakenApart
      <3> QED BY <3>a, <3>b, <3>c, <3>d DEF Numbering
    <2> QED BY <2>2, <2>3
  <1>2. ASSUME NEW s \in Senders, SendPut(s) PROVE Numbering'
    <2> DEFINE new == [at |-> filled, size |-> m[s].size, type |-> m[s].type, nr |-> m[s].nr]
    <2>1. /\ UNCHANGED <<delivered, copy, m, most_recent_msg_nr>>
          /\ pc' = [pc EXCEPT ![s] = "notify"] /\ pc[s] = "try"
          /\ data' = data \cup {new} /\ new.nr = m[s].nr /\ new.type = m[s].type
      BY <1>2 DEF SendPut, ghosts, locals, Go
    <2> HIDE DEF new
    <2>2. \A t \in Senders : Numbered(t)' => Numbered(t) /\ t # s
      BY <1>t, <2>1
    <2>3. \A r \in Receivers : Taken(r)' => Taken(r)
      BY <1>t, <2>1
    <2>4. IsRequest(new) => Numbered(s)
      BY <2>1
    <2>a. NumbersUnique'
      BY <2>1, <2>2, <2>3, <2>4 DEF Numbering, NumbersUnique
    <2>b. DeliveredOnce'
      BY <2>1, <2>2, <2>3, <2>4 DEF Numbering, DeliveredOnce
    <2>c. NumbersBounded'
      BY <2>1, <2>2, <2>3, <2>4, <1>n DEF Numbering, NumbersBounded
    <2>d. TakenApart'
      BY <2>1, <2>2, <2>3, <2>4 DEF Numbering, TakenApart
    <2> QED BY <2>a, <2>b, <2>c, <2>d DEF Numbering
  <1>3. ASSUME NEW r \in Receivers, WaitShrink(r) PROVE Numbering'
    <2> DEFINE c == copy[r]
               Down(d) == [d EXCEPT !.at = @ - c.size]
               Low == {d \in data : d.at < c.at}
               High == {d \in data : d.at > c.at}
    <2>1. /\ UNCHANGED <<delivered, copy, m, most_recent_msg_nr>>
          /\ pc' = [pc EXCEPT ![r] = "notify"] /\ pc[r] = "shrink" /\ c \in data
          /\ data' = Low \cup {Down(d) : d \in High}
      BY <1>3, <1>t DEF WaitShrink, ghosts, locals, Go, Removing
    <2>2. \A d \in data : Down(d).nr = d.nr /\ Down(d).type = d.type /\ d.at \in Nat /\ c \notin Low /\ c \notin High
      <3>1. \A d \in Message : /\ [d EXCEPT !.at = @ - c.size].nr = d.nr
                               /\ [d EXCEPT !.at = @ - c.size].type = d.type
        BY DEF Message
      <3>2. QED BY <3>1, <1>t, <2>1, FieldTypes
    <2> HIDE DEF c, Down
    <2>3. \A d \in data' : \E e \in data : /\ e # c /\ d.nr = e.nr /\ d.type = e.type
                                           /\ d = IF e.at < c.at THEN e ELSE Down(e)
      BY <2>1, <2>2
    <2>4. \A t \in Senders : Numbered(t)' => Numbered(t)
      BY <1>t, <2>1
    <2>5. \A q \in Receivers : Taken(q)' => Taken(q) \/ q = r
      BY <1>t, <2>1
    <2>6. c = copy[r]
      BY DEF c
    <2>a. NumbersUnique'
      BY <2>1, <2>3, <2>4, <2>5, <2>6 DEF Numbering, NumbersUnique
    <2>b. DeliveredOnce'
      BY <2>1, <2>3, <2>4, <2>5, <2>6 DEF Numbering, DeliveredOnce
    <2>c. NumbersBounded'
      BY <2>1, <2>3, <2>4, <2>5, <2>6, <1>n DEF Numbering, NumbersBounded
    <2>d. TakenApart'
      BY <2>1, <2>3, <2>4, <2>5, <2>6 DEF Numbering, TakenApart, NumbersUnique
    <2> QED BY <2>a, <2>b, <2>c, <2>d DEF Numbering
  <1>4. ASSUME NEW r \in Receivers, WaitUnlock(r) PROVE Numbering'
    <2>1. /\ UNCHANGED <<data, copy, m, most_recent_msg_nr>>
          /\ pc' = [pc EXCEPT ![r] = "idle"] /\ pc[r] = "unlock"
          /\ delivered' = IF copy[r].type = "reply" THEN delivered ELSE delivered \cup {copy[r].nr}
      BY <1>4 DEF WaitUnlock, segment, locals, Go
    <2>2. \A t \in Senders : Numbered(t)' => Numbered(t)
      BY <1>t, <2>1
    <2>3. \A q \in Receivers : Taken(q)' => Taken(q) /\ q # r
      BY <1>t, <2>1
    <2>4. \A q \in Receivers : Taken(q) => q = r
      BY <2>1 DEF IInv, HolderInside, InCriticalSection, InWait
    <2>a. NumbersUnique'
      BY <2>1, <2>2, <2>3, <2>4 DEF Numbering, NumbersUnique
    <2>b. DeliveredOnce'
      BY <2>1, <2>2, <2>3, <2>4 DEF Numbering, DeliveredOnce, TakenApart, NumbersUnique
    <2>c. NumbersBounded'
      BY <2>1, <2>2, <2>3, <2>4, <1>n DEF Numbering, NumbersBounded
    <2>d. TakenApart'
      BY <2>1, <2>2, <2>3, <2>4 DEF Numbering, TakenApart
    <2> QED BY <2>a, <2>b, <2>c, <2>d DEF Numbering
  <1>5. CASE BeginReset
    <2>1. /\ UNCHANGED <<delivered, copy, m, most_recent_msg_nr>>
          /\ data' = {} /\ pc' = [pc EXCEPT ![Owner] = "up"]
      BY <1>5 DEF BeginReset, locals, Go
    <2>a. NumbersUnique'
      BY <1>t, <2>1 DEF Numbering, NumbersUnique
    <2>b. DeliveredOnce'
      BY <1>t, <2>1 DEF Numbering, DeliveredOnce
    <2>c. NumbersBounded'
      BY <1>t, <2>1, <1>n DEF Numbering, NumbersBounded
    <2>d. TakenApart'
      BY <1>t, <2>1 DEF Numbering, TakenApart
    <2> QED BY <2>a, <2>b, <2>c, <2>d DEF Numbering
  <1>6. CASE NumbersRest
    <2> USE DEF NumbersRest
    <2>a. NumbersUnique'
      BY <1>6 DEF Numbering, NumbersUnique
    <2>b. DeliveredOnce'
      BY <1>6 DEF Numbering, DeliveredOnce
    <2>c. NumbersBounded'
      BY <1>6, <1>n DEF Numbering, NumbersBounded
    <2>d. TakenApart'
      BY <1>6 DEF Numbering, TakenApart
    <2> QED BY <2>a, <2>b, <2>c, <2>d DEF Numbering
  <1> QED BY <1>1, <1>2, <1>3, <1>4, <1>5, <1>6, <1>t, QuietSteps

LEMMA NumberingInvariance == Spec => [](IInv /\ Numbering)
  <1>1. Init => Numbering
    BY ThreadsAssumption
    DEF Init, Numbering, NumbersUnique, DeliveredOnce, NumbersBounded, TakenApart, Numbered, Taken, Threads
  <1> QED
    BY <1>1, Invariance, NumberingStep, PTL DEF Spec

(* No two requests of a queue ever carry the same number, over any number   *)
(* of restarts.                                                             *)
THEOREM NumbersAreUnique == Spec => []NumbersUnique
  BY NumberingInvariance, PTL DEF Numbering

(* A request is returned by wait_for_message at most once.                  *)
THEOREM AtMostOnce == Spec => []DeliveredOnce
  BY NumberingInvariance, PTL DEF Numbering

=============================================================================
