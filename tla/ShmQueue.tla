------------------------------ MODULE ShmQueue ------------------------------
(***************************************************************************)
(* One shared-memory message queue (src/utils/shm.cpp): the segment of one *)
(* server process, the processes that send to it, the threads of the owner *)
(* that wait for messages, and crashes and restarts of all of them.        *)
(*                                                                         *)
(* The mutex in the segment is a robust, process-shared pthread mutex.     *)
(* When its holder dies the next pthread_mutex_lock returns EOWNERDEAD and *)
(* the code calls pthread_mutex_consistent; but pthread_cond_(timed)wait   *)
(* re-locks too, and there EOWNERDEAD is an error like any other.  A mutex *)
(* unlocked while inconsistent is lost: every later lock fails with        *)
(* ENOTRECOVERABLE.                                                        *)
(*                                                                         *)
(* data[] is the set of the messages below "filled", each with the offset  *)
(* "at" of its header.  Sizes are those of whole messages, in units of the *)
(* padding.  Nothing is visible to another thread before the unlock,       *)
(* except by a crash, so a critical section is split only where a crash    *)
(* leaves a different segment behind.                                      *)
(***************************************************************************)
EXTENDS Integers, FiniteSets

CONSTANTS
    Senders,     \* processes that call send_message on this queue
    Receivers,   \* threads of the owner that call wait_for_message
    Owner,       \* the owner's main thread, which calls begin
    NoThread,    \* holder of a free mutex
    Capacity,    \* total_size
    Sizes,       \* padded sizes of the messages that are sent
    Requests,    \* arguments of the calls of send_message
    Searches,    \* arguments of the calls of wait_for_message
    MaxNr,       \* bound on most_recent_msg_nr
    MaxCrashes   \* bound on the number of crashes

Threads == Senders \cup Receivers \cup {Owner}

ASSUME ThreadsAssumption ==
    /\ Senders \cap Receivers = {}
    /\ Owner \notin Senders \cup Receivers
    /\ NoThread \notin Threads

ASSUME SizesAssumption ==
    /\ Capacity \in Nat
    /\ Sizes \subseteq Nat \ {0} /\ Sizes # {}
    /\ MaxNr \in Nat
    /\ MaxCrashes \in Nat

Types    == {"new", "reply", "any"}
AnyNr    == -1                              \* no msg_nr given to the search
Message  == [at : Nat, size : Sizes, type : Types, nr : Nat]
Request  == [size : Sizes, type : Types, nr : Nat, blocking : BOOLEAN]
Search   == [type : Types, nr : Nat \cup {AnyNr}, timed : BOOLEAN]

ASSUME CallsAssumption ==
    /\ Requests \subseteq Request /\ Requests # {}
    /\ Searches \subseteq Search /\ Searches # {}

VARIABLES
    exists,             \* the segment has been created
    holder,             \* the thread that holds the mutex, or NoThread
    robust,             \* "ok", "dead" (holder died), "inconsistent" or "lost"
    data,               \* the messages between data[0] and data[filled]
    total_size,         \* zero in a segment that begin() has yet to set up
    filled,             \* bytes of data[] in use
    torn,               \* a memmove has not been followed by filled -= length
    most_recent_msg_nr,
    pc,                 \* where each thread is
    m,                  \* send_message's message, per sender
    search,             \* wait_for_message's arguments, per receiver
    copy,               \* the message wait_for_message is removing
    delivered,          \* numbers of the requests returned by wait_for_message
    forgotten,          \* senders that were waiting when begin() emptied the queue
    senderCrashes, ownerCrashes

segment == <<exists, total_size, data, filled, torn, most_recent_msg_nr>>
mutex   == <<holder, robust>>
locals  == <<m, search, copy>>
ghosts  == <<delivered, forgotten, senderCrashes, ownerCrashes>>
vars    == <<exists, holder, robust, total_size, data, filled, torn, most_recent_msg_nr,
             pc, m, search, copy, delivered, forgotten, senderCrashes, ownerCrashes>>

InSend == {"try", "notify", "unlock"}       \* the sender holds the mutex
InWait == {"scan", "shrink", "notify", "unlock"}
SenderPC   == InSend \cup {"idle", "lock", "wait", "woken"}
ReceiverPC == InWait \cup {"idle", "lock", "wait", "woken", "expired"}
OwnerPC    == {"down", "lock", "reset", "up"}

Init ==
    /\ exists = FALSE
    /\ holder = NoThread /\ robust = "ok"
    /\ total_size = 0 /\ data = {} /\ filled = 0 /\ torn = FALSE
    /\ most_recent_msg_nr = 0
    /\ pc = [t \in Threads |-> IF t = Owner THEN "down" ELSE "idle"]
    /\ m = [s \in Senders |-> CHOOSE q \in Requests : TRUE]
    /\ search = [r \in Receivers |-> CHOOSE q \in Searches : TRUE]
    /\ copy = [r \in Receivers |-> [at |-> 0, size |-> CHOOSE z \in Sizes : TRUE, type |-> "any", nr |-> 0]]
    /\ delivered = {} /\ forgotten = {}
    /\ senderCrashes = 0 /\ ownerCrashes = 0

Go(t, label) == pc' = [pc EXCEPT ![t] = label]

-----------------------------------------------------------------------------
(* The robust mutex and the condition variables.                           *)

Lockable == holder = NoThread /\ robust \in {"ok", "dead"}

(* pthread_mutex_lock, with pthread_mutex_consistent after EOWNERDEAD *)
Lock(t) ==
    /\ Lockable
    /\ holder' = t
    /\ robust' = "ok"

Unlock ==
    /\ holder' = NoThread
    /\ robust' = IF robust = "inconsistent" THEN "lost" ELSE robust

(* pthread_cond_broadcast: the waiters in W are about to re-lock *)
Broadcast(W, t, label) ==
    pc' = [u \in Threads |-> CASE u = t -> label
                               [] u \in W /\ pc[u] = "wait" -> "woken"
                               [] OTHER -> pc[u]]

-----------------------------------------------------------------------------
(* begin(): the segment outlives its owner, and so does its content.       *)

BeginOpen ==
    /\ pc[Owner] = "down"
    /\ exists' = TRUE
    /\ Go(Owner, "lock")
    /\ UNCHANGED <<mutex, total_size, data, filled, torn, most_recent_msg_nr, locals, ghosts>>

BeginLock ==
    /\ pc[Owner] = "lock"
    /\ Lock(Owner)
    /\ Go(Owner, "reset")
    /\ UNCHANGED <<segment, locals, ghosts>>

(* begin() returns false and the process ends *)
BeginFails ==
    /\ pc[Owner] = "lock"
    /\ robust = "lost"
    /\ Go(Owner, "down")
    /\ UNCHANGED <<segment, mutex, locals, ghosts>>

BeginResetKeepsData ==
    /\ pc[Owner] = "reset"
    /\ total_size' = Capacity
    /\ Unlock
    /\ Go(Owner, "up")
    /\ forgotten' = {s \in Senders : pc[s] = "wait"}
    /\ UNCHANGED <<exists, filled, data, torn, most_recent_msg_nr, locals, delivered,
                   senderCrashes, ownerCrashes>>

BeginResetsNumbers ==
    /\ pc[Owner] = "reset"
    /\ total_size' = Capacity /\ filled' = 0
    /\ data' = {} /\ torn' = FALSE
    /\ most_recent_msg_nr' = 0
    /\ Unlock
    /\ Go(Owner, "up")
    /\ forgotten' = {s \in Senders : pc[s] = "wait"}
    /\ UNCHANGED <<exists, locals, delivered, senderCrashes, ownerCrashes>>

(* most_recent_msg_nr is kept, and nobody is woken *)
BeginReset ==
    /\ pc[Owner] = "reset"
    /\ total_size' = Capacity /\ filled' = 0
    /\ data' = {} /\ torn' = FALSE
    /\ Unlock
    /\ Go(Owner, "up")
    /\ forgotten' = {s \in Senders : pc[s] = "wait"}
    /\ UNCHANGED <<exists, most_recent_msg_nr, locals, delivered, senderCrashes, ownerCrashes>>

-----------------------------------------------------------------------------
(* send_message                                                            *)

(* without a segment the call returns false at once *)
SendCall(s) ==
    /\ pc[s] = "idle" /\ exists
    /\ most_recent_msg_nr + Cardinality({t \in Senders : pc[t] = "lock"}) < MaxNr   \* bound
    /\ \E q \in Requests : m' = [m EXCEPT ![s] = q]
    /\ Go(s, "lock")
    /\ UNCHANGED <<segment, mutex, search, copy, ghosts>>

SendLock(s) ==
    /\ pc[s] = "lock"
    /\ Lock(s)
    /\ IF m[s].type = "reply"
          THEN UNCHANGED <<most_recent_msg_nr, m>>
          ELSE /\ most_recent_msg_nr' = most_recent_msg_nr + 1
               /\ m' = [m EXCEPT ![s].nr = most_recent_msg_nr + 1]
    /\ Go(s, "try")
    /\ UNCHANGED <<exists, total_size, data, filled, torn, search, copy, ghosts>>

SendIgnoresError(s) ==
    /\ pc[s] \in {"lock", "woken"}
    /\ robust = "lost"
    /\ Go(s, "try")
    /\ UNCHANGED <<segment, mutex, locals, ghosts>>

(* the lock, or the re-lock of a wait, fails with ENOTRECOVERABLE *)
SendFails(s) ==
    /\ pc[s] \in {"lock", "woken"}
    /\ robust = "lost"
    /\ Go(s, "idle")
    /\ UNCHANGED <<segment, mutex, locals, ghosts>>

HasRoomOffByOne(size) == total_size + 1 >= filled + size

HasRoom(size) == total_size >= filled + size

SendPutUnpadded(s) ==
    /\ pc[s] = "try"
    /\ HasRoom(m[s].size)
    /\ data' = data \cup {[at |-> filled, size |-> m[s].size, type |-> m[s].type, nr |-> m[s].nr]}
    /\ filled' = filled + m[s].size - 1
    /\ Go(s, "notify")
    /\ UNCHANGED <<exists, total_size, torn, most_recent_msg_nr, mutex, locals, ghosts>>

SendPut(s) ==
    /\ pc[s] = "try"
    /\ HasRoom(m[s].size)
    /\ data' = data \cup {[at |-> filled, size |-> m[s].size, type |-> m[s].type, nr |-> m[s].nr]}
    /\ filled' = filled + m[s].size
    /\ Go(s, "notify")
    /\ UNCHANGED <<exists, total_size, torn, most_recent_msg_nr, mutex, locals, ghosts>>

SendDrop(s) ==
    /\ pc[s] = "try"
    /\ ~HasRoom(m[s].size) /\ ~m[s].blocking
    /\ Go(s, "unlock")
    /\ UNCHANGED <<segment, mutex, locals, ghosts>>

(* pthread_cond_wait on condition_get *)
SendWait(s) ==
    /\ pc[s] = "try"
    /\ ~HasRoom(m[s].size) /\ m[s].blocking
    /\ Unlock
    /\ Go(s, "wait")
    /\ UNCHANGED <<segment, locals, ghosts>>

SendWoken(s) ==
    /\ pc[s] = "woken"
    /\ Lockable
    /\ holder' = s
    /\ IF robust = "dead"
          THEN robust' = "inconsistent" /\ Go(s, "unlock")     \* EOWNERDEAD: break
          ELSE UNCHANGED robust /\ Go(s, "try")
    /\ UNCHANGED <<segment, locals, ghosts>>

SendNotifyFirstOnly(s) ==
    /\ pc[s] = "notify"
    /\ IF Cardinality(data) = 1 THEN Broadcast(Receivers, s, "unlock") ELSE Go(s, "unlock")
    /\ UNCHANGED <<segment, mutex, locals, ghosts>>

SendNotify(s) ==
    /\ pc[s] = "notify"
    /\ Broadcast(Receivers, s, "unlock")
    /\ UNCHANGED <<segment, mutex, locals, ghosts>>

SendUnlock(s) ==
    /\ pc[s] = "unlock"
    /\ Unlock
    /\ Go(s, "idle")
    /\ UNCHANGED <<segment, locals, ghosts>>

-----------------------------------------------------------------------------
(* wait_for_message                                                        *)

WaitCall(r) ==
    /\ pc[Owner] = "up"
    /\ pc[r] = "idle"
    /\ \E q \in Searches : search' = [search EXCEPT ![r] = q]
    /\ Go(r, "lock")
    /\ UNCHANGED <<segment, mutex, m, copy, ghosts>>

WaitLock(r) ==
    /\ pc[r] = "lock"
    /\ Lock(r)
    /\ Go(r, "scan")
    /\ UNCHANGED <<segment, locals, ghosts>>

WaitFails(r) ==
    /\ pc[r] \in {"lock", "woken", "expired"}
    /\ robust = "lost"
    /\ Go(r, "idle")
    /\ UNCHANGED <<segment, mutex, locals, ghosts>>

Matches(q, d) == (q.type = d.type \/ q.type = "any") /\ (q.nr = AnyNr \/ q.nr = d.nr)

WaitTakeAnyMatch(r) ==
    /\ pc[r] = "scan"
    /\ \E d \in data :
          /\ Matches(search[r], d)
          /\ copy' = [copy EXCEPT ![r] = d]
          /\ torn' = (d.at + d.size < filled)
    /\ Go(r, "shrink")
    /\ UNCHANGED <<exists, total_size, data, filled, most_recent_msg_nr, mutex, m, search, ghosts>>

(* the first match is copied and what follows it moved down *)
WaitTake(r) ==
    /\ pc[r] = "scan"
    /\ \E d \in data :
          /\ Matches(search[r], d)
          /\ \A e \in data : Matches(search[r], e) => d.at <= e.at
          /\ copy' = [copy EXCEPT ![r] = d]
          /\ torn' = (d.at + d.size < filled)
    /\ Go(r, "shrink")
    /\ UNCHANGED <<exists, total_size, data, filled, most_recent_msg_nr, mutex, m, search, ghosts>>

WaitShrinkKeepsLast(r) ==
    /\ pc[r] = "shrink"
    /\ IF torn
          THEN /\ filled' = filled - copy[r].size
               /\ data' = {d \in data : d.at < copy[r].at}
                    \cup {[d EXCEPT !.at = @ - copy[r].size] : d \in {e \in data : e.at > copy[r].at}}
          ELSE UNCHANGED <<filled, data>>
    /\ torn' = FALSE
    /\ Go(r, "notify")
    /\ UNCHANGED <<exists, total_size, most_recent_msg_nr, mutex, locals, ghosts>>

(* filled -= total_length: the removal takes effect *)
WaitShrink(r) ==
    /\ pc[r] = "shrink"
    /\ filled' = filled - copy[r].size
    /\ data' = {d \in data : d.at < copy[r].at}
                 \cup {[d EXCEPT !.at = @ - copy[r].size] : d \in {e \in data : e.at > copy[r].at}}
    /\ torn' = FALSE
    /\ Go(r, "notify")
    /\ UNCHANGED <<exists, total_size, most_recent_msg_nr, mutex, locals, ghosts>>

WaitNotifyNobody(r) ==
    /\ pc[r] = "notify"
    /\ Go(r, "unlock")
    /\ UNCHANGED <<segment, mutex, locals, ghosts>>

WaitNotify(r) ==
    /\ pc[r] = "notify"
    /\ Broadcast(Senders, r, "unlock")
    /\ forgotten' = {}
    /\ UNCHANGED <<segment, mutex, locals, delivered, senderCrashes, ownerCrashes>>

WaitUnlock(r) ==
    /\ pc[r] = "unlock"
    /\ Unlock
    /\ delivered' = IF copy[r].type = "reply" THEN delivered ELSE delivered \cup {copy[r].nr}
    /\ Go(r, "idle")
    /\ UNCHANGED <<segment, locals, forgotten, senderCrashes, ownerCrashes>>

(* pthread_cond_(timed)wait on condition_put *)
WaitWait(r) ==
    /\ pc[r] = "scan"
    /\ \A d \in data : ~Matches(search[r], d)
    /\ Unlock
    /\ Go(r, "wait")
    /\ UNCHANGED <<segment, locals, ghosts>>

WaitTimeout(r) ==
    /\ pc[r] = "wait" /\ search[r].timed
    /\ Go(r, "expired")
    /\ UNCHANGED <<segment, mutex, locals, ghosts>>

(* The re-lock at the end of the wait.  EOWNERDEAD hides ETIMEDOUT, and the *)
(* call then returns nullptr with the mutex still locked.                   *)
WaitWoken(r) ==
    /\ pc[r] \in {"woken", "expired"}
    /\ Lockable
    /\ \/ /\ robust = "dead"
          /\ holder' = r /\ robust' = "inconsistent"
          /\ Go(r, "idle")
       \/ /\ robust = "ok" /\ pc[r] = "woken"
          /\ holder' = r /\ UNCHANGED robust
          /\ Go(r, "scan")
       \/ /\ robust = "ok" /\ pc[r] = "expired"
          /\ UNCHANGED mutex
          /\ Go(r, "idle")
    /\ UNCHANGED <<segment, locals, ghosts>>

-----------------------------------------------------------------------------
(* A thread that dies with the mutex leaves it to the next one as "dead".  *)
Abandon(dying) ==
    IF holder \in dying THEN holder' = NoThread /\ robust' = "dead" ELSE UNCHANGED mutex

(* a sending process dies, and is started again *)
SenderCrash(s) ==
    /\ pc[s] # "idle"
    /\ senderCrashes + ownerCrashes < MaxCrashes
    /\ senderCrashes' = senderCrashes + 1
    /\ Abandon({s})
    /\ Go(s, "idle")
    /\ forgotten' = forgotten \ {s}
    /\ UNCHANGED <<segment, locals, delivered, ownerCrashes>>

(* the owner dies with all its threads *)
OwnerCrash ==
    /\ pc[Owner] # "down"
    /\ senderCrashes + ownerCrashes < MaxCrashes
    /\ ownerCrashes' = ownerCrashes + 1
    /\ Abandon(Receivers \cup {Owner})
    /\ pc' = [t \in Threads |-> IF t = Owner THEN "down"
                                ELSE IF t \in Receivers THEN "idle" ELSE pc[t]]
    /\ UNCHANGED <<segment, locals, delivered, forgotten, senderCrashes>>

Begin == BeginOpen \/ BeginLock \/ BeginFails \/ BeginReset

Send(s) ==
    \/ SendCall(s) \/ SendLock(s) \/ SendFails(s) \/ SendPut(s) \/ SendDrop(s)
    \/ SendWait(s) \/ SendWoken(s) \/ SendNotify(s) \/ SendUnlock(s)

Wait(r) ==
    \/ WaitCall(r) \/ WaitLock(r) \/ WaitFails(r) \/ WaitTake(r) \/ WaitShrink(r)
    \/ WaitNotify(r) \/ WaitUnlock(r) \/ WaitWait(r) \/ WaitTimeout(r) \/ WaitWoken(r)

Next ==
    \/ Begin
    \/ \E s \in Senders : Send(s) \/ SenderCrash(s)
    \/ \E r \in Receivers : Wait(r)
    \/ OwnerCrash

Spec == Init /\ [][Next]_vars

(* Every thread that can go on does, a waiting wait_for_message times out,  *)
(* and no thread is passed over for ever when the mutex is free.            *)
Fairness ==
    /\ WF_vars(Begin)
    /\ \A s \in Senders :
          /\ WF_vars(SendPut(s) \/ SendDrop(s) \/ SendWait(s) \/ SendNotify(s) \/ SendUnlock(s))
          /\ SF_vars(SendLock(s) \/ SendWoken(s) \/ SendFails(s))
    /\ \A r \in Receivers :
          /\ WF_vars(WaitCall(r) \/ WaitTake(r) \/ WaitShrink(r) \/ WaitNotify(r) \/ WaitUnlock(r)
                     \/ WaitWait(r) \/ WaitTimeout(r))
          /\ SF_vars(WaitLock(r) \/ WaitWoken(r) \/ WaitFails(r))

FairSpec == Spec /\ Fairness

-----------------------------------------------------------------------------
(* Properties.                                                             *)

TypeOK ==
    /\ exists \in BOOLEAN
    /\ holder \in Threads \cup {NoThread}
    /\ robust \in {"ok", "dead", "inconsistent", "lost"}
    /\ data \subseteq Message
    /\ total_size \in {0, Capacity}
    /\ filled \in 0 .. total_size
    /\ torn \in BOOLEAN
    /\ most_recent_msg_nr \in Nat
    /\ pc \in [Threads -> SenderPC \cup ReceiverPC \cup OwnerPC]
    /\ \A s \in Senders : pc[s] \in SenderPC
    /\ \A r \in Receivers : pc[r] \in ReceiverPC
    /\ pc[Owner] \in OwnerPC
    /\ m \in [Senders -> Request]
    /\ search \in [Receivers -> Search]
    /\ copy \in [Receivers -> Message]
    /\ delivered \subseteq Nat
    /\ forgotten \subseteq Senders
    /\ senderCrashes \in Nat /\ ownerCrashes \in Nat

InCriticalSection(t) ==
    \/ t \in Senders /\ pc[t] \in InSend
    \/ t \in Receivers /\ pc[t] \in InWait
    \/ t = Owner /\ pc[t] = "reset"

(* The segment is read and written by one thread at a time, through every   *)
(* crash, repair and failed re-lock: shm.cpp takes the mutex in begin,      *)
(* wait_for_message and send_message and lets go of it in both waits.       *)
MutualExclusion ==
    \A t, u \in Threads : InCriticalSection(t) /\ InCriticalSection(u) => t = u

(* The messages lie back to back from data[0] to data[filled], none across  *)
(* another and none above total_size: what lets the scan of                 *)
(* wait_for_message walk from header to header, and its assertions on       *)
(* "filled" and "end - cur" hold.                                           *)
Layout ==
    /\ \A d \in data : d.at + d.size <= filled
    /\ \A d, e \in data : d = e \/ d.at + d.size <= e.at \/ e.at + e.size <= d.at
    /\ \A d \in data : d.at = 0 \/ \E e \in data : e.at + e.size = d.at
    /\ filled = 0 \/ \E e \in data : e.at + e.size = filled

(* A scan never walks over bytes that a dying receiver was moving: only the *)
(* owner's threads scan, and begin() empties the queue before they do.      *)
NeverScanTorn ==
    \A r \in Receivers : pc[r] = "scan" => ~torn

IsRequest(d) == d.type # "reply"
Numbered(s) == pc[s] \in {"try", "wait", "woken"} /\ IsRequest(m[s])
Taken(r) == pc[r] \in {"notify", "unlock"} /\ IsRequest(copy[r])

(* send_message never gives two requests of a queue the same number, be it  *)
(* across restarts of the owner (begin() keeps most_recent_msg_nr) or while *)
(* a numbered message waits for room outside the mutex: a reply's number    *)
(* tells the request it answers.                                            *)
NumbersUnique ==
    /\ \A d, e \in data : IsRequest(d) /\ IsRequest(e) /\ d.nr = e.nr => d = e
    /\ \A s \in Senders, d \in data : Numbered(s) /\ IsRequest(d) => m[s].nr # d.nr
    /\ \A s, t \in Senders : Numbered(s) /\ Numbered(t) /\ m[s].nr = m[t].nr => s = t

(* wait_for_message returns a request at most once: what was returned is    *)
(* not in the queue, not on its way into it, and not being taken again,     *)
(* whatever crashed between the copy and the unlock.                        *)
DeliveredOnce ==
    /\ \A d \in data : IsRequest(d) => d.nr \notin delivered
    /\ \A s \in Senders : Numbered(s) => m[s].nr \notin delivered
    /\ \A r \in Receivers : Taken(r) => copy[r].nr \notin delivered

(* No receiver sleeps on condition_put while a message it asked for is in   *)
(* the queue, unless the sender is about to wake it (or a sender died).     *)
ReceiverWakeup ==
    senderCrashes = 0 =>
        \A r \in Receivers :
            pc[r] = "wait" /\ (\E d \in data : Matches(search[r], d))
                => \E s \in Senders : pc[s] = "notify"

(* No sender sleeps on condition_get while its message would fit, unless a  *)
(* receiver is about to wake it; except across begin(), which empties the   *)
(* queue and wakes nobody.                                                  *)
SenderWakeup ==
    pc[Owner] = "up" =>
        \A s \in Senders :
            pc[s] = "wait" /\ HasRoom(m[s].size)
                => s \in forgotten \/ \E r \in Receivers : pc[r] = "notify"

(* A blocking send of a message that fits in the queue returns, as long as  *)
(* nothing crashes and the owner keeps taking messages; a sender that was   *)
(* already waiting when begin() set up the queue is not helped.             *)
SendReturns ==
    \A s \in Senders :
        pc[s] = "lock" /\ m[s].size <= Capacity ~> pc[s] = "idle" \/ s \in forgotten

(* tests/shm_test.cpp:23 asserts that begin() succeeds.                     *)
BeginSucceeds == pc[Owner] = "lock" => robust # "lost"
=============================================================================
