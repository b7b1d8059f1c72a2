----------------------------- MODULE MetaConfig -----------------------------
(***************************************************************************)
(* How servers learn their addresses: the ARP server asks the link layer   *)
(* server for its MAC address and the IP4 server for its address, the TCP  *)
(* server asks the IP4 server (cfg_runtime), over the "meta" queues.       *)
(* Requests time out and are sent again under a new number, so answers may *)
(* come late; the servers that answer (run_meta) stop and start.           *)
(*                                                                         *)
(* A number comes from a counter in the queue of the server that is asked: *)
(* numbers of requests to two servers may be the same.                     *)
(***************************************************************************)
EXTENDS Integers, Sequences, SequencesExt, FiniteSets

CONSTANTS
    Peers,         \* the servers that are asked
    Askers,        \* the servers that ask
    Wants,         \* asker -> the sequence of peers it asks
    Blocking,      \* askers whose send_meta_request blocks: the ARP server
    Capacity,      \* messages in a meta queue
    MaxTimeouts,   \* bound on the time-outs
    MaxStarts,     \* bound on how often a peer starts
    MaxNr          \* bound on the numbers used up by requests that are refused

ASSUME MetaAssumption ==
    /\ Peers \cap Askers = {} /\ Blocking \subseteq Askers
    /\ \A a \in Askers : Wants[a] \in Seq(Peers) /\ Wants[a] # <<>>
    /\ Capacity \in Nat \ {0} /\ MaxTimeouts \in Nat /\ MaxStarts \in Nat \ {0} /\ MaxNr \in Nat

VARIABLES
    q,         \* server -> messages in its meta queue
    nr,        \* peer -> most_recent_msg_nr of its queue
    start,     \* peer -> how often it has started; its address may differ each time
    running,   \* peer -> whether it runs
    pc,        \* asker -> "ask", "blocked", "woken", "wait", "sleep" or "done"
    at,        \* asker -> place in Wants
    waits,     \* asker -> number of its last request
    got,       \* asker -> peer -> the answer, or None
    asked,     \* asker -> peer -> start of the peer when it was last asked
    timeouts

vars == <<q, nr, start, running, pc, at, waits, got, asked, timeouts>>

None == [of |-> "none"]

Init ==
    /\ q = [s \in Peers \cup Askers |-> <<>>]
    /\ nr = [p \in Peers |-> 0] /\ start = [p \in Peers |-> 0] /\ running = [p \in Peers |-> FALSE]
    /\ pc = [a \in Askers |-> "ask"] /\ at = [a \in Askers |-> 1] /\ waits = [a \in Askers |-> 0]
    /\ got = [a \in Askers |-> [p \in Peers |-> None]] /\ asked = [a \in Askers |-> [p \in Peers |-> 0]]
    /\ timeouts = 0

-----------------------------------------------------------------------------
Peer(a) == Wants[a][at[a]]

Fits(s) == Len(q[s]) < Capacity

Request(a, n) == [type |-> "new", from |-> a, nr |-> n]

(* on to the next address, or to sleep after the last one *)
Onward(a) ==
    IF at[a] < Len(Wants[a])
       THEN pc' = [pc EXCEPT ![a] = "ask"] /\ at' = [at EXCEPT ![a] = @ + 1]
       ELSE pc' = [pc EXCEPT ![a] = "sleep"] /\ UNCHANGED at

(* send_meta_request, when there is a segment to send to *)
SendMetaRequest(a) ==
    LET p == Peer(a) n == nr[p] + 1 IN
    /\ start[p] > 0
    /\ nr' = [nr EXCEPT ![p] = n]
    /\ \/ /\ Fits(p) \/ a \in Blocking
          /\ q' = IF Fits(p) THEN [q EXCEPT ![p] = Append(@, Request(a, n))] ELSE q
          /\ pc' = [pc EXCEPT ![a] = IF Fits(p) THEN "wait" ELSE "blocked"]
          /\ waits' = [waits EXCEPT ![a] = n] /\ asked' = [asked EXCEPT ![a][p] = start[p]]
       \/ /\ ~Fits(p) /\ a \notin Blocking /\ n <= MaxNr
          /\ UNCHANGED <<q, pc, waits, asked>>
    /\ UNCHANGED at

(* cfg_runtime up to where it waits *)
Ask(a) ==
    /\ pc[a] = "ask"
    /\ \/ /\ got[a][Peer(a)] # None \/ start[Peer(a)] = 0
          /\ Onward(a)
          /\ UNCHANGED <<q, nr, waits, asked>>
       \/ got[a][Peer(a)] = None /\ SendMetaRequest(a)
    /\ UNCHANGED <<start, running, got, timeouts>>

(* A blocked send_message looks again after a broadcast. *)
Retry(a) ==
    /\ pc[a] = "woken"
    /\ IF Fits(Peer(a))
          THEN q' = [q EXCEPT ![Peer(a)] = Append(@, Request(a, waits[a]))] /\ pc' = [pc EXCEPT ![a] = "wait"]
          ELSE pc' = [pc EXCEPT ![a] = "blocked"] /\ UNCHANGED q
    /\ UNCHANGED <<nr, start, running, at, waits, got, asked, timeouts>>

Answers(a) == {i \in DOMAIN q[a] : q[a][i].nr = waits[a]}

(* "mac=" or "ip4=" *)
Use(a, m) == m.of = Peer(a)

(* the reply is looked at and stays in the queue *)
WaitKeeps(a) ==
    /\ pc[a] = "wait" /\ Answers(a) # {}
    /\ LET i == CHOOSE j \in Answers(a) : \A k \in Answers(a) : j <= k IN
       got' = IF Use(a, q[a][i]) THEN [got EXCEPT ![a][Peer(a)] = q[a][i]] ELSE got
    /\ Onward(a)
    /\ UNCHANGED <<q, nr, start, running, waits, asked, timeouts>>

(* wait_for_message for the reply with the number of the request *)
Wait(a) ==
    /\ pc[a] = "wait" /\ Answers(a) # {}
    /\ LET i == CHOOSE j \in Answers(a) : \A k \in Answers(a) : j <= k IN
       /\ q' = [q EXCEPT ![a] = RemoveAt(@, i)]
       /\ got' = IF Use(a, q[a][i]) THEN [got EXCEPT ![a][Peer(a)] = q[a][i]] ELSE got
    /\ Onward(a)
    /\ UNCHANGED <<nr, start, running, waits, asked, timeouts>>

TimeOut(a) ==
    /\ pc[a] = "wait" /\ Answers(a) = {} /\ timeouts < MaxTimeouts
    /\ timeouts' = timeouts + 1
    /\ Onward(a)
    /\ UNCHANGED <<q, nr, start, running, waits, got, asked>>

(* Done, or once more from the first on.  The TCP server sends no new request *)
(* before two seconds are over, and waits for the last one again.             *)
Sleep(a) ==
    /\ pc[a] = "sleep"
    /\ \/ /\ \A i \in DOMAIN Wants[a] : got[a][Wants[a][i]] # None
          /\ pc' = [pc EXCEPT ![a] = "done"] /\ UNCHANGED at
       \/ /\ \E i \in DOMAIN Wants[a] : got[a][Wants[a][i]] = None
          /\ pc' = [pc EXCEPT ![a] = "ask"] /\ at' = [at EXCEPT ![a] = 1]
       \/ /\ a \notin Blocking /\ got[a][Peer(a)] = None /\ waits[a] > 0
          /\ pc' = [pc EXCEPT ![a] = "wait"] /\ UNCHANGED at
    /\ UNCHANGED <<q, nr, start, running, waits, got, asked, timeouts>>

-----------------------------------------------------------------------------
ReplyUnnumbered(p, m) == [type |-> "reply", from |-> p, nr |-> 0, of |-> p, start |-> start[p]]

(* push_meta_reply *)
Reply(p, m) == [type |-> "reply", from |-> p, nr |-> m.nr, of |-> p, start |-> start[p]]

(* A message taken from a queue wakes who is blocked in send_message to it. *)
RunMeta(p) ==
    /\ running[p] /\ q[p] # <<>>
    /\ LET m == Head(q[p]) IN
       q' = [q EXCEPT ![p] = Tail(@), ![m.from] = IF Fits(m.from) THEN Append(@, Reply(p, m)) ELSE @]
    /\ pc' = [a \in Askers |-> IF pc[a] = "blocked" /\ Peer(a) = p THEN "woken" ELSE pc[a]]
    /\ UNCHANGED <<nr, start, running, at, waits, got, asked, timeouts>>

BeginFromZero(p) ==
    /\ ~running[p] /\ start[p] < MaxStarts
    /\ running' = [running EXCEPT ![p] = TRUE] /\ start' = [start EXCEPT ![p] = @ + 1]
    /\ q' = [q EXCEPT ![p] = <<>>] /\ nr' = [nr EXCEPT ![p] = 0]
    /\ UNCHANGED <<pc, at, waits, got, asked, timeouts>>

(* begin: the queue is emptied, the counter goes on *)
Begin(p) ==
    /\ ~running[p] /\ start[p] < MaxStarts
    /\ running' = [running EXCEPT ![p] = TRUE] /\ start' = [start EXCEPT ![p] = @ + 1]
    /\ q' = [q EXCEPT ![p] = <<>>]
    /\ UNCHANGED <<nr, pc, at, waits, got, asked, timeouts>>

Stop(p) ==
    /\ running[p] /\ start[p] < MaxStarts
    /\ running' = [running EXCEPT ![p] = FALSE]
    /\ UNCHANGED <<q, nr, start, pc, at, waits, got, asked, timeouts>>

Next ==
    \/ \E a \in Askers : Ask(a) \/ Retry(a) \/ Wait(a) \/ TimeOut(a) \/ Sleep(a)
    \/ \E p \in Peers : RunMeta(p) \/ Begin(p) \/ Stop(p)

Spec == Init /\ [][Next]_vars

(* cfg_runtime and run_meta loop for ever, and peers are started. *)
FairSpec ==
    /\ Spec
    /\ \A a \in Askers : WF_vars(Ask(a)) /\ WF_vars(Retry(a)) /\ WF_vars(Wait(a)) /\ WF_vars(Sleep(a))
    /\ \A p \in Peers : WF_vars(RunMeta(p)) /\ WF_vars(Begin(p))

-----------------------------------------------------------------------------
(* Properties.                                                             *)

(* The requests of an asker in the queues of its peers, and what is in its own. *)
UnderWay(a) ==
    Len(q[a]) + Cardinality({<<p, i>> \in Peers \X (1 .. Capacity) : i <= Len(q[p]) /\ q[p][i].from = a})

(* Of a server that asks there is one message more under way, in the queues  *)
(* of its peers and in its own, than there were time-outs: cfg_runtime sends *)
(* no request before the last one was answered or given up, and takes its    *)
(* answer out of the queue, whichever peers stop and start.  Its meta queue, *)
(* which nobody else empties, can fill up by late answers only.              *)
FewUnderWay == \A a \in Askers : UnderWay(a) <= timeouts + 1

(* An address is never older than the request it was taken for: a late       *)
(* answer of a server that has since been started again is not used.  It     *)
(* rests on begin, which leaves most_recent_msg_nr alone.                    *)
NotStale == \A a \in Askers, p \in Peers : got[a][p] # None => got[a][p].start >= asked[a][p]

(* Every server gets its addresses, unless a peer is started again or a     *)
(* queue is full of late answers, which stay in it.                         *)
Configured ==
    <>(\/ \A a \in Askers : pc[a] = "done" /\ \A i \in DOMAIN Wants[a] : got[a][Wants[a][i]] # None
       \/ \E p \in Peers : start[p] > 1 \/ (start[p] = 1 /\ ~running[p])
       \/ timeouts >= Capacity)
=============================================================================
