------------------------------- MODULE Ip4Out -------------------------------
(***************************************************************************)
(* The way out of the IP4 server: run_out of src/ip4_server.cpp.  A packet *)
(* from an upper server waits in pending_messages, under the numbers of    *)
(* the two requests that ask the resolver for its MAC addresses, until     *)
(* th_sender has got both or th_cleaner gives up on it.                    *)
(*                                                                         *)
(* All three threads work under pending_messages_lock, so each handler is  *)
(* one step.  A pending_msg is a place in the sequence "pm", in the order  *)
(* of their time stamps; "freed" counts what was done with its queued_msg. *)
(***************************************************************************)
EXTENDS Integers, Sequences, FiniteSets, Functions

CONSTANTS
    Addresses,   \* IP addresses
    Own,         \* listen_addr
    Subnet,      \* the addresses with the prefix of listen_addr
    Gateway,     \* default_gw_addr
    Macs,        \* MAC addresses
    NoMac,       \* a MAC address that is not there
    MaxPackets,  \* bound on the packets from the upper servers
    Mapped,      \* whether there is a protocol number for the sender of a packet
    MaxFrags     \* bound on the fragments of a packet

ASSUME Ip4OutAssumption ==
    /\ Own \in Addresses /\ Gateway \in Addresses /\ Subnet \subseteq Addresses
    /\ NoMac \notin Macs /\ Mapped \subseteq BOOLEAN /\ MaxPackets \in Nat /\ MaxFrags \in Nat

VARIABLES
    msg_nr,     \* most_recent_msg_nr of the resolver's queue
    rq,         \* requests to the resolver
    replies,    \* shm_resolver_replies
    pm,         \* the pending_msg objects ever made
    pending,    \* pending_messages: message number -> object
    freed,      \* object -> number of times its queued_msg was freed
    link        \* frames given to the link layer

vars == <<msg_nr, rq, replies, pm, pending, freed, link>>

Init ==
    /\ msg_nr = 0 /\ rq = <<>> /\ replies = <<>>
    /\ pm = <<>> /\ pending = [k \in {} |-> 0] /\ freed = <<>> /\ link = <<>>

(* netmask and default gateway *)
Via(to) == IF to \in Subnet THEN to ELSE Gateway

NewPending(to, frags, mapped) ==
    [dst |-> to, frags |-> frags, mapped |-> mapped,
     from_nr |-> msg_nr + 1, from |-> NoMac, to_nr |-> msg_nr + 2, to |-> NoMac]

Insert(keys) == [k \in DOMAIN pending \cup keys |-> IF k \in keys THEN Len(pm) + 1 ELSE pending[k]]

QueueOneRecord(to, frags, mapped, ok) ==
    IF ok = {msg_nr + 1, msg_nr + 2}
       THEN /\ pm' = Append(pm, NewPending(to, frags, mapped))
            /\ pending' = Insert({msg_nr + 1})
            /\ freed' = Append(freed, 0)
       ELSE UNCHANGED <<pm, pending, freed>>

(* the packet is queued, under both numbers, when both requests were taken *)
Queue(to, frags, mapped, ok) ==
    IF ok = {msg_nr + 1, msg_nr + 2}
       THEN /\ pm' = Append(pm, NewPending(to, frags, mapped))
            /\ pending' = Insert(ok)
            /\ freed' = Append(freed, 0)
       ELSE UNCHANGED <<pm, pending, freed>>

(* A packet comes in.  "ok" are the requests the resolver's queue took; a   *)
(* request that is refused has used its number all the same.                *)
Upper(to, frags, mapped, ok) ==
    /\ msg_nr' = msg_nr + 2
    /\ rq' = rq \o SelectSeq(<<[nr |-> msg_nr + 1, ip |-> Own], [nr |-> msg_nr + 2, ip |-> Via(to)]>>,
                             LAMBDA r : r.nr \in ok)
    /\ Queue(to, frags, mapped, ok)
    /\ UNCHANGED <<replies, link>>

FilledSwapped(p, r) ==
    IF p.from_nr = r.nr THEN [p EXCEPT !.to = r.mac] ELSE [p EXCEPT !.from = r.mac]

(* the missing part filled in *)
Filled(p, r) ==
    IF p.from_nr = r.nr THEN [p EXCEPT !.from = r.mac] ELSE [p EXCEPT !.to = r.mac]

(* The fragments that fitted in the link layer's queue; the first that does  *)
(* not ends the sending.                                                     *)
Fragments(o, p, n) ==
    [i \in 1 .. (IF p.mapped THEN n ELSE 0) |->
        [o |-> o, frag |-> i, dst |-> p.dst, from |-> p.from, to |-> p.to]]

Without(f, k) == Restrict(f, DOMAIN f \ {k})

UseReplyKeeps(r, o, p) ==
    IF p.from = NoMac \/ p.to = NoMac
       THEN UNCHANGED <<pending, freed, link>>
       ELSE /\ \E n \in 0 .. p.frags : link' = link \o Fragments(o, p, n)
            /\ freed' = [freed EXCEPT ![o] = @ + 1]
            /\ pending' = Without(pending, r.nr)

(* the record of a reply goes away; with both addresses known the packet is *)
(* sent and freed                                                           *)
UseReply(r, o, p) ==
    /\ pending' = Without(pending, r.nr)
    /\ IF p.from = NoMac \/ p.to = NoMac
          THEN UNCHANGED <<freed, link>>
          ELSE /\ \E n \in 0 .. p.frags : link' = link \o Fragments(o, p, n)
               /\ freed' = [freed EXCEPT ![o] = @ + 1]

(* th_sender: a reply that is not awaited, or that has no address in it, is *)
(* dropped.                                                                 *)
Sender ==
    /\ replies # <<>>
    /\ replies' = Tail(replies)
    /\ LET r == Head(replies) IN
       IF r.nr \notin DOMAIN pending \/ r.mac = NoMac
          THEN UNCHANGED <<pm, pending, freed, link>>
          ELSE LET o == pending[r.nr]
                   p == Filled(pm[o], r)
               IN  pm' = [pm EXCEPT ![o] = p] /\ UseReply(r, o, p)
    /\ UNCHANGED <<msg_nr, rq>>

ExpiredBefore(last) == {k \in DOMAIN pending : pending[k] < last}

Expired(last) == {k \in DOMAIN pending : pending[k] <= last}

Keys(o) == {pm[o].from_nr, pm[o].to_nr}

FreeingAll(o, last) == {k \in Expired(last) : pending[k] = o}

(* The records of a packet for which its queued_msg is freed: the map is gone *)
(* through in the order of its keys, and a key that is to be erased already   *)
(* is skipped.                                                                *)
Freeing(o, last) ==
    {k \in Expired(last) : pending[k] = o /\ \A j \in Expired(last) : j < k => k \notin Keys(pending[j])}

(* th_cleaner, when what came in up to the packet "last" is too old *)
Cleaner(last) ==
    /\ freed' = [o \in DOMAIN freed |-> freed[o] + Cardinality(Freeing(o, last))]
    /\ pending' = Restrict(pending, DOMAIN pending \ UNION {Keys(pending[k]) : k \in Expired(last)})
    /\ UNCHANGED <<msg_nr, rq, replies, pm, link>>

(* The resolver takes its requests, and replies with any number given out so  *)
(* far, with an address or without.                                           *)
AnyReply(nr, mac) ==
    /\ replies = <<>>
    /\ replies' = <<[nr |-> nr, mac |-> mac]>>
    /\ rq' = <<>>
    /\ UNCHANGED <<msg_nr, pm, pending, freed, link>>

RunOut ==
    \/ /\ Len(pm) < MaxPackets /\ msg_nr <= 2 * MaxPackets
       /\ \E to \in Addresses \ {Own}, frags \in 1 .. MaxFrags, mapped \in Mapped,
             ok \in SUBSET {msg_nr + 1, msg_nr + 2} : Upper(to, frags, mapped, ok)
    \/ Sender
    \/ \E last \in 1 .. Len(pm) : Expired(last) # {} /\ Cleaner(last)

Next == RunOut \/ \E nr \in 0 .. msg_nr, mac \in Macs \cup {NoMac} : AnyReply(nr, mac)

Spec == Init /\ [][Next]_vars

(* th_cleaner runs for as long as the server does, and time goes on *)
FairSpec == Spec /\ WF_vars(\E last \in 1 .. Len(pm) : Expired(last) # {} /\ Cleaner(last))

-----------------------------------------------------------------------------
(* Properties.                                                             *)

(* The queued_msg of a packet is freed once, by th_sender or th_cleaner.     *)
FreedOnce == \A o \in DOMAIN pm : freed[o] <= 1

(* A record never leads to a packet that is gone, and its number is one of   *)
(* the two of its packet, so that "Unexpected message number" never comes.   *)
RecordsLive ==
    \A k \in DOMAIN pending : freed[pending[k]] = 0 /\ k \in Keys(pending[k])

(* A packet that waits can be found by th_sender or th_cleaner: a record is  *)
(* left for each address that is missing.                                    *)
NotForgotten ==
    \A o \in DOMAIN pm : freed[o] = 0 =>
        /\ pm[o].from = NoMac => pm[o].from_nr \in DOMAIN pending
        /\ pm[o].to = NoMac => pm[o].to_nr \in DOMAIN pending
        /\ pm[o].from = NoMac \/ pm[o].to = NoMac

(* A queued packet does not stay for ever: it is sent, or given up.          *)
EventuallyGone ==
    \A o \in 1 .. MaxPackets : (o \in DOMAIN pm) ~> (o \in DOMAIN pm /\ freed[o] = 1)
=============================================================================
