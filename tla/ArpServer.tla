----------------------------- MODULE ArpServer ------------------------------
(***************************************************************************)
(* The ARP server: src/arp_server.cpp.  run_resolver takes the requests of *)
(* the IP4 server, answers what it knows, and puts the others in           *)
(* "requests" and on the wire.  run_in answers the ARP requests of others, *)
(* and puts the ARP replies in the cache and then, under another lock,     *)
(* gives them to the requests that wait for them.                          *)
(*                                                                         *)
(* The number of a waiting request (request::msg_nr) is read though it was *)
(* never set: it is any member of Uninitialised, of which 0 is a number    *)
(* that no queue gives out.  A message that finds a queue full, and a      *)
(* frame that gets lost, counts in "lost".                                 *)
(***************************************************************************)
EXTENDS Integers, Sequences, SequencesExt

CONSTANTS
    Own,            \* the address of this host
    Hosts,          \* the addresses of the others
    MacOf,          \* address -> MAC address
    Uninitialised,  \* what request::msg_nr can be
    MaxLost,        \* bound on the messages that get lost
    MaxAsked        \* bound on what the others ask

VARIABLES
    rq, replies,     \* the queues of the resolver and of who asks it
    requests,        \* waiting requests
    arp_cache,
    res_pc, res_r,   \* run_resolver
    arp_in,          \* ARP frames from the link layer
    rx_pc, rx_m,     \* run_in
    wire,            \* ARP frames to the link layer
    asked,           \* what they asked so far
    lost,
    stray            \* a reply went out with a number that some request may have

NoRequest == [ip |-> Own, nr |-> 0]
NoFrame == [op |-> "none", spa |-> Own, sha |-> MacOf[Own], tpa |-> Own]

ArpInit ==
    /\ rq = <<>> /\ replies = <<>> /\ requests = <<>> /\ arp_cache = [ip \in {} |-> 0]
    /\ res_pc = "take" /\ res_r = NoRequest /\ rx_pc = "take" /\ rx_m = NoFrame
    /\ arp_in = <<>> /\ wire = <<>> /\ asked = 0 /\ lost = 0 /\ stray = FALSE

-----------------------------------------------------------------------------
(* send_message without waiting: the message is in the queue or lost *)
Put(q, m) ==
    \/ q' = Append(q, m) /\ UNCHANGED lost
    \/ lost < MaxLost /\ lost' = lost + 1 /\ UNCHANGED q

Reply(ip, mac, nr) == [ip |-> ip, mac |-> mac, nr |-> nr]

Known(ip) == ip = Own \/ ip \in DOMAIN arp_cache

KnownMac(ip) == IF ip = Own THEN MacOf[Own] ELSE arp_cache[ip]

(* search-mac: the own address and what is in the cache are answered.  The   *)
(* other command, search-ip4, and the requests by MAC address that only it   *)
(* makes are left out: nothing under src/ sends it.                          *)
ResolverTake ==
    /\ res_pc = "take" /\ rq # <<>>
    /\ rq' = Tail(rq)
    /\ LET m == Head(rq) IN
       \/ /\ Known(m.ip)
          /\ Put(replies, Reply(m.ip, KnownMac(m.ip), m.nr))
          /\ UNCHANGED <<res_pc, res_r>>
       \/ /\ ~Known(m.ip)
          /\ \E nr \in Uninitialised : res_r' = [ip |-> m.ip, nr |-> nr]
          /\ res_pc' = "push"
          /\ UNCHANGED <<replies, lost>>
    /\ UNCHANGED <<requests, arp_cache, arp_in, rx_pc, rx_m, wire, asked, stray>>

ResolverPush ==
    /\ res_pc = "push"
    /\ requests' = Append(requests, res_r)
    /\ res_pc' = "send"
    /\ UNCHANGED <<rq, replies, arp_cache, res_r, arp_in, rx_pc, rx_m, wire, asked, lost, stray>>

ArpRequest(ip) == [op |-> "request", spa |-> Own, sha |-> MacOf[Own], tpa |-> ip]

ResolverSend ==
    /\ res_pc = "send"
    /\ Put(wire, ArpRequest(res_r.ip))
    /\ res_pc' = "take" /\ res_r' = NoRequest
    /\ UNCHANGED <<rq, replies, requests, arp_cache, arp_in, rx_pc, rx_m, asked, stray>>

(* the request goes out before it can be found *)
ResolverSendFirst ==
    /\ res_pc = "push"
    /\ Put(wire, ArpRequest(res_r.ip))
    /\ res_pc' = "send"
    /\ UNCHANGED <<rq, replies, requests, arp_cache, res_r, arp_in, rx_pc, rx_m, asked, stray>>

ResolverPushLast ==
    /\ res_pc = "send"
    /\ requests' = Append(requests, res_r)
    /\ res_pc' = "take" /\ res_r' = NoRequest
    /\ UNCHANGED <<rq, replies, arp_cache, arp_in, rx_pc, rx_m, wire, asked, lost, stray>>

RunResolverSendFirst == ResolverTake \/ ResolverSendFirst \/ ResolverPushLast

RunResolver == ResolverTake \/ ResolverPush \/ ResolverSend

-----------------------------------------------------------------------------
(* an ARP request for this host is answered to who sent it.  The code has    *)
(* assert(SPA != TPA) here: it holds because nobody else uses the address of *)
(* this host (see HostAsks), not because of a check.                         *)
RxRequest ==
    /\ rx_pc = "take" /\ arp_in # <<>> /\ Head(arp_in).op = "request"
    /\ arp_in' = Tail(arp_in)
    /\ LET m == Head(arp_in) IN
       IF m.tpa = Own
          THEN Put(wire, [op |-> "reply", spa |-> Own, sha |-> MacOf[Own], tpa |-> m.spa])
          ELSE UNCHANGED <<wire, lost>>
    /\ UNCHANGED <<rq, replies, requests, arp_cache, res_pc, res_r, rx_pc, rx_m, asked, stray>>

(* arp_cache->insert does not replace what is there *)
RxReply ==
    /\ rx_pc = "take" /\ arp_in # <<>> /\ Head(arp_in).op = "reply"
    /\ arp_in' = Tail(arp_in)
    /\ LET m == Head(arp_in) IN
       /\ arp_cache' = [ip \in DOMAIN arp_cache \cup {m.spa} |->
                           IF ip \in DOMAIN arp_cache THEN arp_cache[ip] ELSE m.sha]
       /\ rx_m' = m
    /\ rx_pc' = "register"
    /\ UNCHANGED <<rq, replies, requests, res_pc, res_r, wire, asked, lost, stray>>

(* register_resolve_reply: every request for the address gets its reply *)
Register ==
    /\ rx_pc = "register"
    /\ LET mine == SelectSeq(requests, LAMBDA r : r.ip = rx_m.spa) IN
       /\ requests' = SelectSeq(requests, LAMBDA r : r.ip # rx_m.spa)
       /\ \E taken \in SUBSET DOMAIN mine :
             LET s == SetToSortSeq(taken, <) IN
             /\ replies' = replies \o [i \in DOMAIN s |-> Reply(rx_m.spa, rx_m.sha, mine[s[i]].nr)]
             /\ lost' = lost + Len(mine) - Len(s) /\ lost' <= MaxLost
             /\ stray' = (stray \/ \E i \in taken : mine[i].nr # 0)
    /\ rx_pc' = "take" /\ rx_m' = NoFrame
    /\ UNCHANGED <<rq, arp_cache, res_pc, res_r, arp_in, wire, asked>>

RunRx == RxRequest \/ RxReply \/ Register

-----------------------------------------------------------------------------
(* The network: a host answers the ARP request for its address, or asks for  *)
(* the address of this one.  Nobody else uses the address of this host.      *)

rest == <<rq, replies, requests, arp_cache, res_pc, res_r, rx_pc, rx_m, stray>>

HostAnswers ==
    /\ wire # <<>>
    /\ wire' = Tail(wire)
    /\ LET m == Head(wire) IN
       IF m.op = "request"
          THEN Put(arp_in, [op |-> "reply", spa |-> m.tpa, sha |-> MacOf[m.tpa], tpa |-> Own])
          ELSE UNCHANGED <<arp_in, lost>>
    /\ UNCHANGED <<rest, asked>>

HostAsks(ip, tpa) ==
    /\ asked < MaxAsked
    /\ asked' = asked + 1
    /\ arp_in' = Append(arp_in, [op |-> "request", spa |-> ip, sha |-> MacOf[ip], tpa |-> tpa])
    /\ UNCHANGED <<rest, wire, lost>>

Arp ==
    \/ RunResolver \/ RunRx \/ HostAnswers
    \/ \E ip \in Hosts, tpa \in Hosts \cup {Own} : ip # tpa /\ HostAsks(ip, tpa)

-----------------------------------------------------------------------------
(* Properties.                                                             *)

(* An ARP exchange for the address is under way. *)
UnderWay(ip) ==
    \/ res_pc = "send" /\ res_r.ip = ip
    \/ \E i \in DOMAIN wire : wire[i] = ArpRequest(ip)
    \/ \E i \in DOMAIN arp_in : arp_in[i].op = "reply" /\ arp_in[i].spa = ip
    \/ rx_pc = "register" /\ rx_m.spa = ip

(* run_resolver looks in the cache, puts the request in "requests" and sends *)
(* it, in three steps, while run_in fills the cache and empties "requests"   *)
(* in two: no request is left waiting with nothing to wake it, unless a      *)
(* message was lost.                                                         *)
NoOrphans == lost > 0 \/ \A i \in DOMAIN requests : UnderWay(requests[i].ip)
=============================================================================
