------------------------------ MODULE Resolve -------------------------------
(***************************************************************************)
(* Address resolution as a whole: the way out of the IP4 server (Ip4Out)   *)
(* and the ARP server (ArpServer), which share the resolver's queue and    *)
(* the queue of its replies.                                               *)
(***************************************************************************)
EXTENDS Integers, Sequences, FiniteSets

CONSTANTS Own, Subnet, Gateway, Hosts, Remote, MacOf, NoMac, Uninitialised, Mapped, MaxPackets, MaxFrags,
          MaxLost, MaxAsked, MaxWork

ASSUME ResolveAssumption ==
    /\ Own \notin Hosts /\ DOMAIN MacOf = Hosts \cup {Own}
    /\ MaxAsked \in Nat /\ MaxLost \in Nat /\ MaxWork \in Nat

VARIABLES msg_nr, rq, replies, pm, pending, freed, link,
          requests, arp_cache, res_pc, res_r, arp_in, rx_pc, rx_m, wire, asked, lost, stray

Addresses == Hosts \cup Remote \cup {Own}
Macs == {MacOf[ip] : ip \in DOMAIN MacOf}

I == INSTANCE Ip4Out
A == INSTANCE ArpServer

ip_only  == <<msg_nr, pm, pending, freed, link>>
arp_only == <<requests, arp_cache, res_pc, res_r, arp_in, rx_pc, rx_m, wire, asked, lost, stray>>
all_vars == <<msg_nr, rq, replies, pm, pending, freed, link,
              requests, arp_cache, res_pc, res_r, arp_in, rx_pc, rx_m, wire, asked, lost, stray>>

Init == I!Init /\ A!ArpInit

Next ==
    /\ \/ I!RunOut /\ UNCHANGED arp_only
       \/ A!Arp /\ UNCHANGED ip_only
    /\ msg_nr' + 2 * asked' <= 2 * MaxWork     \* bound on packets and questions of others

Spec == Init /\ [][Next]_all_vars

-----------------------------------------------------------------------------
(* Properties.                                                             *)

(* Frames carry the MAC addresses of this host and of the next hop of their *)
(* packet, however the replies to several packets cross, as long as no      *)
(* reply has, by chance, the number of a request that it is not for.        *)
RightAddresses ==
    stray \/ \A i \in DOMAIN link : link[i].from = MacOf[Own] /\ link[i].to = MacOf[I!Via(link[i].dst)]

(* The properties of the ARP server, with the IP4 server as its client.     *)

(* run_resolver looks in the cache, puts the request in "requests" and      *)
(* sends it, while run_in fills the cache and empties "requests": nothing   *)
(* waits there without an ARP exchange under way, unless a message is lost. *)
NoOrphans == A!NoOrphans

(* ip4_server.cpp:383-385, "go through the packets that are queued for send *)
(* and see if all data is available now (meaning: the from/to               *)
(* MAC-addresses)": when all that was asked is answered and nothing was     *)
(* lost, no packet waits.                                                   *)
AnsweredIsNotWaiting ==
    /\ rq = <<>> /\ replies = <<>> /\ requests = <<>>
    /\ res_pc = "take" /\ rx_pc = "take" /\ lost = 0
    => \A o \in DOMAIN pm : freed[o] = 1
=============================================================================
