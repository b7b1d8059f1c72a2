---------------------------- MODULE MCMetaConfig ----------------------------
(* The ARP and TCP servers ask the tap and IP4 servers. *)
EXTENDS MetaConfig

MCWants == [a \in Askers |-> IF a = "arp" THEN <<"tap", "ip4">> ELSE <<"ip4">>]
=============================================================================
