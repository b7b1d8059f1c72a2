----------------------------- MODULE Ip4Server ------------------------------
(***************************************************************************)
(* src/ip4_server.cpp as a process: run starts run_in and run_out in       *)
(* threads of their own.  They share no memory, so a behaviour has the     *)
(* steps of one of the two (Ip4Out, or Ip4Frag for the fragments that come *)
(* in), chosen at the start.                                               *)
(***************************************************************************)
EXTENDS Ip4Out

CONSTANTS Unit, Room, Ids, Lengths, MaxCopies

VARIABLES way, length, net, copies, packets, out, repeated

ASSUME FragAssumption ==
    /\ Unit \in Nat \ {0} /\ Room \in Nat /\ Room >= Unit
    /\ Lengths \subseteq Nat \ {0} /\ MaxCopies \in Nat \ {0}

In == INSTANCE Ip4Frag

in_vars == <<length, net, copies, packets, out, repeated>>

ServerVars == <<vars, way, in_vars>>

ServerInit == way \in {"out", "in"} /\ Init /\ In!Init

RunIn == In!Next /\ UNCHANGED vars

ServerNext ==
    /\ \/ way = "out" /\ Next /\ UNCHANGED in_vars
       \/ way = "in" /\ RunIn
    /\ UNCHANGED way

Spec4 == ServerInit /\ [][ServerNext]_ServerVars

FairSpec4 == Spec4 /\ WF_ServerVars(\E last \in 1 .. Len(pm) : Expired(last) # {} /\ Cleaner(last) /\ UNCHANGED <<way, in_vars>>)

(* What is given to the upper server is the payload that was sent (Ip4Frag). *)
DeliveredWhole == In!DeliveredWhole

(* Of a packet that came in whole nothing stays in "packets" (Ip4Frag).      *)
NothingLeftBehind == In!NothingLeftBehind
=============================================================================
