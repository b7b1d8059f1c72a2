----------------------------- MODULE MCResolve ------------------------------
(* Resolve.cfg: a host and the gateway on the subnet, and a host behind the  *)
(* gateway, to which packets go by the MAC address of the gateway.           *)
(* ResolveWaiting.cfg: the gateway alone.                                    *)
EXTENDS Resolve, TLC

CONSTANTS me, near, gw, far, mac0, mac1, mac2, none

LocalAddresses == {me, near, gw}
SmallSubnet == {me, gw}
OtherHosts == {near, gw}
OneHost == {gw}
NoHosts == {}
FarHosts == {far}
MacTable == (me :> mac0) @@ (near :> mac1) @@ (gw :> mac2)
SmallTable == (me :> mac0) @@ (gw :> mac2)
(* a number that is not in use, and one that the second packet waits for    *)
SomeNumbers == {0, 3}
=============================================================================
