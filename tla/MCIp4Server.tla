------------------------------ MODULE MCIp4Server ----------------------------
(* Ip4Server with the gateway on the subnet and one host behind it. *)
EXTENDS Ip4Server

CONSTANTS me, gw, far, mac1, none

AllAddresses == {me, gw, far}
LocalAddresses == {me, gw}
AllMacs == {mac1}
=============================================================================
