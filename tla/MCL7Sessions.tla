---------------------------- MODULE MCL7Sessions ----------------------------
(* Every server on top of TCP, most of them with two connections of one id *)
(* and a queue that loses CLOSEs; VNC is closed by run_meta as well, and    *)
(* has two connections when its peers send nothing.                        *)
EXTENDS L7Sessions

Server(kind, useMeta, inCapacity, n, d) ==
    [kind |-> kind, useMeta |-> useMeta, inCapacity |-> inCapacity, conns |-> n, data |-> d]

AllServers ==
    {Server("http", FALSE, 1, 2, 1), Server("https", FALSE, 1, 1, MaxData),
     Server("gopher", FALSE, 1, 2, 1), Server("vnc", TRUE, MaxData + 2, 1, MaxData),
     Server("vnc", TRUE, 1, 2, 0), Server("time", FALSE, 1, 2, MaxData)}
=============================================================================
