---------------------------- MODULE MCTcpServer -----------------------------
(* Instances of TcpTransfer for TLC.  The peer's stream starts at 5.       *)
EXTENDS TcpTransfer

Seg(flags, seqs, acks, lens) ==
    {[flags |-> flags, seq |-> q, ack |-> a, len |-> n] : q \in seqs, a \in acks, n \in lens}

(* the peer's bytes 5, 6 and 7, cut up and repeated, with its FIN *)
InSegments ==
    Seg({"syn"}, {4}, {0}, {0})
      \cup Seg({"ack"}, {5, 6}, {2}, {0, 1, 2})
      \cup Seg({"ack"}, {7}, {3}, {1})
      \cup Seg({"ack", "fin"}, {7, 0}, {2}, {0, 1})

(* ACKs of all kinds for what the server sends from 2 on *)
OutSegments ==
    Seg({"syn"}, {4}, {0}, {0})
      \cup Seg({"ack"}, {5}, 0 .. 7, {0})
      \cup Seg({"ack", "fin"}, {5}, {3}, {0})

(* ACKs of all kinds for what the server sends from 6 on, past the largest number *)
WrapSegments ==
    Seg({"syn"}, {4}, {0}, {0}) \cup Seg({"ack"}, {5}, 0 .. 7, {0})

(* handshakes, FIN and RST, in two slots of the cookie *)
LifeSegments ==
    Seg({"syn"}, {4}, {0}, {0})
      \cup Seg({"ack"}, {5}, {2, 3, 4}, {0})
      \cup Seg({"ack", "fin"}, {5}, {2}, {0, 1})
      \cup Seg({"fin"}, {5}, {0}, {0})
      \cup Seg({"rst"}, {5}, {0}, {0})

(* answers to a session that run_meta opens with ISN 0 *)
ClientSegments ==
    Seg({"syn", "ack"}, {4}, {1}, {0})
      \cup Seg({"ack"}, {5}, {1, 2, 3}, {0})
      \cup Seg({"ack", "fin"}, {6}, {3}, {0})
      \cup Seg({"syn"}, {4}, {0}, {0}) \cup Seg({"rst"}, {5}, {0}, {0})

Scenario(known, cookies, segments, mayFail, isns, maxSessions, maxBytes) ==
    [mapped |-> known, cookies |-> cookies, segments |-> segments, mayFail |-> mayFail, isns |-> isns,
     maxSessions |-> maxSessions, maxBytes |-> maxBytes, peer |-> FALSE, bytes |-> 0, closes |-> FALSE,
     lossy |-> {}, faults |-> 0]

(* a peer that sends "bytes" bytes *)
WithPeer(mayFail, maxBytes, bytes, closes, lossy, n) ==
    [Scenario(TRUE, <<1>>, {}, mayFail, {}, 1, maxBytes) EXCEPT
        !.peer = TRUE, !.bytes = bytes, !.closes = closes, !.lossy = lossy, !.faults = n]

(* the peer's bytes, the server's bytes (twice), the life of a session, an  *)
(* unknown port and a session opened from here; two uploads with losses, of *)
(* which the second ends with a FIN, and a download without                 *)
InOutLifeClient ==
    {Scenario(TRUE, <<1>>, InSegments, {{}, {"data"}, {"ack"}, {"ack", "close"}}, {}, 1, 0),
     Scenario(TRUE, <<1>>, OutSegments, {{}, {"seg"}}, {}, 1, 4),
     Scenario(TRUE, <<5>>, WrapSegments, {{}, {"seg"}}, {}, 1, 3),
     Scenario(TRUE, <<1, 3>>, LifeSegments, {{}, {"open"}, {"fin"}, {"close"}}, {}, 2, 1),
     Scenario(FALSE, <<1>>, LifeSegments, {{}}, {}, 1, 1),
     Scenario(FALSE, <<1>>, ClientSegments, {{}, {"synack"}, {"reply"}}, {0}, 2, 1),
     WithPeer({{}, {"open"}, {"data"}, {"ack"}, {"ack", "close"}}, 0, 2, FALSE, {"server", "peer"}, 2),
     WithPeer({{}, {"fin"}, {"data"}, {"ack"}}, 0, 1, TRUE, {"server", "peer"}, 2),
     WithPeer({{}, {"seg"}}, 3, 0, FALSE, {}, 1)}

JustLife == {Scenario(TRUE, <<1>>, LifeSegments, {{}}, {}, 1, 1)}
=============================================================================
