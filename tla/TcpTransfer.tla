---------------------------- MODULE TcpTransfer -----------------------------
(***************************************************************************)
(* The TCP server with a real peer: a client that opens a connection,      *)
(* sends its bytes and a FIN, sends again what is not acknowledged, and    *)
(* acknowledges what it receives in order, over a network that is a queue  *)
(* in each direction.  A fault is a segment lost, repeated or overtaken,   *)
(* or a queue of the server's that is full; there are at most MaxFaults of *)
(* them, so that what is repeated gets through in the end.                 *)
(*                                                                         *)
(* The peer and the network are not part of the repository: the peer does  *)
(* what the server needs of it ("tcp-peer should retry eventually",        *)
(* tcp_server.cpp:677).  In the scenarios without a peer the server is     *)
(* that of TcpServer, among arbitrary segments.                            *)
(***************************************************************************)
EXTENDS TcpServer, FiniteSets

CONSTANT MaxWire      \* bound: the peer sends again while the wire holds less

VARIABLES
    peer,        \* the peer: state, first number of the server's stream, what it got,
                 \* whether it got the FIN, how much of its own is acknowledged
    toServer,    \* segments on their way
    toPeer,
    faults       \* that happened

outside == <<peer, toServer, toPeer, faults>>
tvars   == <<vars, outside>>

Iss == 4                       \* the peer's initial sequence number

HasPeer   == net.peer
Bytes     == net.bytes    \* that the peer sends
Lossy     == net.lossy    \* where segments may be lost: on the way to the "server", the "peer"
Closes    == net.closes   \* the peer sends a FIN after its bytes
MaxFaults == net.faults   \* bound

TransferInit ==
    /\ Init
    /\ peer = [state |-> "syn_sent", base |-> 0, got |-> <<>>, fin |-> FALSE, una |-> 0]
    /\ toServer = <<>> /\ toPeer = <<>> /\ faults = 0

-----------------------------------------------------------------------------
(* The network.                                                            *)

(* a queue without its i-th segment, or with it when it comes once more *)
Taken(q, i, again) == IF again THEN q ELSE RemoveAt(q, i)

Fault(n) == faults' = faults + n /\ faults' <= MaxFaults

Cost(i, again, full) == (IF i > 1 THEN 1 ELSE 0) + (IF again THEN 1 ELSE 0) + Cardinality(full)

(* the order of the segments of one step does not matter: there is but one, *)
(* except where a RST follows an ACK                                        *)
Sent(q, segments) == q \o SetToSeq(segments)

Lose ==
    /\ Fault(1)
    /\ \/ /\ "server" \in Lossy
          /\ \E i \in DOMAIN toServer : toServer' = RemoveAt(toServer, i)
          /\ UNCHANGED toPeer
       \/ /\ "peer" \in Lossy
          /\ \E i \in DOMAIN toPeer : toPeer' = RemoveAt(toPeer, i)
          /\ UNCHANGED toServer
    /\ out' = {}
    /\ UNCHANGED <<net, slot, locked, upper, history, peer>>

-----------------------------------------------------------------------------
(* The peer.                                                               *)

InSegment(flags, seq, ack, len) == [flags |-> flags, seq |-> seq, ack |-> ack, len |-> len]

Expects(p) == Plus(p.base, Len(p.got) + (IF p.fin THEN 1 ELSE 0))
PeerAck(p) == InSegment({"ack"}, Plus(Iss, 1 + p.una), Expects(p), 0)

CanSend(g) ==
    /\ HasPeer /\ Len(toServer) + Len(toPeer) < MaxWire
    /\ g \notin ToSet(toServer)
    /\ toServer' = Append(toServer, g)
    /\ out' = {}
    /\ UNCHANGED <<net, slot, locked, upper, history, peer, toPeer, faults>>

PeerSyn == peer.state = "syn_sent" /\ CanSend(InSegment({"syn"}, Iss, 0, 0))

(* for the first time or again: its next bytes, or its FIN after the last *)
PeerData ==
    /\ peer.state = "established" /\ peer.una < Bytes
    /\ \E n \in 1 .. Mss :
          /\ peer.una + n <= Bytes
          /\ CanSend([PeerAck(peer) EXCEPT !.len = n])

PeerFin ==
    /\ Closes /\ peer.state = "established" /\ peer.una = Bytes
    /\ CanSend([PeerAck(peer) EXCEPT !.flags = {"ack", "fin"}])

(* what a segment from the server makes of the peer *)
Acked(p, g) ==
    LET n == (g.ack - Iss - 1) % Modulus
    IN  IF "ack" \in g.flags /\ n > p.una /\ n <= Bytes + 1 THEN [p EXCEPT !.una = n] ELSE p

Received(p, g) ==
    LET at  == (g.seq - p.base) % Modulus
        got == IF at <= Len(p.got) /\ at + Len(g.pl) > Len(p.got)
                  THEN p.got \o SubSeq(g.pl, Len(p.got) - at + 1, Len(g.pl)) ELSE p.got
    IN  [p EXCEPT !.got = got, !.fin = @ \/ ("fin" \in g.flags /\ at + Len(g.pl) = Len(got))]

PeerRecv(i, again) ==
    LET g     == toPeer[i]
        syn   == "syn" \in g.flags /\ g.ack = Plus(Iss, 1)
        after == CASE "rst" \in g.flags -> [peer EXCEPT !.state = "reset"]
                   [] syn /\ peer.state = "syn_sent" -> [peer EXCEPT !.state = "established", !.base = Plus(g.seq, 1)]
                   [] "rst" \notin g.flags /\ ~syn /\ peer.state = "established" -> Received(Acked(peer, g), g)
                   [] OTHER -> peer
        reply == peer.state # "reset" /\ (syn \/ g.pl # <<>> \/ "fin" \in g.flags)
    IN  /\ peer' = after
        /\ toPeer' = Taken(toPeer, i, again)
        /\ toServer' = IF reply /\ after.state = "established" THEN Append(toServer, PeerAck(after)) ELSE toServer
        /\ Fault(Cost(i, again, {}))
        /\ out' = {}
        /\ UNCHANGED <<net, slot, locked, upper, history>>

-----------------------------------------------------------------------------
(* The server: what it receives comes from the wire, what it sends goes    *)
(* there.                                                                  *)

Deliver(i, again, full) ==
    /\ RecvSegment(toServer[i], full)
    /\ toServer' = Taken(toServer, i, again)
    /\ toPeer' = Sent(toPeer, out')
    /\ Fault(Cost(i, again, full))
    /\ UNCHANGED peer

Inserted(full) ==
    /\ AfterInsert(full)
    /\ toPeer' = Sent(toPeer, out')
    /\ Fault(Cost(1, FALSE, full))
    /\ UNCHANGED <<peer, toServer>>

(* run_in between two locks, run_out and run_clean *)
Background ==
    /\ \/ InsertSession \/ QuickRelease
       \/ \E n \in 0 .. MaxBytes, fin \in BOOLEAN : L7Write(n, fin)
       \/ CleanScan \/ CleanDelete
    /\ UNCHANGED outside

Sends1(full) ==
    /\ Sender(full)
    /\ toPeer' = Sent(toPeer, out')
    /\ Fault(Cost(1, FALSE, full))
    /\ UNCHANGED <<peer, toServer>>

(* the peer's retransmission timer *)
PeerSends == PeerSyn \/ PeerData \/ PeerFin

TransferNext ==
    IF HasPeer
    THEN \/ \E i \in DOMAIN toServer, again \in BOOLEAN, full \in MayFail : Deliver(i, again, full)
         \/ \E full \in MayFail : Inserted(full)
         \/ \E full \in MayFail : Sends1(full)
         \/ Background \/ PeerSends \/ Lose
         \/ \E i \in DOMAIN toPeer, again \in BOOLEAN : PeerRecv(i, again)
    ELSE Next /\ UNCHANGED outside

(* run_in's thread, when nothing goes wrong *)
RunInStep ==
    \/ rx = "idle" /\ toServer # <<>> /\ Deliver(1, FALSE, {})
    \/ Inserted({})
    \/ (InsertSession \/ QuickRelease) /\ UNCHANGED outside

(* The threads of the server run, the network passes on what it does not   *)
(* lose, and the peer sends again what is not acknowledged.                *)
Fairness ==
    /\ WF_tvars(HasPeer /\ RunInStep)
    /\ WF_tvars(HasPeer /\ Sends1({}))
    /\ WF_tvars(HasPeer /\ toPeer # <<>> /\ PeerRecv(1, FALSE))
    /\ WF_tvars(HasPeer /\ PeerSends)

TransferSpec == TransferInit /\ [][TransferNext]_tvars /\ Fairness

-----------------------------------------------------------------------------
(* Properties.                                                             *)

(* The peer's bytes reach the L7 server although segments and ACKs are lost, *)
(* repeated and overtaken and queues are full at times: run_in leaves it to  *)
(* the peer to send again what it did not acknowledge, and acknowledges once *)
(* more what comes twice.  Otherwise the session ended and one side was told: *)
(* the L7 server by a CLOSE (an ACK was refused), or the peer by a RST (the  *)
(* OPEN was).                                                                *)
PeerHeard == <>(Cardinality(ToSet(delivered)) >= Bytes \/ l7 = "closed" \/ peer.state = "reset")

(* What the L7 server writes reaches the peer, with its FIN, as long as      *)
(* nothing from the server and none of the peer's ACKs is lost, whatever is  *)
(* repeated or overtaken: an ACK that comes early, late or twice leaves the  *)
(* sender neither waiting nor without the bytes that it has yet to send      *)
(* again.  Excepted are what was written before the session was in the map,  *)
(* a last segment that the IP server's queue refused, which counts as sent   *)
(* (line 254), numbers beyond the largest one, where the plain comparison of *)
(* an ACK (line 537) takes it for an old one, and a peer that sends its own  *)
(* FIN: as soon as both are out the session may be removed, and the RST that *)
(* an ACK then gets may overtake what was sent.                              *)
L7Heard ==
    []<>(HasPeer /\ Lossy = {} /\ ~Closes /\ ~dropped /\ ~unsent /\ peer.base + written + 1 < Modulus
            => Len(peer.got) = written /\ (l7_fin => peer.fin))
=============================================================================
