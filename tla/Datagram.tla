------------------------------ MODULE Datagram ------------------------------
(***************************************************************************)
(* A datagram's way through the servers: from the link layer               *)
(* (src/tap_server.cpp, src/promisc_server.cpp) through the IP4 server to  *)
(* the ICMP server or to the UDP and NTP servers, and the answer's way     *)
(* back.  Each server is a process with a queue per input; it takes a      *)
(* message, looks at it and passes at most one on, which is dropped when   *)
(* the next queue is full.                                                 *)
(*                                                                         *)
(* What is in a frame is a sequence of cells <<field, value>>.  From the    *)
(* IP header on a cell is four bytes; the link layer header is three cells *)
(* and a MAC address or the type and code of an ICMP message is one.       *)
(***************************************************************************)
EXTENDS Wrapping, SequencesExt, FiniteSets

CONSTANTS
    Me,           \* listen_addr; the frame n comes from the host n
    Capacity,     \* messages in a queue
    MaxFrames,    \* bound on the frames that come in
    MaxFlaws,     \* bound on the flaws of a frame
    MaxTrouble    \* bound on the frames and their flaws together

ASSUME DatagramAssumption ==
    /\ Me \in Nat \ {0} /\ Capacity \in Nat \ {0} /\ MaxFlaws \in Nat
    /\ MaxFrames \in Nat /\ Me \notin 1 .. MaxFrames

VARIABLES
    q,       \* queue name -> messages
    frames,  \* the frames that came in; n of a message is its place here
    wire,    \* the frames that went out
    lost,    \* frames of which the message, or the answer, met a full queue or no address
    up,      \* whether the link layer server runs
    dev      \* which one it is

vars == <<q, frames, wire, lost, up, dev>>

Queues == {"ip4", "icmp", "icmp_err", "udp", "ntp", "udp_down", "ip4_down", "link"}

(* What can be wrong with a frame. *)
Flaws == {"truncated", "mac", "type", "version", "dst", "header_size", "ip_size", "ttl", "protocol",
          "ip_sum", "l4_short", "l4_sum", "udp_length", "port", "mode", "not_echo"}

FlawSets == UNION {kSubset(k, Flaws) : k \in 0 .. MaxFlaws}

Init ==
    /\ q = [s \in Queues |-> <<>>] /\ frames = <<>> /\ wire = <<>> /\ lost = {} /\ up = TRUE
    /\ dev \in {"tap", "promisc"}

Cell(field, value) == <<field, value>>

Address(a) == <<Cell("address", a)>>
Mac(a)     == <<Cell("mac", a)>>

(* The MAC address of a frame that is broadcast, or multicast. *)
Group == 0

(* An IP4 packet; options is the number of cells in the header past the fifth. *)
Ip4Packet(version, options, size, ttl, protocol, from, to, pl) ==
    <<Cell("ip", [version |-> version, ihl |-> 5 + options, size |-> size]), Cell("id", from[1][2]),
      Cell("ip_ttl", [ttl |-> ttl, protocol |-> protocol])>> \o from \o to
    \o [i \in 1 .. options |-> Cell("option", i)] \o pl

(* The cells of an NTP message that hold a time stamp. *)
Originate == {7, 8}
Transmit  == {11, 12}

NtpSize == 12

(* What the host n sends: a request of the given protocol with size cells of *)
(* data, to the MAC address mac and, when the frame would be too short, with *)
(* padding.                                                                  *)
Request(n, protocol, size, options, mac, f) ==
    LET is(x, bad, good) == IF x \in f THEN bad ELSE good
        data == [i \in 1 .. size |-> IF i = 1 /\ protocol = 17 THEN Cell("mode", is("mode", 1, 3))
                                      ELSE Cell("data", 100 * n + i)]
        l4   == (IF protocol = 17
                 THEN <<Cell("ports", <<4000 + n, is("port", 124, 123)>>),
                        Cell("length", 2 + size + is("udp_length", 1, 0))>>
                 ELSE <<Cell("icmp", is("not_echo", <<13, 0>>, <<8, 0>>)), Cell("icmp_id", n)>>) \o data
        pl   == is("l4_short", SubSeq(l4, 1, 1), l4)
        pad  == [i \in 1 .. is("l4_short", 4, IF size = 0 THEN 4 ELSE 0) |-> Cell("padding", 0)]
        all  == 5 + options + Len(pl)
        pkt  == Ip4Packet(is("version", 6, 4), options,
                          is("header_size", 4, all + is("ip_size", 5, 0)), is("ttl", 0, 64),
                          is("protocol", 99, protocol), Address(n), Address(is("dst", n + 1, Me)), pl)
        frm  == Mac(is("mac", n + 1, mac)) \o Mac(n) \o <<Cell("type", is("type", 34525, 2048))>> \o pkt \o pad
    IN  is("truncated", SubSeq(frm, 1, 6), frm)

-----------------------------------------------------------------------------
(* What the servers do with a message: a set with the message they send, as *)
(* a pair with its queue, or the empty set.                                 *)

(* send_message of w: the receiver sees who sent it *)
Pass(m, to, sender, w) == {<<to, [m EXCEPT !.sender = sender, !.w = w]>>}

(* send_icmp_error: the packet goes along as what the error is about *)
SendIcmpError(m, sender, type, full_pkt, to, me) ==
    Pass(m, "icmp_err", sender, WrapUp(full_pkt, me, to, <<Cell("icmp", type)>>))

(* run_in of the link layer; 42 bytes are 10 cells. *)
LinkIn(m) ==
    IF Len(m.w) < 10 \/ m.w[1] \notin {Cell("mac", Me), Cell("mac", Group)} \/ m.w[3] # Cell("type", 2048) THEN {}
    ELSE Pass(m, "ip4", dev, WrapUp(m.w, <<m.w[2]>>, <<m.w[1]>>, SubSeq(m.w, 4, Len(m.w))))

(* run_in of the IP4 server, for what is not a fragment.  The checksum comes *)
(* last, and only for what gets no ICMP error.                               *)
Ip4In(m) ==
    LET pl   == Pl(m.w)
        ip   == pl[1][2]
        src  == <<pl[4]>>
        dst  == <<pl[5]>>
        prot == pl[3][2].protocol
        error(type) == SendIcmpError(m, "ip4", type, pl, src, dst)
    IN  IF Len(pl) < 5 \/ ip.version # 4 \/ dst # Address(Me) THEN {}
        ELSE IF ip.ihl > ip.size \/ ip.size > Len(pl) THEN error(<<12, 2>>)
        ELSE IF pl[3][2].ttl = 0 THEN error(<<11, 0>>)
        ELSE IF prot \notin {1, 17} THEN error(<<3, 2>>)
        ELSE IF "ip_sum" \in m.flaws THEN {}
        ELSE Pass(m, IF prot = 17 THEN "udp" ELSE "icmp", "ip4",
                  WrapUp(SubSeq(pl, 1, ip.size), src, dst, SubSeq(pl, ip.ihl + 1, ip.size)))

IcmpInNoChecksum(m) ==
    LET pl == Pl(m.w) IN
    IF Len(pl) < 2 \/ pl[1] # Cell("icmp", <<8, 0>>) THEN {}
    ELSE Pass(m, "ip4_down", "icmp", WrapDown(To(m.w), From(m.w), <<Cell("icmp", <<0, 0>>)>> \o Tail(pl)))

(* The checksum of a reply is taken to be right: WireProofs. *)
IcmpIn(m) ==
    LET pl == Pl(m.w) IN
    IF Len(pl) < 2 \/ "l4_sum" \in m.flaws \/ pl[1] # Cell("icmp", <<8, 0>>) THEN {}
    ELSE Pass(m, "ip4_down", "icmp", WrapDown(To(m.w), From(m.w), <<Cell("icmp", <<0, 0>>)>> \o Tail(pl)))

IcmpErrNoOptions(m) ==
    LET full == FullPkt(m.w) IN
    IF Len(full) < 5 THEN {}
    ELSE Pass(m, "ip4_down", "icmp",
              WrapDown(From(m.w), To(m.w), Pl(m.w) \o <<Cell("zero", 0)>> \o SubSeq(full, 1, Min({Len(full), 7}))))

(* run_err.  pl[2] is past the payload, which is a type and a code: what is *)
(* there is the start of the packet, with the length of its header.         *)
IcmpErr(m) ==
    LET full   == FullPkt(m.w)
        ihl    == Read(m.w, PlAt(m.w) + 1, 1)[1][2].ihl
        copy_n == Min({Len(full), ihl + 2})
    IN  IF Len(full) < 5 THEN {}
        ELSE Pass(m, "ip4_down", "icmp",
                  WrapDown(From(m.w), To(m.w), Pl(m.w) \o <<Cell("zero", 0)>> \o SubSeq(full, 1, copy_n)))

(* length >= pl_len, which is the normal case *)
UdpInStrict(m) ==
    LET pl == Pl(m.w) IN
    IF Len(pl) < 2 \/ pl[2][2] >= Len(pl) \/ "l4_sum" \in m.flaws THEN {}
    ELSE Pass(m, "ntp", "udp",
              WrapUp(FullPkt(m.w), From(m.w), To(m.w), <<pl[1]>> \o Read(m.w, PlAt(m.w) + 2, pl[2][2])))

(* The port numbers and then "length" bytes.  As it counts the header of the *)
(* datagram too, what is past the payload is copied along.                   *)
UdpIn(m) ==
    LET pl == Pl(m.w) IN
    IF Len(pl) < 2 \/ pl[2][2] > Len(pl) \/ "l4_sum" \in m.flaws THEN {}
    ELSE IF pl[1][2][2] # 123
         THEN SendIcmpError(m, "udp", <<3, 3>>, FullPkt(m.w), From(m.w), To(m.w))
         ELSE Pass(m, "ntp", "udp",
                   WrapUp(FullPkt(m.w), From(m.w), To(m.w), <<pl[1]>> \o Read(m.w, PlAt(m.w) + 2, pl[2][2])))

(* run_in of the NTP server *)
NtpIn(m) ==
    LET pl     == Pl(m.w)
        port   == pl[1][2]
        msgout == [i \in 1 .. NtpSize |-> CASE i = 1             -> Cell("mode", 4)
                                             [] i \in Originate   -> pl[1 + i + 4]
                                             [] OTHER             -> Cell("server", i)]
    IN  IF Len(pl) < 1 + NtpSize \/ pl[2] # Cell("mode", 3) THEN {}
        ELSE Pass(m, "udp_down", "ntp",
                  WrapDown(To(m.w), From(m.w), <<Cell("ports", <<port[2], port[1]>>)>> \o msgout))

(* udp_packet_len counts the ports twice: the last four bytes stay as they were *)
UdpOut(m) ==
    LET pl             == Pl(m.w)
        udp_packet_len == 2 + Len(pl)
    IN  Pass(m, "ip4_down", "udp",
             WrapDown(From(m.w), To(m.w), <<pl[1], Cell("length", udp_packet_len)>> \o Tail(pl) \o <<Cell("any", 0)>>))

(* The way out of the IP4 server, which Ip4Out has in full: it has found the *)
(* link layer addresses, and sends a packet that fits the MTU.               *)
Ip4Down(m) ==
    LET pl == Pl(m.w) IN
    Pass(m, "link", "ip4",
         WrapDown(Mac(From(m.w)[1][2]), Mac(To(m.w)[1][2]),
                  Ip4Packet(4, 0, 5 + Len(pl), 63, IF m.sender = "udp" THEN 17 ELSE 1, From(m.w), To(m.w), pl)))

Sends(s, m) ==
    CASE s = "ip4"      -> Ip4In(m)
      [] s = "icmp"     -> IcmpIn(m)
      [] s = "icmp_err" -> IcmpErr(m)
      [] s = "udp"      -> UdpIn(m)
      [] s = "ntp"      -> NtpIn(m)
      [] s = "udp_down" -> UdpOut(m)
      [] s = "ip4_down" -> Ip4Down(m)

-----------------------------------------------------------------------------
(* send_message, without blocking *)
Push(queue, ms) == IF Len(queue) + Cardinality(ms) <= Capacity THEN queue \o SetToSeq(ms) ELSE queue

For(s, sends) == {x[2] : x \in {y \in sends : y[1] = s}}

Refused(rest, sends) == {x[2].n : x \in {y \in sends : Len(rest[y[1]]) >= Capacity}}

Deliver(rest, sends) ==
    /\ q' = [s \in Queues |-> Push(rest[s], For(s, sends))]
    /\ lost' = lost \cup Refused(rest, sends)

(* A server takes the first message of its queue. *)
Handle(s) ==
    /\ q[s] # <<>>
    /\ \E sends \in {Sends(s, Head(q[s]))} : Deliver([q EXCEPT ![s] = Tail(@)], sends)
    /\ UNCHANGED <<frames, wire, up, dev>>

Arrive(m) ==
    /\ up
    /\ frames' = Append(frames, [flaws |-> m.flaws, data |-> m.w])
    /\ \E sends \in {LinkIn(m)} : Deliver(q, sends)
    /\ UNCHANGED <<wire, up, dev>>

(* an address is not found within the time there is for it *)
Ip4GivesUp ==
    /\ q["ip4_down"] # <<>>
    /\ q' = [q EXCEPT !["ip4_down"] = Tail(@)]
    /\ lost' = lost \cup {Head(q["ip4_down"]).n}
    /\ UNCHANGED <<frames, wire, up, dev>>

(* run_out checks the lengths of the addresses and that there is something *)
(* to send; the IP4 server is the sender that has a mapping to a type.     *)
Sendable(m) == Len(From(m.w)) = 1 /\ Len(To(m.w)) = 1 /\ Pl(m.w) # <<>> /\ m.sender = "ip4"

(* the frame that run_out makes of a message *)
Frame(m) == [n |-> m.n, data |-> To(m.w) \o From(m.w) \o <<Cell("type", 2048)>> \o Pl(m.w)]

(* run_out of the link layer *)
LinkOut ==
    /\ up /\ q["link"] # <<>>
    /\ q' = [q EXCEPT !["link"] = Tail(@)]
    /\ wire' = IF Sendable(Head(q["link"])) THEN Append(wire, Frame(Head(q["link"]))) ELSE wire
    /\ UNCHANGED <<frames, lost, up, dev>>

(* the device does not take the frame *)
Fails(kind) ==
    /\ up /\ dev = kind /\ q["link"] # <<>>
    /\ q' = [q EXCEPT !["link"] = Tail(@)]
    /\ lost' = lost \cup {Head(q["link"]).n}
    /\ UNCHANGED <<frames, wire, dev>>

(* the message is freed twice, after which the server may be gone *)
TapFails == Fails("tap") /\ up' \in BOOLEAN

(* it is only logged; this server never frees a message *)
PromiscFails == Fails("promisc") /\ UNCHANGED up

(* the number of flaws so far *)
Trouble == FoldSeq(LAMBDA m, n : n + Cardinality(m.flaws), 0, frames)

(* protocol, cells of data and of IP options, and MAC address: two pings,   *)
(* one of them broadcast, and NTP requests that are as long as they should  *)
(* be, or too short by two and by three                                     *)
Kinds == {<<1, 0, 0, Me>>, <<1, 2, 1, Group>>,
          <<17, NtpSize, 1, Me>>, <<17, NtpSize - 2, 0, Me>>, <<17, NtpSize - 3, 0, Me>>}

Next ==
    \/ /\ Len(frames) < MaxFrames /\ Len(frames) + Trouble < MaxTrouble
       /\ \E f \in FlawSets : Len(frames) + Trouble + Cardinality(f) < MaxTrouble /\ \E k \in Kinds :
             \E n \in {Len(frames) + 1} : \E w \in {Request(n, k[1], k[2], k[3], k[4], f)} :
                Arrive([n |-> n, flaws |-> f, sender |-> "", w |-> w])
    \/ \E s \in Queues \ {"link"} : Handle(s)
    \/ Ip4GivesUp
    \/ LinkOut
    \/ TapFails
    \/ PromiscFails

Spec == Init /\ [][Next]_vars

(* Each server is a thread that takes messages for ever. *)
FairSpec ==
    /\ Spec
    /\ \A s \in Queues \ {"ip4_down", "link"} : WF_vars(Handle(s))
    /\ WF_vars(Handle("ip4_down") \/ Ip4GivesUp)
    /\ WF_vars(LinkOut \/ TapFails \/ PromiscFails)

-----------------------------------------------------------------------------
(* Properties.                                                             *)

(* the packet of a frame, and what it carries *)
Packet(frame)   == SubSeq(frame, 4, Len(frame))
Carried(packet) == SubSeq(packet, packet[1][2].ihl + 1, packet[1][2].size)

IsUdp(packet)   == packet[3][2].protocol = 17
IsError(packet) == ~IsUdp(packet) /\ Carried(packet)[1] # Cell("icmp", <<0, 0>>)

(* What a service of the frame looks at, beyond the flaws of other services. *)
Relevant(f) ==
    f.flaws \ IF "ports" \in {c[1] : c \in Range(f.data)} THEN {"not_echo"} ELSE {"udp_length", "port", "mode"}

(* the flaw that an ICMP error reports *)
Reported(type) ==
    CASE type = <<12, 2>> -> {"header_size", "ip_size"}
      [] type = <<11, 0>> -> {"ttl"}
      [] type = <<3, 2>>  -> {"protocol"}
      [] type = <<3, 3>>  -> {"port"}

(* A frame gets one answer at most, an ICMP error or the answer of a         *)
(* service, whatever is wrong with it, and an answer fits what it answers.   *)
(* It goes back to the host that asked, from the address and port that was   *)
(* asked, and from the MAC address of this host even when the request was    *)
(* broadcast: the servers swap addresses in different places (ntp_server.cpp *)
(* "swapped as it is a reply", send_icmp_error), on the way out none does.   *)
(* An echo reply carries what the request did and none of the padding of its *)
(* frame; the answer to an NTP request of full size has its transmit time;   *)
(* an ICMP error names a flaw of the packet and quotes its whole header and  *)
(* 64 bits more, though run_err takes the length of the header from behind   *)
(* the payload it was sent.                                                  *)
AnswersMatch ==
    /\ \A i, j \in DOMAIN wire : i # j => wire[i].n # wire[j].n
    /\ \A i \in DOMAIN wire :
        LET f   == frames[wire[i].n].data
            req == Packet(f)
            ans == Packet(wire[i].data)
            c   == Carried(ans)
        IN  /\ wire[i].data[1] = f[2] /\ wire[i].data[2] = Cell("mac", Me)
            /\ ans[4] = req[5] /\ ans[5] = req[4]
            /\ IsError(ans) =>
                   /\ Reported(c[1][2]) \cap frames[wire[i].n].flaws # {}
                   /\ SubSeq(c, 3, Len(c)) = SubSeq(req, 1, Min({Len(req), req[1][2].ihl + 2}))
            /\ ~IsError(ans) /\ ~IsUdp(ans) => Tail(c) = Tail(Carried(req))
            /\ IsUdp(ans) =>
                   /\ c[1] = Cell("ports", <<Carried(req)[1][2][2], Carried(req)[1][2][1]>>)
                   /\ Len(Carried(req)) = 2 + NtpSize =>
                          {c[2 + k] : k \in Originate} = {Carried(req)[2 + k] : k \in Transmit}

(* A service answers only what passed every check on its way, and an ICMP    *)
(* error is sent only for an IP4 packet to this host.                        *)
OnlyGoodAnswered ==
    \A i \in DOMAIN wire : LET f == frames[wire[i].n] IN
        IF IsError(Packet(wire[i].data))
        THEN f.flaws \cap {"truncated", "mac", "type", "version", "dst"} = {}
        ELSE Relevant(f) = {}

Good(f) == Relevant(f) = {} /\ (IsUdp(Packet(f.data)) => Len(Carried(Packet(f.data))) = 2 + NtpSize)

(* A request with nothing wrong is answered, unless a queue was full, an     *)
(* address was not found or the link layer server is gone.                   *)
Answered ==
    \A n \in 1 .. MaxFrames :
        (n \in DOMAIN frames /\ (n \in DOMAIN frames => Good(frames[n])))
           ~> (~up \/ n \in lost \/ \E i \in DOMAIN wire : wire[i].n = n)
=============================================================================
