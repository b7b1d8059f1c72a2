------------------------------ MODULE Wrapping ------------------------------
(***************************************************************************)
(* How servers pack what they pass on (src/utils/shm_message.cpp): up the  *)
(* stack two addresses, a payload and the packet it came in, down the      *)
(* stack two addresses and a payload, to and from the L7 servers a session *)
(* with ports, flags and a payload.  Unwrapping gives pointers into the    *)
(* message: who reads on past the end of the payload reads what follows.   *)
(* And the checksum of src/utils/checksum.cpp.                             *)
(***************************************************************************)
EXTENDS Integers, Sequences

WrapUp(full_pkt, from, to, pl) ==
    [type |-> "0xdeadbeef", full_pkt_len |-> Len(full_pkt), from_len |-> Len(from), to_len |-> Len(to),
     pl_len |-> Len(pl), data |-> from \o to \o pl \o full_pkt]

WrapDown(from, to, pl) ==
    [type |-> "0xbeefdead", from_len |-> Len(from), to_len |-> Len(to), pl_len |-> Len(pl),
     data |-> from \o to \o pl]

WrapUpTcp(session_id, from, from_port, to, to_port, flags, pl) ==
    [type |-> "0xdeadbeef", session_id |-> session_id, from_port |-> from_port, to_port |-> to_port,
     flags |-> flags, from_len |-> Len(from), to_len |-> Len(to), pl_len |-> Len(pl),
     data |-> from \o to \o pl]

(* n elements from data[at] on *)
Read(w, at, n) == SubSeq(w.data, at + 1, at + n)

From(w)    == Read(w, 0, w.from_len)
To(w)      == Read(w, w.from_len, w.to_len)
PlAt(w)    == w.from_len + w.to_len
Pl(w)      == Read(w, PlAt(w), w.pl_len)
FullPkt(w) == Read(w, PlAt(w) + w.pl_len, w.full_pkt_len)

(* assert(p->type == ...) *)
IsUp(w)   == w.type = "0xdeadbeef"
IsDown(w) == w.type = "0xbeefdead"

-----------------------------------------------------------------------------
(* The end of ip_checksum and tcp_udp_checksum: cksum is the sum of 16-bit *)
(* words in 32 bits.                                                       *)
Word == 256 * 256

Fold16(cksum) == (cksum \div Word) + (cksum % Word)

Checksum(cksum) ==
    LET once  == Fold16(cksum % (Word * Word))
        twice == once + (once \div Word)
    IN  (Word - 1) - (twice % Word)
=============================================================================
