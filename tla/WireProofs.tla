----------------------------- MODULE WireProofs -----------------------------
(***************************************************************************)
(* What Wrapping packs comes out again, whatever the lengths, and a        *)
(* checksum verifies.                                                      *)
(***************************************************************************)
EXTENDS Wrapping, SequenceTheorems, TLAPS

(* A stretch that holds a piece, read, is that piece. *)
LEMMA ReadPiece ==
    ASSUME NEW S, NEW s \in Seq(S), NEW b \in Seq(S), NEW at \in Nat, at + Len(b) <= Len(s),
           \A i \in 1 .. Len(b) : s[at + i] = b[i]
    PROVE  SubSeq(s, at + 1, at + Len(b)) = b
<1> DEFINE m == SubSeq(s, at + 1, at + Len(b))
<1>1. m \in Seq(S) /\ Len(m) = Len(b)
  OBVIOUS
<1>2. \A i \in 1 .. Len(b) : m[i] = b[i]
  OBVIOUS
<1> QED
  BY <1>1, <1>2

(* The data of w is four pieces. *)
Pieces(S, a, b, c, d, w) ==
    /\ a \in Seq(S) /\ b \in Seq(S) /\ c \in Seq(S) /\ d \in Seq(S)
    /\ w.data = a \o b \o c \o d

ReadOneByOne(a, b, c, d, w) ==
    /\ Read(w, 0, Len(a)) = a
    /\ Read(w, Len(a), Len(b)) = b
    /\ Read(w, Len(a) + Len(b), Len(c)) = c
    /\ Read(w, Len(a) + Len(b) + Len(c), Len(d)) = d

(* Four pieces, read one by one. *)
LEMMA ReadPieces ==
    ASSUME NEW S, NEW a, NEW b, NEW c, NEW d, NEW w, Pieces(S, a, b, c, d, w)
    PROVE  ReadOneByOne(a, b, c, d, w)
<1> USE DEF Pieces
<1> DEFINE s == a \o b \o c \o d
<1>1. s \in Seq(S) /\ Len(s) = Len(a) + Len(b) + Len(c) + Len(d)
  OBVIOUS
<1>2. Len(a) \in Nat /\ Len(b) \in Nat /\ Len(c) \in Nat /\ Len(d) \in Nat
  OBVIOUS
<1>3. \A i \in 1 .. Len(a) : s[0 + i] = a[i]
  OBVIOUS
<1>4. \A i \in 1 .. Len(b) : s[Len(a) + i] = b[i]
  OBVIOUS
<1>5. \A i \in 1 .. Len(c) : s[Len(a) + Len(b) + i] = c[i]
  OBVIOUS
<1>6. \A i \in 1 .. Len(d) : s[Len(a) + Len(b) + Len(c) + i] = d[i]
  OBVIOUS
<1> w.data = s
  OBVIOUS
<1> a \in Seq(S) /\ b \in Seq(S) /\ c \in Seq(S) /\ d \in Seq(S)
  OBVIOUS
<1> HIDE DEF s, Pieces
<1>7. Read(w, 0, Len(a)) = a
  <2>1. 0 \in Nat /\ 0 + Len(a) <= Len(s)
    BY <1>1, <1>2
  <2>2. SubSeq(s, 0 + 1, 0 + Len(a)) = a
    BY <1>1, <1>3, <2>1, ReadPiece, Zenon
  <2> QED
    BY <2>2 DEF Read
<1>8. Read(w, Len(a), Len(b)) = b
  <2>1. Len(a) \in Nat /\ Len(a) + Len(b) <= Len(s)
    BY <1>1, <1>2
  <2>2. SubSeq(s, Len(a) + 1, Len(a) + Len(b)) = b
    BY <1>1, <1>4, <2>1, ReadPiece, Zenon
  <2> QED
    BY <2>2 DEF Read
<1>9. Read(w, (Len(a) + Len(b)), Len(c)) = c
  <2>1. (Len(a) + Len(b)) \in Nat /\ (Len(a) + Len(b)) + Len(c) <= Len(s)
    BY <1>1, <1>2
  <2>2. SubSeq(s, (Len(a) + Len(b)) + 1, (Len(a) + Len(b)) + Len(c)) = c
    BY <1>1, <1>5, <2>1, ReadPiece, Zenon
  <2> QED
    BY <2>2 DEF Read
<1>10. Read(w, (Len(a) + Len(b) + Len(c)), Len(d)) = d
  <2>1. (Len(a) + Len(b) + Len(c)) \in Nat /\ (Len(a) + Len(b) + Len(c)) + Len(d) <= Len(s)
    BY <1>1, <1>2
  <2>2. SubSeq(s, (Len(a) + Len(b) + Len(c)) + 1, (Len(a) + Len(b) + Len(c)) + Len(d)) = d
    BY <1>1, <1>6, <2>1, ReadPiece, Zenon
  <2> QED
    BY <2>2 DEF Read
<1> QED
  BY <1>7, <1>8, <1>9, <1>10 DEF ReadOneByOne

(* unwrap_message_up gives back what wrap_message_up was given, for          *)
(* addresses, payload and packet of any length.                              *)
THEOREM UnwrapsUp ==
    ASSUME NEW S, NEW full \in Seq(S), NEW from \in Seq(S), NEW to \in Seq(S), NEW pl \in Seq(S),
           NEW w, w = WrapUp(full, from, to, pl)
    PROVE  IsUp(w) /\ From(w) = from /\ To(w) = to /\ Pl(w) = pl /\ FullPkt(w) = full
<1>1. /\ w.data = from \o to \o pl \o full /\ w.from_len = Len(from) /\ w.to_len = Len(to)
      /\ w.pl_len = Len(pl) /\ w.full_pkt_len = Len(full) /\ w.type = "0xdeadbeef"
  BY DEF WrapUp
<1>2. ReadOneByOne(from, to, pl, full, w)
  <2>1. Pieces(S, from, to, pl, full, w)
    BY <1>1, Zenon DEF Pieces
  <2> QED
    BY <2>1, ReadPieces, Zenon
<1> QED
  BY <1>1, <1>2 DEF IsUp, From, To, Pl, FullPkt, PlAt, ReadOneByOne

(* unwrap_message_down gives back what wrap_message_down was given. *)
THEOREM UnwrapsDown ==
    ASSUME NEW S, NEW from \in Seq(S), NEW to \in Seq(S), NEW pl \in Seq(S),
           NEW w, w = WrapDown(from, to, pl)
    PROVE  IsDown(w) /\ From(w) = from /\ To(w) = to /\ Pl(w) = pl
<1>1. /\ w.data = from \o to \o pl /\ w.from_len = Len(from) /\ w.to_len = Len(to)
      /\ w.pl_len = Len(pl) /\ w.type = "0xbeefdead"
  BY DEF WrapDown
<1>2. Pieces(S, from, to, pl, <<>>, w)
  <2>1. from \o to \o pl \in Seq(S) /\ <<>> \in Seq(S)
    OBVIOUS
  <2>2. w.data = from \o to \o pl \o <<>>
    BY <1>1, <2>1, ConcatEmptySeq
  <2> QED
    BY <2>1, <2>2, Zenon DEF Pieces
<1>3. ReadOneByOne(from, to, pl, <<>>, w)
  BY <1>2, ReadPieces, Zenon
<1> QED
  BY <1>1, <1>3 DEF IsDown, From, To, Pl, PlAt, ReadOneByOne

(* unwrap_message_up_tcp gives back what wrap_message_up_tcp was given. *)
THEOREM UnwrapsUpTcp ==
    ASSUME NEW S, NEW from \in Seq(S), NEW to \in Seq(S), NEW pl \in Seq(S),
           NEW id, NEW from_port, NEW to_port, NEW flags,
           NEW w, w = WrapUpTcp(id, from, from_port, to, to_port, flags, pl)
    PROVE  /\ IsUp(w) /\ From(w) = from /\ To(w) = to /\ Pl(w) = pl
           /\ w.session_id = id /\ w.from_port = from_port /\ w.to_port = to_port /\ w.flags = flags
<1>1. /\ w.data = from \o to \o pl /\ w.from_len = Len(from) /\ w.to_len = Len(to)
      /\ w.pl_len = Len(pl) /\ w.type = "0xdeadbeef"
      /\ w.session_id = id /\ w.from_port = from_port /\ w.to_port = to_port /\ w.flags = flags
  BY DEF WrapUpTcp
<1>2. Pieces(S, from, to, pl, <<>>, w)
  <2>1. from \o to \o pl \in Seq(S) /\ <<>> \in Seq(S)
    OBVIOUS
  <2>2. w.data = from \o to \o pl \o <<>>
    BY <1>1, <2>1, ConcatEmptySeq
  <2> QED
    BY <2>1, <2>2, Zenon DEF Pieces
<1>3. ReadOneByOne(from, to, pl, <<>>, w)
  BY <1>2, ReadPieces, Zenon
<1> QED
  BY <1>1, <1>3 DEF IsUp, From, To, Pl, PlAt, ReadOneByOne

(* icmp_server.cpp run_err reads the length of the IP header at pl[2], one   *)
(* past a payload of two bytes: that is the first byte of the packet.        *)
THEOREM ReadsOnIntoPacket ==
    ASSUME NEW S, NEW full \in Seq(S), NEW from \in Seq(S), NEW to \in Seq(S), NEW pl \in Seq(S),
           NEW n \in 0 .. Len(full), NEW w, w = WrapUp(full, from, to, pl)
    PROVE  Read(w, PlAt(w) + w.pl_len, n) = SubSeq(full, 1, n)
<1> DEFINE a == from \o to \o pl
<1>1. /\ w.data = a \o full /\ w.from_len = Len(from) /\ w.to_len = Len(to) /\ w.pl_len = Len(pl)
  BY DEF WrapUp
<1>2. a \in Seq(S) /\ Len(a) = (Len(from) + Len(to)) + Len(pl)
  <2>1. from \o to \in Seq(S) /\ Len(from \o to) = Len(from) + Len(to)
    OBVIOUS
  <2> QED
    BY <2>1
<1> HIDE DEF a
<1>3. SubSeq(a \o full, Len(a) + 1, Len(a) + n) = SubSeq(full, 1, n)
  <2> DEFINE m == SubSeq(a \o full, Len(a) + 1, Len(a) + n)
             f == SubSeq(full, 1, n)
  <2>1. m \in Seq(S) /\ Len(m) = n /\ f \in Seq(S) /\ Len(f) = n
    BY <1>2
  <2>2. \A i \in 1 .. n : m[i] = f[i]
    BY <1>2
  <2> QED
    BY <2>1, <2>2
<1>4. PlAt(w) + w.pl_len = Len(a)
  BY <1>1, <1>2 DEF PlAt
<1>5. Read(w, Len(a), n) = SubSeq(full, 1, n)
  BY <1>1, <1>3, Zenon DEF Read
<1> QED
  BY <1>4, <1>5, Zenon

LEMMA DivMod ==
    ASSUME NEW n \in Nat, NEW q \in Nat, NEW r \in Nat, r < Word, n = Word * q + r
    PROVE  n \div Word = q /\ n % Word = r
  BY SMT DEF Word

LEMMA DivModOf ==
    ASSUME NEW n \in Nat
    PROVE  n \div Word \in Nat /\ n % Word \in Nat /\ n % Word < Word /\ n = Word * (n \div Word) + (n % Word)
  BY SMT DEF Word

LEMMA ModSmall ==
    ASSUME NEW n \in Nat, n < Word * Word
    PROVE  n % (Word * Word) = n
  BY SMT DEF Word

(* The fold of a sum that is written as Word * q + r. *)
LEMMA ChecksumOf ==
    ASSUME NEW n \in Nat, NEW q \in Nat, NEW r \in Nat, q < Word, r < Word, n = Word * q + r
    PROVE  /\ q + r < Word => Checksum(n) = (Word - 1) - (q + r)
           /\ q + r >= Word => Checksum(n) = (Word - 1) - (q + r + 1 - Word)
<1>1. n < Word * Word
  BY SMT DEF Word
<1>2. Fold16(n % (Word * Word)) = q + r
  BY <1>1, ModSmall, DivMod, SMT DEF Fold16
<1>3. ASSUME q + r < Word PROVE Checksum(n) = (Word - 1) - (q + r)
  <2>1. (q + r) \div Word = 0 /\ (q + r) % Word = q + r
    BY <1>3, SMT DEF Word
  <2> QED
    BY <1>2, <2>1, SMT DEF Checksum
<1>4. ASSUME q + r >= Word PROVE Checksum(n) = (Word - 1) - (q + r + 1 - Word)
  <2>1. (q + r) \div Word = 1 /\ (q + r + 1) % Word = q + r + 1 - Word
    BY <1>4, SMT DEF Word
  <2> QED
    BY <1>2, <2>1, SMT DEF Checksum
<1> QED
  BY <1>3, <1>4, SMT

(* Two foldings are enough: with its checksum filled in, a packet of up to   *)
(* 65536 words sums up to a checksum of zero, which is what the receiving    *)
(* side compares with.  "sum" is that of the words while the field is zero.  *)
THEOREM ChecksumVerifies ==
    ASSUME NEW sum \in Nat, sum <= (Word - 1) * Word
    PROVE  /\ Checksum(sum) \in Nat /\ Checksum(sum) < Word
           /\ Checksum(sum + Checksum(sum)) = 0
<1> DEFINE q == sum \div Word
           r == sum % Word
<1>1. q \in Nat /\ r \in Nat /\ r < Word /\ sum = Word * q + r
  BY DivModOf, SMT
<1> HIDE DEF q, r
<1>2. q < Word
  BY <1>1, SMT DEF Word
<1>3. CASE q + r < Word
  <2>1. Checksum(sum) = (Word - 1) - (q + r)
    BY <1>1, <1>2, <1>3, ChecksumOf, SMT
  <2>2. sum + Checksum(sum) = Word * q + (Word - 1 - q)
    BY <1>1, <2>1, SMT DEF Word
  <2>3. sum + Checksum(sum) \in Nat /\ Word - 1 - q \in Nat /\ Word - 1 - q < Word
    BY <1>1, <1>2, <1>3, <2>1, SMT DEF Word
  <2>4. Checksum(sum + Checksum(sum)) = 0
    BY <1>1, <1>2, <2>2, <2>3, ChecksumOf, SMT DEF Word
  <2> QED
    BY <1>1, <1>3, <2>1, <2>4, SMT DEF Word
<1>4. CASE q + r >= Word
  <2>1. Checksum(sum) = (Word - 1) - (q + r + 1 - Word)
    BY <1>1, <1>2, <1>4, ChecksumOf, SMT
  <2>0. q + 1 < Word
    BY <1>1, <1>2, <1>4, SMT DEF Word
  <2>2. sum + Checksum(sum) = Word * (q + 1) + (Word - 2 - q)
    BY <1>1, <2>1, SMT DEF Word
  <2>3. /\ sum + Checksum(sum) \in Nat /\ Word - 2 - q \in Nat /\ Word - 2 - q < Word
        /\ q + 1 \in Nat /\ (q + 1) + (Word - 2 - q) = Word - 1
    BY <1>1, <2>0, <2>2, SMT DEF Word
  <2>4. Checksum(sum + Checksum(sum)) = 0
    BY <2>0, <2>2, <2>3, ChecksumOf, SMT DEF Word
  <2> QED
    BY <1>1, <1>2, <1>4, <2>1, <2>4, SMT DEF Word
<1> QED
  BY <1>1, <1>3, <1>4, SMT DEF Word
=============================================================================
