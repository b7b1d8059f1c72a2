---------------------------- MODULE Ip4OutProofs ----------------------------
(***************************************************************************)
(* The records of run_out in src/ip4_server.cpp, for any number of         *)
(* packets: two keys lead to one heap object, which th_sender or           *)
(* th_cleaner frees once.                                                  *)
(***************************************************************************)
EXTENDS Ip4Out, FiniteSetTheorems, TLAPS

AnyMac == Macs \cup {NoMac}

Packet ==
    [dst : Addresses, frags : Nat, mapped : BOOLEAN, from_nr : Nat, from : AnyMac, to_nr : Nat, to : AnyMac]

Objects == 1 .. Len(pm)

Types ==
    /\ msg_nr \in Nat /\ replies \in Seq([nr : Nat, mac : AnyMac])
    /\ pm \in Seq(Packet) /\ freed \in Seq(Nat) /\ Len(freed) = Len(pm)
    /\ pending \in [DOMAIN pending -> Objects]

(* No two packets share a number. *)
NumbersDiffer ==
    /\ \A o \in Objects : pm[o].from_nr \in 1 .. msg_nr /\ pm[o].to_nr \in 1 .. msg_nr /\ pm[o].from_nr # pm[o].to_nr
    /\ \A o, p \in Objects : o # p => Keys(o) \cap Keys(p) = {}

OwnRecords == \A k \in DOMAIN pending : k \in Keys(pending[k])

(* A packet has a record for each address that it misses, and it misses one; *)
(* a packet that was freed has none.                                         *)
Exact(o) ==
    \/ /\ freed[o] = 0
       /\ pm[o].from = NoMac <=> pm[o].from_nr \in DOMAIN pending
       /\ pm[o].to = NoMac <=> pm[o].to_nr \in DOMAIN pending
       /\ pm[o].from = NoMac \/ pm[o].to = NoMac
    \/ /\ freed[o] = 1
       /\ pm[o].from_nr \notin DOMAIN pending /\ pm[o].to_nr \notin DOMAIN pending

IInv == Types /\ NumbersDiffer /\ OwnRecords /\ \A o \in Objects : Exact(o)

LEMMA InitIInv == Init => IInv
  BY Ip4OutAssumption DEF Init, IInv, Types, NumbersDiffer, OwnRecords, Objects

(* A record leads to a packet that is not freed, and a number to one packet. *)
LEMMA RecordOf ==
    ASSUME IInv, NEW k \in DOMAIN pending
    PROVE  /\ pending[k] \in Objects /\ k \in Keys(pending[k]) /\ k \in Nat /\ freed[pending[k]] = 0
           /\ \A o \in Objects : k \in Keys(o) => o = pending[k]
<1>1. pending[k] \in Objects /\ k \in Keys(pending[k])
  BY DEF IInv, Types, OwnRecords
<1>2. k = pm[pending[k]].from_nr \/ k = pm[pending[k]].to_nr
  BY <1>1 DEF Keys
<1>3. Exact(pending[k])
  BY <1>1 DEF IInv
<1>4. freed[pending[k]] = 0
  BY <1>2, <1>3 DEF Exact
<1>5. k \in Nat
  BY <1>1, <1>2 DEF IInv, NumbersDiffer, Types
<1>6. \A o \in Objects : k \in Keys(o) => o = pending[k]
  BY <1>1 DEF IInv, NumbersDiffer
<1> QED
  BY <1>1, <1>4, <1>5, <1>6

(* A packet comes in. *)
LEMMA UpperStep ==
    ASSUME IInv, NEW to \in Addresses, NEW frags \in Nat, NEW mapped \in BOOLEAN,
           NEW ok \in SUBSET {msg_nr + 1, msg_nr + 2}, Upper(to, frags, mapped, ok)
    PROVE  IInv'
<1> DEFINE new == NewPending(to, frags, mapped)
<1> PICK n \in Nat : n = Len(pm) + 1
  BY DEF IInv, Types
<1>0. msg_nr \in Nat /\ msg_nr' = msg_nr + 2 /\ replies' = replies
  BY DEF IInv, Types, Upper
<1>1. CASE UNCHANGED <<pm, pending, freed>>
  <2>1. Types'
    BY <1>0, <1>1 DEF IInv, Types, Objects
  <2>2. NumbersDiffer'
    BY <1>0, <1>1 DEF IInv, NumbersDiffer, Objects, Keys
  <2>3. OwnRecords' /\ \A o \in Objects' : Exact(o)'
    BY <1>1 DEF IInv, OwnRecords, Exact, Objects, Keys
  <2> QED
    BY <2>1, <2>2, <2>3 DEF IInv
<1>2. CASE /\ pm' = Append(pm, new) /\ pending' = Insert({msg_nr + 1, msg_nr + 2}) /\ freed' = Append(freed, 0)
  <2>1. /\ new \in Packet /\ new.from_nr = msg_nr + 1 /\ new.to_nr = msg_nr + 2
        /\ new.from = NoMac /\ new.to = NoMac
    BY <1>0 DEF NewPending, Packet, AnyMac
  <2> HIDE DEF new
  <2>2. /\ pm' \in Seq(Packet) /\ Len(pm') = n /\ pm'[n] = new /\ \A o \in Objects : pm'[o] = pm[o]
    BY <1>2, <2>1 DEF IInv, Types, Objects
  <2>3. /\ freed' \in Seq(Nat) /\ Len(freed') = n /\ freed'[n] = 0 /\ \A o \in Objects : freed'[o] = freed[o]
    BY <1>2 DEF IInv, Types, Objects
  <2>4. Objects' = Objects \cup {n} /\ n \notin Objects /\ n \in Nat
    BY <2>2 DEF Objects, IInv, Types
  <2>5. /\ DOMAIN pending' = DOMAIN pending \cup {msg_nr + 1, msg_nr + 2}
        /\ pending'[msg_nr + 1] = n /\ pending'[msg_nr + 2] = n
        /\ \A k \in DOMAIN pending : k # msg_nr + 1 /\ k # msg_nr + 2 => pending'[k] = pending[k]
        /\ pending' = [k \in DOMAIN pending' |-> pending'[k]]
    BY <1>2 DEF Insert
  <2>6. \A k \in DOMAIN pending : k \in 1 .. msg_nr /\ pending[k] \in Objects
    BY RecordOf DEF IInv, NumbersDiffer, Keys
  <2>7. \A k \in DOMAIN pending : pending'[k] = pending[k]
    BY <1>0, <2>5, <2>6
  <2>8. Types'
    <3>1. \A k \in DOMAIN pending' : pending'[k] \in Objects'
      BY <2>4, <2>5, <2>6, <2>7
    <3> QED
      BY <1>0, <2>2, <2>3, <2>5, <3>1 DEF IInv, Types
  <2>9. (\A o \in Objects : Keys(o)' = Keys(o)) /\ Keys(n)' = {msg_nr + 1, msg_nr + 2}
    BY <2>1, <2>2 DEF Keys
  <2>10. NumbersDiffer'
    <3>1. \A o \in Objects' : pm'[o].from_nr \in 1 .. msg_nr' /\ pm'[o].to_nr \in 1 .. msg_nr' /\ pm'[o].from_nr # pm'[o].to_nr
      BY <1>0, <2>1, <2>2, <2>4 DEF IInv, NumbersDiffer
    <3>2. \A o \in Objects : Keys(o) \subseteq 1 .. msg_nr
      BY DEF IInv, NumbersDiffer, Keys
    <3>3. \A o \in Objects : Keys(o)' \cap Keys(n)' = {}
      BY <1>0, <2>9, <3>2
    <3>4. \A o, p \in Objects' : o # p => Keys(o)' \cap Keys(p)' = {}
      BY <2>4, <2>9, <3>3 DEF IInv, NumbersDiffer
    <3> QED
      BY <3>1, <3>4 DEF NumbersDiffer
  <2>11. OwnRecords'
    <3>1. \A k \in DOMAIN pending : k \in Keys(pending[k])
      BY DEF IInv, OwnRecords
    <3> QED
      BY <2>5, <2>6, <2>7, <2>9, <3>1 DEF OwnRecords
  <2>12. ASSUME NEW o \in Objects PROVE Exact(o)'
    <3>1. pm[o].from_nr \in 1 .. msg_nr /\ pm[o].to_nr \in 1 .. msg_nr
      BY DEF IInv, NumbersDiffer
    <3>2. /\ pm[o].from_nr \in DOMAIN pending' <=> pm[o].from_nr \in DOMAIN pending
          /\ pm[o].to_nr \in DOMAIN pending' <=> pm[o].to_nr \in DOMAIN pending
      BY <1>0, <2>5, <3>1
    <3> QED
      BY <2>2, <2>3, <3>2 DEF IInv, Exact
  <2>13. Exact(n)'
    BY <2>1, <2>2, <2>3, <2>5 DEF Exact
  <2> QED
    BY <2>4, <2>8, <2>10, <2>11, <2>12, <2>13 DEF IInv
<1> QED
  BY <1>1, <1>2 DEF Upper, Queue

(* One place of a sequence is given another value. *)
LEMMA OnePlace ==
    ASSUME NEW S, NEW s \in Seq(S), NEW i \in 1 .. Len(s), NEW e \in S
    PROVE  LET t == [s EXCEPT ![i] = e]
           IN  t \in Seq(S) /\ Len(t) = Len(s) /\ t[i] = e /\ \A q \in 1 .. Len(s) : q # i => t[q] = s[q]
  OBVIOUS

(* th_sender takes a reply. *)
LEMMA SenderStep ==
    ASSUME IInv, Sender
    PROVE  IInv'
<1> DEFINE R == [nr : Nat, mac : AnyMac]
<1>a. replies \in Seq(R) /\ replies # <<>> /\ replies' = Tail(replies) /\ msg_nr' = msg_nr
  BY DEF IInv, Types, Sender
<1> HIDE DEF R
<1>b. Head(replies) \in R /\ replies' \in Seq(R)
  BY <1>a
<1> USE DEF R
<1> PICK r \in R : r = Head(replies)
  BY <1>b
<1>0. msg_nr' = msg_nr /\ replies' \in Seq([nr : Nat, mac : AnyMac])
  BY <1>a, <1>b
<1>1. CASE r.nr \notin DOMAIN pending \/ r.mac = NoMac
  <2>1. UNCHANGED <<pm, pending, freed>>
    BY <1>1 DEF Sender
  <2> QED
    BY <1>0, <2>1 DEF IInv, Types, NumbersDiffer, OwnRecords, Exact, Objects, Keys
<1>2. CASE r.nr \in DOMAIN pending /\ r.mac # NoMac
  <2> PICK k : k = r.nr
    OBVIOUS
  <2> PICK o : o = pending[k]
    OBVIOUS
  <2>1. o \in Objects /\ k \in Keys(o) /\ freed[o] = 0 /\ \A q \in Objects : k \in Keys(q) => q = o
    BY <1>2, RecordOf
  <2> PICK p : p = Filled(pm[o], r)
    OBVIOUS
  <2>2. pm' = [pm EXCEPT ![o] = p] /\ UseReply(r, o, p)
    BY <1>2 DEF Sender
  <2>3. pm[o] \in Packet /\ o \in Nat /\ pm[o].from_nr # pm[o].to_nr /\ Exact(o)
    BY <2>1 DEF IInv, Types, NumbersDiffer, Objects
  <2>4. /\ p \in Packet /\ p.from_nr = pm[o].from_nr /\ p.to_nr = pm[o].to_nr
        /\ k = p.from_nr => p.from = r.mac /\ p.to = pm[o].to
        /\ k # p.from_nr => p.to = r.mac /\ p.from = pm[o].from
    BY <2>3 DEF Filled, Packet
  <2>5. /\ pm' \in Seq(Packet) /\ Len(pm') = Len(pm) /\ pm'[o] = p /\ \A q \in Objects : q # o => pm'[q] = pm[q]
        /\ Objects' = Objects
    <3>1. pm \in Seq(Packet) /\ o \in 1 .. Len(pm)
      BY <2>1 DEF IInv, Types, Objects
    <3>2. pm' = [pm EXCEPT ![o] = p] /\ p \in Packet
      BY <2>2, <2>4
    <3> HIDE DEF R
    <3>3. /\ pm' \in Seq(Packet) /\ Len(pm') = Len(pm) /\ pm'[o] = p
          /\ \A q \in 1 .. Len(pm) : q # o => pm'[q] = pm[q]
      BY <3>1, <3>2, OnePlace
    <3> QED
      BY <3>3 DEF Objects
  <2>6. /\ DOMAIN pending' = DOMAIN pending \ {k} /\ \A j \in DOMAIN pending' : pending'[j] = pending[j]
        /\ pending' = [j \in DOMAIN pending' |-> pending'[j]]
    BY <2>2 DEF UseReply, Without, Restrict
  <2>7. \A q \in Objects : Keys(q)' = Keys(q)
    BY <2>4, <2>5 DEF Keys
  <2>8. /\ freed' \in Seq(Nat) /\ Len(freed') = Len(freed) /\ \A q \in Objects : q # o => freed'[q] = freed[q]
        /\ freed'[o] = IF p.from = NoMac \/ p.to = NoMac THEN 0 ELSE 1
    <3>1. freed \in Seq(Nat) /\ o \in DOMAIN freed
      BY <2>1 DEF IInv, Types, Objects
    <3>2. CASE p.from = NoMac \/ p.to = NoMac
      BY <2>1, <2>2, <3>1, <3>2 DEF UseReply
    <3>3. CASE ~(p.from = NoMac \/ p.to = NoMac)
      <4>1. freed' = [freed EXCEPT ![o] = @ + 1]
        BY <2>2, <3>3 DEF UseReply
      <4> QED
        BY <2>1, <3>1, <3>3, <4>1 DEF IInv, Types, Objects
    <3> QED
      BY <3>2, <3>3
  <2>9. Types'
    BY <1>0, <2>5, <2>6, <2>8 DEF IInv, Types
  <2>10. NumbersDiffer'
    <3>1. \A q \in Objects : pm'[q].from_nr = pm[q].from_nr /\ pm'[q].to_nr = pm[q].to_nr
      BY <2>4, <2>5
    <3> QED
      BY <1>0, <2>5, <2>7, <3>1 DEF IInv, NumbersDiffer
  <2>11. OwnRecords'
    <3>1. \A j \in DOMAIN pending : pending[j] \in Objects /\ j \in Keys(pending[j])
      BY RecordOf
    <3> QED
      BY <2>6, <2>7, <3>1 DEF OwnRecords
  <2>12. ASSUME NEW q \in Objects, q # o PROVE Exact(q)'
    <3>1. k # pm[q].from_nr /\ k # pm[q].to_nr
      BY <2>1, <2>12 DEF Keys
    <3> QED
      BY <2>5, <2>6, <2>8, <2>12, <3>1 DEF IInv, Exact
  <2>13. Exact(o)'
    <3>1. k = p.from_nr \/ k = p.to_nr
      BY <2>1, <2>4 DEF Keys
    <3>2. CASE k = p.from_nr
      BY <1>2, <2>1, <2>3, <2>4, <2>5, <2>6, <2>8, <3>2 DEF Exact
    <3>3. CASE k # p.from_nr
      <4>1. k = p.to_nr /\ k \in DOMAIN pending
        BY <1>2, <3>1, <3>3
      <4>2. pm[o].to = NoMac /\ (pm[o].from = NoMac <=> p.from_nr \in DOMAIN pending)
        BY <2>1, <2>3, <2>4, <4>1 DEF Exact
      <4>3. p.to # NoMac /\ p.from = pm[o].from
        BY <1>2, <2>4, <3>3
      <4>4. p.from_nr \in DOMAIN pending' <=> p.from_nr \in DOMAIN pending
        BY <2>6, <3>3
      <4>5. p.to_nr \notin DOMAIN pending'
        BY <2>6, <4>1
      <4> QED
        BY <2>5, <2>8, <4>2, <4>3, <4>4, <4>5 DEF Exact
    <3> QED
      BY <3>2, <3>3
  <2> QED
    BY <2>5, <2>9, <2>10, <2>11, <2>12, <2>13 DEF IInv
<1> QED
  BY <1>1, <1>2

(* What th_cleaner frees is a packet up to "last" that is still there, once. *)
LEMMA FreeingOne ==
    ASSUME IInv, NEW last \in Nat, NEW o \in Objects
    PROVE  Cardinality(Freeing(o, last)) = IF o <= last /\ freed[o] = 0 THEN 1 ELSE 0
<1>0. o \in Nat /\ Exact(o) /\ \A k \in DOMAIN pending : k \in Nat
  BY RecordOf DEF IInv, Objects
<1>1. CASE ~(o <= last /\ freed[o] = 0)
  <2>1. \A k \in DOMAIN pending : pending[k] = o => freed[o] = 0
    BY RecordOf
  <2>2. Freeing(o, last) = {}
    BY <1>1, <2>1 DEF Freeing, Expired
  <2> QED
    BY <1>1, <2>2, FS_EmptySet
<1>2. CASE o <= last /\ freed[o] = 0
  <2>1. \A k \in DOMAIN pending : pending[k] = o <=> k \in Keys(o)
    BY RecordOf
  <2>2. pm[o].from_nr \in DOMAIN pending \/ pm[o].to_nr \in DOMAIN pending
    BY <1>0, <1>2 DEF Exact
  <2>3. PICK m \in DOMAIN pending \cap Keys(o) : \A k \in DOMAIN pending \cap Keys(o) : m <= k
    <3>1. pm[o].from_nr \in Nat /\ pm[o].to_nr \in Nat
      BY DEF IInv, NumbersDiffer
    <3> QED
      BY <2>2, <3>1 DEF Keys
  <2>4. \A j \in DOMAIN pending : \A k \in DOMAIN pending \cap Keys(o) : k \in Keys(pending[j]) => pending[j] = o
    BY RecordOf
  <2>5. m \in Freeing(o, last)
    <3>1. m \in Expired(last) /\ pending[m] = o
      BY <1>2, <2>1 DEF Expired
    <3>2. ASSUME NEW j \in Expired(last), j < m PROVE m \notin Keys(pending[j])
      BY <1>0, <2>1, <2>3, <2>4, <3>2 DEF Expired
    <3> QED
      BY <3>1, <3>2 DEF Freeing
  <2>6. ASSUME NEW k \in Freeing(o, last) PROVE k = m
    <3>1. k \in DOMAIN pending /\ pending[k] = o /\ k \in Keys(o)
      BY <2>1 DEF Freeing, Expired
    <3>2. m \in Expired(last) /\ pending[m] = o
      BY <1>2, <2>1 DEF Expired
    <3>3. ~(m < k)
      BY <3>1, <3>2 DEF Freeing
    <3> QED
      BY <1>0, <2>3, <3>1, <3>3
  <2>7. Freeing(o, last) = {m}
    BY <2>5, <2>6
  <2> QED
    BY <1>2, <2>7, FS_Singleton
<1> QED
  BY <1>1, <1>2

(* th_cleaner gives packets up. *)
LEMMA CleanerStep ==
    ASSUME IInv, NEW last \in Objects, Cleaner(last)
    PROVE  IInv'
<1> DEFINE gone == UNION {Keys(pending[k]) : k \in Expired(last)}
<1>0. /\ UNCHANGED <<msg_nr, replies, pm>> /\ last \in Nat /\ Objects' = Objects
      /\ \A o \in Objects : o \in Nat /\ Keys(o)' = Keys(o)
  BY DEF Cleaner, Objects, Keys
<1>1. /\ DOMAIN pending' = DOMAIN pending \ gone /\ \A k \in DOMAIN pending' : pending'[k] = pending[k]
      /\ pending' = [k \in DOMAIN pending' |-> pending'[k]]
  BY DEF Cleaner, Restrict
<1>2. ASSUME NEW o \in Objects, NEW k \in Keys(o), k \in DOMAIN pending
      PROVE  k \in DOMAIN pending' <=> ~(o <= last)
  <2>1. pending[k] = o
    BY <1>2, RecordOf
  <2>2. o <= last => k \in gone
    BY <1>2, <2>1 DEF Expired
  <2>3. ASSUME k \in gone PROVE o <= last
    <3>1. PICK j \in Expired(last) : k \in Keys(pending[j])
      BY <2>3
    <3>2. j \in DOMAIN pending /\ pending[j] <= last /\ pending[j] \in Objects
      BY RecordOf DEF Expired
    <3>3. pending[j] = o
      BY <1>2, <2>1, <3>1, <3>2, RecordOf
    <3> QED
      BY <3>2, <3>3
  <2> QED
    BY <1>1, <1>2, <2>2, <2>3
<1> HIDE DEF gone
<1>3. /\ freed' \in Seq(Nat) /\ Len(freed') = Len(freed)
      /\ \A o \in Objects : freed'[o] = IF o <= last /\ freed[o] = 0 THEN 1 ELSE freed[o]
  <2>1. freed \in Seq(Nat) /\ DOMAIN freed = Objects /\ \A o \in Objects : freed[o] \in Nat
    BY DEF IInv, Types, Objects
  <2>2. freed' = [o \in Objects |-> freed[o] + Cardinality(Freeing(o, last))]
    BY <2>1 DEF Cleaner
  <2>3. \A o \in Objects : freed'[o] = IF o <= last /\ freed[o] = 0 THEN 1 ELSE freed[o]
    BY <1>0, <2>1, <2>2, FreeingOne
  <2>4. Len(freed) \in Nat /\ Objects = 1 .. Len(freed)
    BY DEF IInv, Types, Objects
  <2>5. freed' = [o \in 1 .. Len(freed) |-> IF o <= last /\ freed[o] = 0 THEN 1 ELSE freed[o]]
    BY <2>2, <2>3, <2>4
  <2>6. freed' \in [1 .. Len(freed) -> Nat]
    BY <2>1, <2>4, <2>5
  <2> QED
    BY <2>3, <2>4, <2>6
<1>4. Types'
  <2>1. \A k \in DOMAIN pending' : pending'[k] \in Objects
    BY <1>1, RecordOf
  <2> QED
    BY <1>0, <1>1, <1>3, <2>1 DEF IInv, Types
<1>5. NumbersDiffer'
  BY <1>0 DEF IInv, NumbersDiffer
<1>6. OwnRecords'
  <2>1. \A k \in DOMAIN pending : pending[k] \in Objects /\ k \in Keys(pending[k])
    BY RecordOf
  <2> QED
    BY <1>0, <1>1, <2>1 DEF OwnRecords
<1>7. ASSUME NEW o \in Objects PROVE Exact(o)'
  <2>1. Exact(o) /\ freed[o] \in Nat /\ o \in Nat
    BY <1>0 DEF IInv, Types, Objects
  <2>2. \A k \in Keys(o) : k \in DOMAIN pending' <=> k \in DOMAIN pending /\ ~(o <= last)
    BY <1>1, <1>2
  <2>3. /\ pm[o].from_nr \in DOMAIN pending' <=> pm[o].from_nr \in DOMAIN pending /\ ~(o <= last)
        /\ pm[o].to_nr \in DOMAIN pending' <=> pm[o].to_nr \in DOMAIN pending /\ ~(o <= last)
    BY <2>2 DEF Keys
  <2>4. pm'[o] = pm[o] /\ freed'[o] = IF o <= last /\ freed[o] = 0 THEN 1 ELSE freed[o]
    BY <1>0, <1>3
  <2>5. CASE o <= last
    BY <2>1, <2>3, <2>4, <2>5 DEF Exact
  <2>6. CASE ~(o <= last)
    BY <2>1, <2>3, <2>4, <2>6 DEF Exact
  <2> QED
    BY <2>5, <2>6
<1> QED
  BY <1>0, <1>4, <1>5, <1>6, <1>7 DEF IInv

LEMMA NextIInv == IInv /\ [Next]_vars => IInv'
<1> SUFFICES ASSUME IInv, [Next]_vars PROVE IInv'
  OBVIOUS
<1>1. CASE UNCHANGED vars
  BY <1>1 DEF vars, IInv, Types, NumbersDiffer, OwnRecords, Exact, Objects, Keys
<1>2. ASSUME NEW to \in Addresses \ {Own}, NEW frags \in 1 .. MaxFrags, NEW mapped \in Mapped,
             NEW ok \in SUBSET {msg_nr + 1, msg_nr + 2}, Upper(to, frags, mapped, ok)
      PROVE  IInv'
  <2>1. to \in Addresses /\ frags \in Nat /\ mapped \in BOOLEAN
    BY Ip4OutAssumption
  <2> QED
    BY <1>2, <2>1, UpperStep
<1>3. CASE Sender
  BY <1>3, SenderStep
<1>4. ASSUME NEW last \in 1 .. Len(pm), Cleaner(last) PROVE IInv'
  BY <1>4, CleanerStep DEF Objects
<1>5. ASSUME NEW nr \in 0 .. msg_nr, NEW mac \in Macs \cup {NoMac}, AnyReply(nr, mac) PROVE IInv'
  <2>1. UNCHANGED <<msg_nr, pm, pending, freed>> /\ replies' = <<[nr |-> nr, mac |-> mac]>>
    BY <1>5 DEF AnyReply
  <2>2. replies' \in Seq([nr : Nat, mac : AnyMac])
    BY <2>1 DEF AnyMac, IInv, Types
  <2> QED
    BY <2>1, <2>2 DEF IInv, Types, NumbersDiffer, OwnRecords, Exact, Objects, Keys
<1> QED
  BY <1>1, <1>2, <1>3, <1>4, <1>5 DEF Next, RunOut

LEMMA Invariance == Spec => []IInv
  BY InitIInv, NextIInv, PTL DEF Spec

(* The queued_msg of a packet is freed at most once, however replies and     *)
(* time-outs follow each other (ip4_server.cpp:370, 516).                    *)
THEOREM FreedAtMostOnce == Spec => []FreedOnce
<1>1. IInv => FreedOnce
  BY DEF IInv, Types, Objects, Exact, FreedOnce
<1> QED
  BY <1>1, Invariance, PTL

(* pending_messages never leads to a packet that is gone, nor to one with    *)
(* other numbers (ip4_server.cpp:412-423).                                   *)
THEOREM RecordsAreLive == Spec => []RecordsLive
<1>1. IInv => RecordsLive
  BY RecordOf DEF RecordsLive
<1> QED
  BY <1>1, Invariance, PTL

(* A packet that waits for an address has a record for it, so that th_sender *)
(* can use the reply and th_cleaner can give it up.                          *)
THEOREM NoneForgotten == Spec => []NotForgotten
<1>1. IInv => NotForgotten
  BY DEF IInv, Types, Objects, Exact, NotForgotten
<1> QED
  BY <1>1, Invariance, PTL
=============================================================================
