------------------------------- MODULE Ip4Frag ------------------------------
(***************************************************************************)
(* Fragments: how th_sender of src/ip4_server.cpp cuts a payload up, and   *)
(* how run_in of another such host puts it together, with a network        *)
(* between them that reorders, repeats and loses.                          *)
(*                                                                         *)
(* Unit stands for the 8 bytes in which an offset is counted, Room for the *)
(* MTU less the IP header.  The payload of packet p has the bytes 0, 1, ...*)
(* and Garbage is what malloc'ed memory has before it is written.          *)
(***************************************************************************)
EXTENDS Integers, Sequences, SequencesExt, FiniteSets

CONSTANTS
    Unit, Room,
    Ids,         \* packet ids; random in the code, and different here
    Lengths,     \* of payloads
    MaxCopies    \* bound on how often a fragment comes in

Garbage == -1

VARIABLES
    length,     \* id -> length of its payload, 0 when not sent
    net,        \* fragments on the network: a set of [id, offset, more, data]
    copies,     \* fragment -> how often it came in
    packets,    \* run_in: id -> record of what came in, or Nothing
    out,        \* payloads for the upper server: sequence of [id, data]
    repeated    \* ids of which a fragment came in twice, or was forgotten

vars == <<length, net, copies, packets, out, repeated>>

Nothing == [len |-> 0, data |-> <<>>, full_size_known |-> FALSE, fragments |-> <<>>]

Init ==
    /\ length = [id \in Ids |-> 0] /\ net = {} /\ copies = <<>>
    /\ packets = [id \in Ids |-> Nothing] /\ out = <<>> /\ repeated = {}

-----------------------------------------------------------------------------
(* & ~7 *)
UseMtuSize == Room - (Room % Unit)

Smallest(a, b) == IF a < b THEN a ELSE b

(* the offset field counts in units, so the division cuts off the rest *)
Fragment(id, from, pl_len) ==
    LET size == Smallest(UseMtuSize, pl_len - from)
    IN  [id |-> id, offset |-> from \div Unit, more |-> from + size < pl_len,
         data |-> [i \in 1 .. size |-> from + i - 1]]

Offsets(pl_len) == {from \in 0 .. pl_len - 1 : from % UseMtuSize = 0}

(* The fragments up to the first that the link layer's queue refuses. *)
Send(id, pl_len, stop) ==
    /\ length[id] = 0
    /\ length' = [length EXCEPT ![id] = pl_len]
    /\ net' = net \cup {Fragment(id, from, pl_len) : from \in {f \in Offsets(pl_len) : f < stop}}
    /\ UNCHANGED <<copies, packets, out, repeated>>

-----------------------------------------------------------------------------
(* realloc and memcpy: bytes from place "offset" on *)
Write(p, offset, data) ==
    LET end == offset + Len(data)
        len == IF end > p.len THEN end ELSE p.len
    IN  [p EXCEPT !.len = len,
                  !.data = [i \in 1 .. len |->
                     CASE i > offset /\ i <= end -> data[i - offset]
                       [] i <= p.len /\ ~(i > offset /\ i <= end) -> p.data[i]
                       [] OTHER -> Garbage]]

Store(p, f) ==
    LET offset == f.offset * Unit IN
    [Write(p, offset, f.data) EXCEPT
        !.fragments = Append(@, [first |-> offset, second |-> Len(f.data)]),
        !.full_size_known = @ \/ ~f.more]

IsCompleteUnchecked(p) ==
    p.full_size_known /\ \E i \in DOMAIN p.fragments : p.fragments[i].first = 0

(* sorted by offset, each starts where the one before it ends *)
IsComplete(p) ==
    LET sorted == SortSeq(p.fragments, LAMBDA a, b : a.first < b.first) IN
    /\ p.full_size_known
    /\ \A i \in DOMAIN sorted :
          sorted[i].first = IF i = 1 THEN 0 ELSE sorted[i - 1].first + sorted[i - 1].second

(* the upper server's queue may be full *)
Forward(id, data) == \E ok \in BOOLEAN : out' = IF ok THEN Append(out, [id |-> id, data |-> data]) ELSE out

InWhole(f) ==
    /\ f.offset = 0 /\ ~f.more
    /\ Forward(f.id, f.data)
    /\ UNCHANGED <<packets, repeated>>

InFragmentKeeps(f) ==
    /\ f.offset > 0 \/ f.more
    /\ LET p == Store(packets[f.id], f) IN
       /\ packets' = [packets EXCEPT ![f.id] = p]
       /\ IF IsComplete(p) THEN Forward(f.id, p.data) ELSE UNCHANGED out
    /\ repeated' = repeated \cup (IF f \in DOMAIN copies THEN {f.id} ELSE {})

InFragment(f) ==
    /\ f.offset > 0 \/ f.more
    /\ LET p == Store(packets[f.id], f) IN
       IF IsComplete(p)
          THEN Forward(f.id, p.data) /\ packets' = [packets EXCEPT ![f.id] = Nothing]
          ELSE UNCHANGED out /\ packets' = [packets EXCEPT ![f.id] = p]
    /\ repeated' = repeated \cup (IF f \in DOMAIN copies THEN {f.id} ELSE {})

Count(f) == IF f \in DOMAIN copies THEN copies[f] ELSE 0

(* a fragment comes in, not always for the first time *)
Receive(f) ==
    /\ Count(f) < MaxCopies
    /\ copies' = [g \in DOMAIN copies \cup {f} |-> IF g = f THEN Count(f) + 1 ELSE copies[g]]
    /\ InWhole(f) \/ InFragment(f)
    /\ UNCHANGED <<length, net>>

(* th_cleaner *)
Cleaner(id) ==
    /\ packets[id] # Nothing
    /\ packets' = [packets EXCEPT ![id] = Nothing]
    /\ repeated' = repeated \cup {id}
    /\ UNCHANGED <<length, net, copies, out>>

Next ==
    \/ \E id \in Ids, pl_len \in Lengths : \E stop \in 1 .. pl_len : Send(id, pl_len, stop)
    \/ \E f \in net : Receive(f)
    \/ \E id \in Ids : Cleaner(id)

Spec == Init /\ [][Next]_vars

-----------------------------------------------------------------------------
(* Properties.                                                             *)

Payload(id) == [i \in 1 .. length[id] |-> i - 1]

(* What is given to the upper server is the payload that was sent, whole and *)
(* without a byte of memory that was never written, in whatever order the    *)
(* fragments came in, were repeated or were lost.                            *)
DeliveredWhole == \A i \in DOMAIN out : out[i].data = Payload(out[i].id)

AllArrived(id) ==
    \A from \in Offsets(length[id]) : Fragment(id, from, length[id]) \in DOMAIN copies

(* Of a packet whose fragments came in once each, in any order, and were not *)
(* forgotten, nothing stays behind in "packets" once all are there.          *)
NothingLeftBehind ==
    \A id \in Ids \ repeated : length[id] > 0 /\ AllArrived(id) => packets[id] = Nothing
=============================================================================
