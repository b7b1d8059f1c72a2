----------------------------- MODULE TcpServer ------------------------------
(***************************************************************************)
(* The TCP server (src/tcp_server.cpp), for one session id: the threads    *)
(* run_in, run_out with its sender, run_meta and run_clean, which share    *)
(* the session map under sessions_lock.                                    *)
(*                                                                         *)
(* run_in works under the shared lock and the others under the unique one, *)
(* so a packet is handled in one step, except where run_in lets go of the  *)
(* lock: to insert a new session, and in the quick release.  What arrives  *)
(* is any segment of the scenario's set Segments; what is sent in a step is *)
(* left in "out".  A byte from the peer is named by its sequence number, a *)
(* byte from the L7 server by its place in what that server wrote.         *)
(* Sequence numbers are those of the code, modulo Modulus and with its      *)
(* plain comparisons.  The sends of a step that find their queue full are  *)
(* the set "full"; MayFail holds such sets, in an instance.                *)
(*                                                                         *)
(* run_clean leaves a session that ended alone for TCP_WAIT_FIN, but takes *)
(* the time before it waits for the lock, and the difference is unsigned   *)
(* (lines 1087-1094): a packet handled meanwhile makes it huge.  So the    *)
(* wait is no guarantee, and a session may be removed as soon as it ended. *)
(***************************************************************************)
EXTENDS Integers, Sequences, SequencesExt

CONSTANTS
    Modulus,      \* 2^32 in the code
    Mss,          \* bytes per segment
    Scenarios,    \* what may surround the server
    MaxRefused,   \* bound on the CLOSEs of a session that a full queue refuses
    NoSession, NoSegment

Sends    == {"open", "data", "ack", "fin", "synack", "reply", "close", "seg"}
Flags    == {"syn", "ack", "rst", "fin"}
SeqNr    == 0 .. Modulus - 1

ASSUME TcpAssumption ==
    /\ Modulus \in Nat \ {0} /\ Mss \in Nat \ {0} /\ MaxRefused \in Nat
    /\ \A n \in Scenarios :
         /\ n.mapped \in BOOLEAN
         /\ n.cookies \in Seq(SeqNr) /\ n.cookies # <<>>
         /\ n.segments \subseteq [flags : SUBSET Flags, seq : SeqNr, ack : SeqNr, len : Nat]
         /\ n.mayFail \subseteq SUBSET Sends /\ n.isns \subseteq SeqNr
         /\ n.maxSessions \in Nat /\ n.maxBytes \in Nat

VARIABLES
    net,         \* the scenario of this behaviour
    slot,        \* of time(nullptr) >> 6
    sess,        \* sessions[session_id], or NoSession
    rx,          \* run_in: "idle", or where it is without the lock
    rx_seg,      \* the segment, and the session run_in held on to
    rx_session,
    meta,        \* run_meta's new_session, until it is in the map
    clean_list,  \* the session that run_clean found (its nr), or 0
    out,         \* segments sent to the IP server in the last step
    l7,          \* what the L7 server was told: "none", "open", "closed"
    delivered,   \* bytes passed to it while open
    refused,     \* number of CLOSEs that its queue refused
    written,     \* number of bytes it wrote before its FIN was sent, and whether it ended
    l7_fin,
    created,     \* number of sessions made
    dropped,     \* run_out found no session for what the L7 server wrote
    issued,      \* SYN cookies sent
    stale,       \* run_clean removed a session other than the one it found
    unsent,      \* the last segment of the sender was refused, and counted as sent
    freed_twice

locked  == <<sess, rx, rx_seg, rx_session, meta, clean_list>>
upper   == <<l7, delivered, refused, written, l7_fin>>
history == <<created, dropped, issued, stale, unsent, freed_twice>>
vars    == <<net, slot, sess, rx, rx_seg, rx_session, meta, clean_list, out,
             l7, delivered, refused, written, l7_fin, created, dropped, issued,
             stale, unsent, freed_twice>>

Init ==
    /\ net \in Scenarios /\ slot = 1
    /\ sess = NoSession /\ meta = NoSession /\ clean_list = 0
    /\ rx = "idle" /\ rx_seg = NoSegment /\ rx_session = NoSession
    /\ out = {}
    /\ l7 = "none" /\ delivered = <<>> /\ refused = 0 /\ written = 0 /\ l7_fin = FALSE
    /\ created = 0 /\ dropped = FALSE /\ issued = {} /\ stale = FALSE
    /\ unsent = FALSE /\ freed_twice = FALSE

(* mappings_in knows the destination port *)
mapped == net.mapped

Cookies     == net.cookies      \* the SYN cookies of the 64-second slots
Segments    == net.segments     \* segments that may arrive, any number of times
MayFail     == net.mayFail      \* sets of sends that may find a full queue in one step
ISNs        == net.isns         \* initial sequence numbers of sessions that run_meta opens
MaxSessions == net.maxSessions  \* bound on the number of sessions created
MaxBytes    == net.maxBytes     \* bound on what the L7 server writes in a session

Plus(a, b) == (a + b) % Modulus

NewSession(client, state, local_seq, peer_seq) ==
    [client |-> client, state |-> state, local_seq |-> local_seq, peer_seq |-> peer_seq,
     first_local |-> local_seq, first_peer |-> peer_seq,
     l7_to_tcp |-> <<>>, in_flight |-> 0, l7_send_fin |-> FALSE, fin_sent |-> FALSE,
     half_closed |-> FALSE, nr |-> created + 1]

Segment(flags, seq, ack, pl) == [flags |-> flags, seq |-> seq, ack |-> ack, pl |-> pl]
AckOf(s, n) == Segment({"ack"}, s.local_seq, Plus(s.peer_seq, n), <<>>)
SynCookie(g) == Segment({"syn", "ack"}, Cookies[slot], Plus(g.seq, 1), <<>>)

-----------------------------------------------------------------------------
(* run_in, stage by stage, on a record of its local variables.             *)

Start == [s |-> sess, out |-> {}, bytes |-> <<>>, close |-> FALSE,
          invalid |-> FALSE, with_rst |-> TRUE, inc_ack |-> 0, clean |-> FALSE, acked |-> FALSE]

Forget(buffer, n) == SubSeq(buffer, n + 1, Len(buffer))

AckStageTrusting(s, g) ==
    LET n == (g.ack - s.local_seq) % Modulus IN
    IF g.ack >= s.local_seq
       THEN [s EXCEPT !.l7_to_tcp = Forget(@, n), !.local_seq = g.ack, !.in_flight = 0]
       ELSE [s EXCEPT !.in_flight = 0]

(* An ACK of all that is in flight, of a part of it (resend the rest), from *)
(* below local_seq (resend), or of what was never sent (ignored).           *)
AckStage(s, g) ==
    LET n == (g.ack - s.local_seq) % Modulus IN
    CASE g.ack < s.local_seq -> [s EXCEPT !.in_flight = 0]
      [] g.ack >= s.local_seq /\ n <= s.in_flight ->
            [s EXCEPT !.l7_to_tcp = Forget(@, n), !.local_seq = Plus(@, n), !.in_flight = 0]
      [] OTHER -> s

DataStageAcksFirst(r, g, full) ==
    IF r.s = NoSession \/ r.invalid \/ g.seq # r.s.peer_seq THEN r
    ELSE [r EXCEPT !.bytes = IF "data" \notin full THEN [i \in 1 .. g.len |-> Plus(g.seq, i - 1)] ELSE <<>>,
                   !.out = @ \cup {AckOf(r.s, g.len)},
                   !.s.peer_seq = Plus(@, g.len), !.acked = TRUE]

DataStageNoCheck(r, g, full) ==
    IF r.s = NoSession \/ r.invalid THEN r
    ELSE [r EXCEPT !.bytes = [i \in 1 .. g.len |-> Plus(g.seq, i - 1)],
                   !.out = @ \cup {AckOf(r.s, g.len)},
                   !.s.peer_seq = Plus(@, g.len), !.acked = TRUE]

DataStageSilentOnRepeat(r, g, full) ==
    IF r.s = NoSession \/ r.invalid \/ g.seq # r.s.peer_seq \/ (g.len > 0 /\ "data" \in full) THEN r
    ELSE IF "ack" \in g.flags /\ g.len = 0 THEN r
    ELSE IF "ack" \in full THEN [r EXCEPT !.bytes = [i \in 1 .. g.len |-> Plus(g.seq, i - 1)], !.clean = TRUE]
    ELSE [r EXCEPT !.bytes = [i \in 1 .. g.len |-> Plus(g.seq, i - 1)],
                   !.out = @ \cup {AckOf(r.s, g.len)},
                   !.s.peer_seq = Plus(@, g.len), !.acked = TRUE]

(* The payload goes to the L7 server when it is the next in sequence, and is *)
(* acknowledged when that server's queue took it; the rest is only told what *)
(* is expected.                                                              *)
DataStage(r, g, full) ==
    CASE r.s = NoSession \/ r.invalid -> r
      [] r.s # NoSession /\ ~r.invalid /\ g.seq # r.s.peer_seq ->
            IF "ack" \notin full THEN [r EXCEPT !.out = @ \cup {AckOf(r.s, 0)}]
                         ELSE [r EXCEPT !.clean = TRUE]
      [] r.s # NoSession /\ ~r.invalid /\ g.seq = r.s.peer_seq ->
            LET passed == [r EXCEPT !.bytes = [i \in 1 .. g.len |-> Plus(g.seq, i - 1)]] IN
            IF g.len > 0 /\ "data" \in full THEN r
            ELSE IF "ack" \in g.flags /\ g.len = 0 THEN passed
            ELSE IF "ack" \notin full
                 THEN [passed EXCEPT !.out = @ \cup {AckOf(r.s, g.len)},
                                     !.s.peer_seq = Plus(@, g.len), !.acked = TRUE]
                 ELSE [passed EXCEPT !.clean = TRUE]

FinStage(r, g, full) ==
    IF r.s = NoSession \/ "fin" \notin g.flags THEN r
    ELSE LET s == IF r.s.half_closed THEN r.s
                  ELSE [r.s EXCEPT !.peer_seq = Plus(@, 1), !.half_closed = TRUE]
         IN  [r EXCEPT !.s = s,
                       !.out = @ \cup IF ~r.acked /\ "fin" \notin full THEN {AckOf(s, g.len)} ELSE {}]

CleanStageSilent(r, g) == [r EXCEPT !.s = IF r.invalid THEN NoSession ELSE @]

(* the label "clean:" *)
CleanStage(r, g) ==
    LET reset == r.invalid /\ r.with_rst
    IN  [r EXCEPT
            !.out = @ \cup
                IF ~reset THEN {}
                ELSE IF r.s = NoSession THEN {Segment({"rst"}, 0, 0, <<>>)}
                ELSE {Segment({"rst"}, r.s.local_seq, Plus(g.seq, r.inc_ack), <<>>)},
            !.s = IF r.s # NoSession /\ r.invalid
                     THEN [r.s EXCEPT !.state = IF reset THEN "closed" ELSE @, !.l7_to_tcp = <<>>]
                     ELSE @,
            !.close = r.s # NoSession /\ (r.invalid \/ r.clean)]

(* What the packet led to.  A CLOSE that the L7 server's queue refuses is    *)
(* lost, unless a later packet leads to another one.                         *)
Finish(end, full) ==
    \E r \in {end} :
        /\ sess' = r.s
        /\ out' = r.out
        /\ delivered' = IF l7 = "open" THEN delivered \o r.bytes ELSE delivered
        /\ IF r.close /\ "close" \in full
              THEN /\ refused < MaxRefused     \* bound
                   /\ refused' = refused + 1
                   /\ UNCHANGED l7
              ELSE /\ l7' = IF r.close THEN "closed" ELSE l7
                   /\ UNCHANGED refused

(* each stage works on the outcome of the one before it *)
Complete(start, g, full) ==
    \E r0 \in {start} : \E r1 \in {DataStage(r0, g, full)} : \E r2 \in {FinStage(r1, g, full)} :
        Finish(CleanStage(r2, g), full)

-----------------------------------------------------------------------------
(* run_in, one action per way a packet can go.                             *)

Running == ~freed_twice      \* a second delete of a session is undefined

(* The peer acknowledges a cookie that it was sent, and answers a SYN that   *)
(* was sent; all else may arrive at any time.                                *)
Arrives(g) ==
    /\ sess = NoSession /\ mapped /\ "ack" \in g.flags /\ (g.ack - 1) % Modulus \in ToSet(Cookies)
          => (g.ack - 1) % Modulus \in issued
    /\ {"syn", "ack"} \subseteq g.flags => created > 0

Idle == Running /\ rx = "idle"

(* a SYN too is answered before invalid_inc_ack is set *)
RecvClosed(g, full) ==
    /\ Idle /\ sess # NoSession /\ sess.state = "closed"
    /\ Finish(CleanStage([Start EXCEPT !.invalid = TRUE], g), full)
    /\ UNCHANGED <<net, slot, rx, rx_seg, rx_session, meta, clean_list, written, l7_fin, history>>

Live == Idle /\ (sess # NoSession => sess.state # "closed")

RecvRst(g, full) ==
    /\ Live /\ "rst" \in g.flags
    /\ Finish(CleanStage([Start EXCEPT !.invalid = TRUE, !.with_rst = FALSE,
                                       !.s = IF @ = NoSession THEN @ ELSE [@ EXCEPT !.state = "closed"]], g), full)
    /\ UNCHANGED <<net, slot, rx, rx_seg, rx_session, meta, clean_list, written, l7_fin, history>>

IsSyn(g) == Live /\ "rst" \notin g.flags /\ "syn" \in g.flags

(* no session: a SYN cookie, and nothing is remembered *)
RecvSynNew(g, full) ==
    /\ IsSyn(g) /\ sess = NoSession
    /\ IF mapped /\ g.flags = {"syn"}
          THEN /\ out' = {SynCookie(g)}
               /\ issued' = issued \cup {Cookies[slot]}
               /\ UNCHANGED <<sess, delivered, l7, refused>>
          ELSE /\ Complete([Start EXCEPT !.invalid = TRUE, !.inc_ack = 1], g, full)
               /\ UNCHANGED issued
    /\ UNCHANGED <<net, slot, rx, rx_seg, rx_session, meta, clean_list, written, l7_fin,
                   created, dropped, stale, unsent, freed_twice>>

RecvSynClient(g, full) ==
    /\ IsSyn(g) /\ sess # NoSession /\ sess.client
    /\ IF "ack" \notin g.flags
          THEN Complete([Start EXCEPT !.invalid = TRUE, !.inc_ack = 1], g, full)
          ELSE LET old == Start.s
                   s   == IF old.state = "established" THEN [old EXCEPT !.peer_seq = Plus(@, 1)]
                          ELSE [old EXCEPT !.state = "established", !.peer_seq = Plus(g.seq, 1),
                                           !.first_peer = Plus(g.seq, 1)]
               IN  IF "synack" \notin full
                      THEN Complete([Start EXCEPT !.s = s, !.out = {AckOf(s, 0)}], g, full)
                      ELSE Finish(CleanStage([Start EXCEPT !.s = s, !.clean = TRUE], g), full)
    /\ UNCHANGED <<net, slot, rx, rx_seg, rx_session, meta, clean_list, written, l7_fin, history>>

(* Server sessions are established (the SYN-received branch is never taken); *)
(* with both FINs seen the session makes room for a new one.                 *)
RecvSynServer(g) ==
    /\ IsSyn(g) /\ sess # NoSession /\ ~sess.client
    /\ out' = {}
    /\ IF sess.fin_sent /\ sess.half_closed
          THEN rx' = "release" /\ rx_session' = sess
          ELSE UNCHANGED <<rx, rx_session>>
    /\ UNCHANGED <<net, slot, sess, rx_seg, meta, clean_list, upper, history>>

IsAck(g) == Live /\ g.flags \cap {"rst", "syn"} = {} /\ "ack" \in g.flags

RecvAck(g, full) ==
    /\ IsAck(g) /\ sess # NoSession
    /\ Complete([Start EXCEPT !.s = AckStage(@, g)], g, full)
    /\ UNCHANGED <<net, slot, rx, rx_seg, rx_session, meta, clean_list, written, l7_fin, history>>

ValidCookie(g) == g.ack = Plus(Cookies[slot], 1)

(* The end of a handshake, as far as the cookie tells: the L7 server is told *)
(* first, the session is inserted next.                                      *)
RecvFirst(g, full) ==
    /\ IsAck(g) /\ sess = NoSession /\ "fin" \notin g.flags
    /\ ValidCookie(g) /\ mapped
    /\ created < MaxSessions     \* bound
    /\ IF "open" \notin full
          THEN /\ rx' = "insert" /\ rx_seg' = g
               /\ rx_session' = NewSession(FALSE, "established", g.ack, g.seq)
               /\ created' = created + 1
               /\ l7' = "open" /\ delivered' = <<>> /\ refused' = 0 /\ written' = 0 /\ l7_fin' = FALSE
               /\ dropped' = FALSE /\ unsent' = FALSE
               /\ out' = {} /\ UNCHANGED sess
          ELSE /\ Finish(CleanStage([Start EXCEPT !.invalid = TRUE], g), full)
               /\ UNCHANGED <<rx, rx_seg, rx_session, created, written, l7_fin, dropped, unsent>>
    /\ UNCHANGED <<net, slot, meta, clean_list, issued, stale, freed_twice>>

RecvBadCookie(g) ==
    /\ IsAck(g) /\ sess = NoSession /\ "fin" \notin g.flags
    /\ ~(ValidCookie(g) /\ mapped)
    /\ out' = IF ValidCookie(g) THEN {} ELSE {Segment({"rst"}, Plus(Cookies[slot], 1), g.seq, <<>>)}
    /\ UNCHANGED <<net, slot, locked, upper, history>>

(* insert does not replace a session *)
InsertSession ==
    /\ Running /\ rx = "insert"
    /\ sess' = IF sess = NoSession THEN rx_session ELSE sess
    /\ rx' = "inserted"
    /\ out' = {}
    /\ UNCHANGED <<net, slot, rx_seg, rx_session, meta, clean_list, upper, history>>

(* back under the shared lock, the session is looked up again *)
AfterInsert(full) ==
    /\ Running /\ rx = "inserted"
    /\ Complete([Start EXCEPT !.s = sess], rx_seg, full)
    /\ rx' = "idle" /\ rx_seg' = NoSegment /\ rx_session' = NoSession
    /\ UNCHANGED <<net, slot, meta, clean_list, written, l7_fin, history>>

(* neither SYN nor ACK: dropped without FIN *)
RecvBare(g, full) ==
    /\ Live /\ g.flags \cap {"rst", "syn", "ack"} = {}
    /\ IF "fin" \in g.flags THEN Complete(Start, g, full) ELSE Finish(Start, full)
    /\ UNCHANGED <<net, slot, rx, rx_seg, rx_session, meta, clean_list, written, l7_fin, history>>

(* ACK and FIN without a session *)
RecvStrayFin(g) ==
    /\ IsAck(g) /\ sess = NoSession /\ "fin" \in g.flags
    /\ out' = {}
    /\ UNCHANGED <<net, slot, locked, upper, history>>

(* sessions.erase(session_id); delete session *)
QuickRelease ==
    /\ Running /\ rx = "release"
    /\ freed_twice' = (sess = NoSession \/ sess.nr # rx_session.nr)
    /\ sess' = NoSession
    /\ rx' = "idle" /\ rx_session' = NoSession
    /\ out' = {}
    /\ UNCHANGED <<net, slot, rx_seg, meta, clean_list, upper, created, dropped, issued, stale, unsent>>

-----------------------------------------------------------------------------
(* run_out                                                                 *)

(* A message from the L7 server: n bytes, and perhaps its FIN.  The time     *)
(* server sends a FIN with every message: what it writes when one was sent   *)
(* stays in the buffer.                                                      *)
L7Write(n, fin) ==
    /\ Running /\ l7 # "none"
    /\ n > 0 \/ fin
    /\ written + n <= MaxBytes                                              \* bound
    /\ sess # NoSession /\ sess.fin_sent => Len(sess.l7_to_tcp) + n <= 1     \* bound
    /\ written' = IF sess # NoSession /\ sess.fin_sent THEN written ELSE written + n
    /\ l7_fin' = (l7_fin \/ fin)
    /\ IF sess = NoSession
          THEN dropped' = TRUE /\ UNCHANGED sess
          ELSE /\ sess' = [sess EXCEPT !.l7_to_tcp = @ \o [i \in 1 .. n |-> written + i],
                                       !.l7_send_fin = @ \/ fin]
               /\ UNCHANGED dropped
    /\ out' = {}
    /\ UNCHANGED <<net, slot, rx, rx_seg, rx_session, meta, clean_list, l7, delivered, refused,
                   created, issued, stale, unsent, freed_twice>>

SenderFullOnly(full) ==
    /\ Running /\ sess # NoSession /\ sess.in_flight = 0 /\ ~sess.fin_sent
    /\ LET n   == IF Len(sess.l7_to_tcp) < Mss THEN Len(sess.l7_to_tcp) ELSE Mss
           fin == n = Len(sess.l7_to_tcp) /\ sess.l7_send_fin
           g   == Segment(IF fin THEN {"ack", "fin"} ELSE {"ack"}, sess.local_seq, sess.peer_seq,
                          SubSeq(sess.l7_to_tcp, 1, n))
       IN  /\ full \subseteq {"seg"}
           /\ n = Mss \/ (fin /\ "seg" \notin full)
           /\ out' = IF "seg" \in full THEN {} ELSE {g}
           /\ sess' = [sess EXCEPT !.in_flight = n, !.fin_sent = fin,
                                   !.local_seq = IF fin THEN Plus(@, 1) ELSE @]
    /\ unsent' = ("seg" \in full)
    /\ UNCHANGED <<net, slot, rx, rx_seg, rx_session, meta, clean_list, upper,
                   created, dropped, issued, stale, freed_twice>>

(* One segment at a time; the FIN goes with the last of the data and counts  *)
(* at once.  A segment with data that the IP server's queue refuses counts as *)
(* sent too (send_tcp_packet has counted its bytes, lines 254 and 272); with  *)
(* a FIN alone nothing changes.                                              *)
Sender(full) ==
    /\ Running /\ sess # NoSession /\ sess.in_flight = 0 /\ ~sess.fin_sent
    /\ LET n   == IF Len(sess.l7_to_tcp) < Mss THEN Len(sess.l7_to_tcp) ELSE Mss
           fin == n = Len(sess.l7_to_tcp) /\ sess.l7_send_fin
           g   == Segment(IF fin THEN {"ack", "fin"} ELSE {"ack"}, sess.local_seq, sess.peer_seq,
                          SubSeq(sess.l7_to_tcp, 1, n))
       IN  /\ full \subseteq {"seg"}
           /\ n > 0 \/ (fin /\ "seg" \notin full)
           /\ out' = IF "seg" \in full THEN {} ELSE {g}
           /\ sess' = [sess EXCEPT !.in_flight = n, !.fin_sent = fin,
                                   !.local_seq = IF fin THEN Plus(@, 1) ELSE @]
    /\ unsent' = ("seg" \in full)
    /\ UNCHANGED <<net, slot, rx, rx_seg, rx_session, meta, clean_list, upper,
                   created, dropped, issued, stale, freed_twice>>

-----------------------------------------------------------------------------
(* run_meta: sessions that an L7 server opens and closes.                  *)

(* SYN and reply are sent before the session is in the map; without the    *)
(* reply there is no session.                                              *)
MetaOpen(isn, full) ==
    /\ Running /\ meta = NoSession /\ sess = NoSession /\ rx = "idle"
    /\ ~mapped                     \* the port is a new one
    /\ created < MaxSessions       \* bound
    /\ out' = {Segment({"syn"}, isn, 0, <<>>)}
    /\ IF "reply" \notin full
          THEN /\ meta' = NewSession(TRUE, "syn_sent", Plus(isn, 1), 0)
               /\ l7' = "open" /\ delivered' = <<>> /\ refused' = 0 /\ written' = 0 /\ l7_fin' = FALSE
               /\ created' = created + 1 /\ dropped' = FALSE /\ unsent' = FALSE
          ELSE UNCHANGED <<meta, upper, created, dropped, unsent>>
    /\ UNCHANGED <<net, slot, sess, rx, rx_seg, rx_session, clean_list, issued, stale, freed_twice>>

MetaInsert ==
    /\ Running /\ meta # NoSession
    /\ sess' = IF sess = NoSession THEN meta ELSE sess
    /\ meta' = NoSession
    /\ out' = {}
    /\ UNCHANGED <<net, slot, rx, rx_seg, rx_session, clean_list, upper, history>>

(* action=close, for any session id: the session is erased, then a FIN is    *)
(* sent, one number up.  The port of a session that the peer opened is not   *)
(* among the allocated ones; what is read past their end (line 1050) is      *)
(* taken to be another session's id, which is only logged.                   *)
MetaClose ==
    /\ Running /\ meta = NoSession /\ sess # NoSession
    /\ sess' = NoSession
    /\ out' = {Segment({"fin"}, Plus(sess.local_seq, 1), sess.peer_seq, <<>>)}
    /\ l7_fin' = TRUE
    /\ UNCHANGED <<net, slot, rx, rx_seg, rx_session, meta, clean_list, l7, delivered, refused, written, history>>

-----------------------------------------------------------------------------
(* run_clean                                                               *)

Finished(s) == (s.half_closed /\ s.fin_sent) \/ s.state = "closed"

CleanScan ==
    /\ Running /\ clean_list = 0
    /\ sess # NoSession /\ Finished(sess)
    /\ clean_list' = sess.nr
    /\ out' = {}
    /\ UNCHANGED <<net, slot, sess, rx, rx_seg, rx_session, meta, upper, history>>

(* the list holds ids *)
CleanDelete ==
    /\ Running /\ clean_list # 0
    /\ sess' = NoSession
    /\ stale' = (stale \/ (sess # NoSession /\ sess.nr # clean_list))
    /\ clean_list' = 0
    /\ out' = {}
    /\ UNCHANGED <<net, slot, rx, rx_seg, rx_session, meta, upper, created, dropped, issued, unsent, freed_twice>>

(* 64 seconds pass *)
NextSlot ==
    /\ Running /\ slot < Len(Cookies)
    /\ slot' = slot + 1
    /\ out' = {}
    /\ UNCHANGED <<net, locked, upper, history>>

RecvSegment(g, full) ==
    \/ full = {} /\ (RecvSynServer(g) \/ RecvBadCookie(g) \/ RecvStrayFin(g))
    \/ full \subseteq {"close"} /\ (RecvClosed(g, full) \/ RecvRst(g, full))
    \/ RecvSynNew(g, full) \/ RecvSynClient(g, full) \/ RecvAck(g, full) \/ RecvFirst(g, full) \/ RecvBare(g, full)

RunIn ==
    \/ \E g \in Segments, full \in MayFail : Arrives(g) /\ RecvSegment(g, full)
    \/ InsertSession \/ QuickRelease
    \/ \E full \in MayFail : AfterInsert(full)

RunOut ==
    \/ \E n \in 0 .. MaxBytes, fin \in BOOLEAN : L7Write(n, fin)
    \/ \E full \in MayFail : Sender(full)

RunMeta == (\E isn \in ISNs, full \in MayFail : MetaOpen(isn, full)) \/ MetaInsert \/ MetaClose

RunClean == CleanScan \/ CleanDelete

Next == RunIn \/ RunOut \/ RunMeta \/ RunClean \/ NextSlot

Spec == Init /\ [][Next]_vars

-----------------------------------------------------------------------------
(* Properties.                                                             *)

(* a session made by a handshake, still open in both directions at the peer's *)
(* side, that the L7 server was not told to close                             *)
Receiving == sess # NoSession /\ ~sess.client /\ ~sess.half_closed /\ l7 = "open"

(* Whatever segments arrive, how often and in what order, and whichever      *)
(* queue is full: run_in passes the peer's bytes to the L7 server in order,  *)
(* none left out, from the first sequence number it saw until the FIN, and   *)
(* each once, unless the IP server's queue refused an ACK and the L7         *)
(* server's the CLOSE that follows it (lines 660-672 and 756): the session   *)
(* then goes on where the last ACK was, and bytes come again.                *)
StreamIn ==
    Receiving => \A i \in DOMAIN delivered :
        IF refused = 0 THEN delivered[i] = Plus(sess.first_peer, i - 1)
        ELSE delivered[i] = sess.first_peer \/ \E j \in 1 .. i - 1 : delivered[i] = Plus(delivered[j], 1)

(* run_in acknowledges exactly the bytes that the L7 server's queue took: no *)
(* byte that it refused and, unless a CLOSE was lost, all that it took.      *)
AckedIsDelivered ==
    Receiving => \A g \in out : "ack" \in g.flags =>
        IF refused = 0 THEN g.ack = Plus(sess.first_peer, Len(delivered))
        ELSE g.ack = sess.first_peer \/ \E i \in DOMAIN delivered : g.ack = Plus(delivered[i], 1)

Sending == sess # NoSession /\ sess.state # "closed" /\ ~dropped

(* The byte that the sender puts at a sequence number is the same in every   *)
(* transmission, the one the L7 server wrote at that place, whatever is      *)
(* acknowledged in between: partial, late, repeated and nonsense ACKs.  Its  *)
(* FIN comes after the last byte that the L7 server wrote.                   *)
StreamOut ==
    Sending => \A g \in out :
        /\ \A i \in DOMAIN g.pl : g.pl[i] = ((g.seq - sess.first_local) % Modulus) + i
        /\ "fin" \in g.flags => l7_fin /\ Plus(g.seq, Len(g.pl)) = Plus(sess.first_local, written)

(* No session that its L7 server still uses goes away without a CLOSE, in    *)
(* run_clean, the quick release or run_meta, except where that server's      *)
(* queue refused the CLOSE, which is not sent again (line 756), and where    *)
(* run_clean acts on an id that it found for an earlier session.             *)
NoSilentRemoval ==
    sess = NoSession /\ meta = NoSession /\ rx = "idle" /\ l7 = "open" => l7_fin \/ stale \/ refused > 0

(* tcp_server.cpp:618, "during the unlock, the session may have been         *)
(* deleted": run_in deletes no session that was deleted while it did not     *)
(* hold the lock.                                                            *)
DeletedOnce == ~freed_twice
=============================================================================
