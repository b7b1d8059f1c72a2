----------------------------- MODULE L7Sessions -----------------------------
(***************************************************************************)
(* The servers on top of TCP: src/http_server.cpp (with and without TLS),  *)
(* src/gopher_server.cpp and src/vnc_server.cpp, which have a thread per   *)
(* session, and src/time_server.cpp, which has none.  A behaviour is that  *)
(* of one of them, chosen at the start.                                    *)
(*                                                                         *)
(* run_in cleans up, takes a message from the TCP server, looks its        *)
(* session up under sessions_lock and, without the lock, puts the data in  *)
(* the session's queue (utils/queue.h).  run_meta closes a session, and    *)
(* holds the lock while it waits for the session's thread.  Session        *)
(* threads write to the TCP server's queue and wait while it is full       *)
(* (utils/tcp-helpers.cpp).                                                *)
(*                                                                         *)
(* A session object is a place in the sequence "objs".  The TCP server is  *)
(* the environment: per session id it has at most one connection at a      *)
(* time, which it enters in its map after it sent the OPEN.  It uses the id *)
(* again once the L7 server's FIN came in, or after a reset: that is meant *)
(* to be 30 seconds later, which the code does not ensure (tcp_server.cpp: *)
(* 1094), and when it is too soon "reused" says so.                        *)
(***************************************************************************)
EXTENDS Integers, Sequences, SequencesExt, FiniteSets

CONSTANTS
    Servers,      \* the servers of an instance, see server
    Ids,          \* session ids
    Capacity,     \* messages in the TCP server's queue
    MaxConns,     \* bound on the number of connections, over all servers
    MaxData,      \* bound on the data messages of a connection, over all servers
    MaxChunks     \* bound on the messages of an answer

ASSUME L7Assumption ==
    /\ \A v \in Servers :
         /\ v.kind \in {"http", "https", "gopher", "vnc", "time"} /\ v.useMeta \in BOOLEAN
         /\ v.inCapacity \in Nat \ {0} /\ v.conns \in 0 .. MaxConns /\ v.data \in 0 .. MaxData
    /\ Capacity \in Nat \ {0} /\ MaxConns \in Nat /\ MaxData \in Nat /\ MaxChunks \in Nat

VARIABLES
    server,     \* the server of this behaviour
    inq,        \* messages from the TCP server
    outq,       \* messages to it
    sessions,   \* id -> object, 0 for none
    objs,       \* the session objects ever made
    in_pc,      \* run_in: "clean", "wait", "push"
    in_hs, in_m,
    meta_hs,    \* run_meta: the object it waits for, with the lock, or 0
    terminate,  \* please_terminate
    stopped,    \* stop_flag
    conn,       \* TCP server: id -> number of its connection, 0 for none
    opening,    \* ids whose OPEN was sent, and that are not in the map yet
    resting,    \* ids whose last connection was reset
    conns,      \* number of connections so far, and data sent on each
    data_n,
    got,        \* what came back: connection -> sequence of messages
    early,      \* connections that lost what was written before they were in the map
    lost,       \* a connection was reset and its CLOSE lost
    reused      \* an id was taken again before all of an earlier, reset connection was
                \* gone, or an OPEN found the session of an earlier connection

(* "http", "https", "gopher", "vnc" or "time"; whether something sends      *)
(* action=close to its run_meta; the messages that its queue holds          *)
Kind       == server.kind
UseMeta    == server.useMeta
InCapacity == server.inCapacity

Threaded == Kind # "time"

tcp  == <<server, conn, opening, resting, conns, data_n, got, early, lost>>
vars == <<server, inq, outq, sessions, objs, in_pc, in_hs, in_m, meta_hs, terminate, stopped,
          conn, opening, resting, conns, data_n, got, early, lost, reused>>

NoMessage == [id |-> 0, conn |-> 0, type |-> "none"]

Init ==
    /\ server \in Servers
    /\ inq = <<>> /\ outq = <<>> /\ sessions = [id \in Ids |-> 0] /\ objs = <<>>
    /\ in_pc = "clean" /\ in_hs = 0 /\ in_m = NoMessage /\ meta_hs = 0
    /\ terminate = FALSE /\ stopped = FALSE
    /\ conn = [id \in Ids |-> 0] /\ opening = {} /\ resting = {} /\ conns = 0 /\ data_n = 0
    /\ got = <<>> /\ early = {} /\ lost = FALSE /\ reused = FALSE

(* tcp_l7_session_t: "th" is where its thread is, "left" what it has to write *)
NewSession(m) ==
    [id |-> m.id, conn |-> m.conn, alive |-> TRUE, incoming |-> <<>>, stop |-> FALSE,
     finished |-> FALSE, th |-> IF Kind = "vnc" THEN "start" ELSE "read", left |-> 0]

-----------------------------------------------------------------------------
(* run_in                                                                  *)

(* The lock is free when run_meta is not waiting for a thread.               *)
LockFree == meta_hs = 0

Finished == {id \in Ids : sessions[id] # 0 /\ objs[sessions[id]].finished}

InCleanKeeps ==
    /\ Threaded /\ in_pc = "clean" /\ ~stopped /\ LockFree
    /\ objs' = [o \in DOMAIN objs |->
                   IF o \in {sessions[id] : id \in Finished}
                      THEN [objs[o] EXCEPT !.stop = TRUE, !.alive = FALSE] ELSE objs[o]]
    /\ in_pc' = "wait"
    /\ UNCHANGED <<inq, outq, sessions, in_hs, in_m, meta_hs, terminate, stopped, tcp, reused>>

(* delete the sessions that finished, stop when asked to and none is left *)
InClean ==
    /\ Threaded /\ in_pc = "clean" /\ ~stopped /\ LockFree
    /\ objs' = [o \in DOMAIN objs |->
                   IF o \in {sessions[id] : id \in Finished}
                      THEN [objs[o] EXCEPT !.stop = TRUE, !.alive = FALSE] ELSE objs[o]]
    /\ sessions' = [id \in Ids |-> IF id \in Finished THEN 0 ELSE sessions[id]]
    /\ LET stop == Kind \in {"http", "https"} /\ terminate /\ \A id \in Ids : sessions'[id] = 0
       IN  stopped' = stop /\ in_pc' = IF stop THEN "clean" ELSE "wait"
    /\ UNCHANGED <<inq, outq, in_hs, in_m, meta_hs, terminate, tcp, reused>>

InTimeout ==
    /\ Threaded /\ in_pc = "wait" /\ inq = <<>>
    /\ in_pc' = "clean"
    /\ UNCHANGED <<inq, outq, sessions, objs, in_hs, in_m, meta_hs, terminate, stopped, tcp, reused>>

(* what a message for a known session does to its stop_flag *)
HttpOnMessage(s, m) == [s EXCEPT !.stop = @ \/ m.type = "close"]
GopherOnMessage(s, m) == s
VncOnMessage(s, m) == [s EXCEPT !.stop = @ \/ m.type = "close"]

OnMessage(s, m) ==
    CASE Kind \in {"http", "https"} -> HttpOnMessage(s, m)
      [] Kind = "gopher" -> GopherOnMessage(s, m)
      [] Kind = "vnc" -> VncOnMessage(s, m)

InMessage ==
    /\ Threaded /\ in_pc = "wait" /\ inq # <<>> /\ LockFree
    /\ inq' = Tail(inq)
    /\ LET m == Head(inq)
           o == sessions[m.id]
       IN  \/ /\ o = 0 /\ m.type = "open"
              /\ objs' = Append(objs, NewSession(m))
              /\ sessions' = [sessions EXCEPT ![m.id] = Len(objs) + 1]
              /\ in_hs' = Len(objs) + 1 /\ in_m' = m /\ in_pc' = "push"
              /\ UNCHANGED reused
           \/ /\ o = 0 /\ m.type # "open"
              /\ in_pc' = "clean"
              /\ UNCHANGED <<objs, sessions, in_hs, in_m, reused>>
           \/ /\ o # 0
              /\ objs' = [objs EXCEPT ![o] = OnMessage(@, m)]
              /\ in_hs' = o /\ in_m' = m /\ in_pc' = "push"
              /\ reused' = (reused \/ objs[o].conn # m.conn)
              /\ UNCHANGED sessions
    /\ UNCHANGED <<outq, meta_hs, terminate, stopped, tcp>>

(* hs->incoming.push, without the lock; an OPEN and a CLOSE carry no data *)
InPush ==
    /\ in_pc = "push"
    /\ objs' = [objs EXCEPT ![in_hs].incoming = Append(@, in_m.type)]
    /\ in_pc' = "clean" /\ in_hs' = 0 /\ in_m' = NoMessage
    /\ UNCHANGED <<inq, outq, sessions, meta_hs, terminate, stopped, tcp, reused>>

-----------------------------------------------------------------------------
(* run_meta, action=close                                                  *)

MetaClose(id) ==
    /\ UseMeta /\ Threaded /\ LockFree /\ sessions[id] # 0 /\ ~stopped
    /\ objs' = [objs EXCEPT ![sessions[id]].stop = TRUE]
    /\ meta_hs' = sessions[id]
    /\ UNCHANGED <<inq, outq, sessions, in_pc, in_hs, in_m, terminate, stopped, tcp, reused>>

MetaJoined ==
    /\ meta_hs # 0 /\ objs[meta_hs].finished
    /\ objs' = [objs EXCEPT ![meta_hs].alive = FALSE]
    /\ sessions' = [sessions EXCEPT ![objs[meta_hs].id] = 0]
    /\ meta_hs' = 0
    /\ UNCHANGED <<inq, outq, in_pc, in_hs, in_m, terminate, stopped, tcp, reused>>

SigTerm ==
    /\ Kind \in {"http", "https"} /\ ~terminate
    /\ terminate' = TRUE
    /\ UNCHANGED <<inq, outq, sessions, objs, in_pc, in_hs, in_m, meta_hs, stopped, tcp, reused>>

-----------------------------------------------------------------------------
(* The session threads.  send_func and fin_func wait for room.             *)

Step(o, s) ==
    /\ objs' = [objs EXCEPT ![o] = s]
    /\ UNCHANGED <<inq, sessions, in_pc, in_hs, in_m, meta_hs, terminate, stopped, tcp, reused>>

SendFunc(s, type) ==
    /\ Len(outq) < Capacity
    /\ outq' = Append(outq, [id |-> s.id, conn |-> s.conn, type |-> type])

(* What popping a message does to a session that reads a request: the last  *)
(* part of it starts the answer (a header, or none for a line without URL), *)
(* and too much of it ends the session.                                     *)
Request(s) ==
    LET t == [s EXCEPT !.incoming = Tail(@)] IN
    CASE Head(s.incoming) = "last" ->
            {[t EXCEPT !.th = "fin"]} \cup {[t EXCEPT !.th = "header", !.left = n] : n \in 0 .. MaxChunks}
      [] Head(s.incoming) = "data" ->
            {t, [t EXCEPT !.th = "fin"]} \cup {[t EXCEPT !.th = "shake"] : k \in {Kind} \cap {"https"}}
      [] OTHER -> {t}

HttpReadWaits(o, s) ==
    /\ s.th = "read" /\ s.incoming # <<>>
    /\ \E t \in Request(s) : Step(o, t)
    /\ UNCHANGED outq

(* Without TLS pop() waits for data only.  With TLS recv_func looks at the  *)
(* stop_flag as well, and reading makes wolfSSL answer the handshake.  When  *)
(* it stops, wolfSSL is told that it got all it asked for (line 97), and     *)
(* finds bytes in its buffer that nobody wrote: it may first send an alert.  *)
(* That it does not take them for a record, at every read again, is assumed. *)
HttpRead(o, s) ==
    \/ /\ s.th = "read" /\ Kind = "https" /\ s.stop
       /\ \E th \in {"alert", "fin"} : Step(o, [s EXCEPT !.th = th])
       /\ UNCHANGED outq
    \/ s.th = "alert" /\ SendFunc(s, "data") /\ Step(o, [s EXCEPT !.th = "fin"])
    \/ /\ s.th = "read" /\ s.incoming # <<>> /\ ~(Kind = "https" /\ s.stop)
       /\ \E t \in Request(s) : Step(o, t)
       /\ UNCHANGED outq
    \/ s.th = "shake" /\ SendFunc(s, "data") /\ Step(o, [s EXCEPT !.th = "read"])

HttpWrite(o, s) ==
    \/ s.th = "header" /\ SendFunc(s, "data") /\ Step(o, [s EXCEPT !.th = "write"])
    \/ s.th = "write" /\ s.left > 0 /\ ~s.stop /\ SendFunc(s, "data") /\ Step(o, [s EXCEPT !.left = @ - 1])
    \/ s.th = "write" /\ (s.left = 0 \/ s.stop) /\ Step(o, [s EXCEPT !.th = "fin"]) /\ UNCHANGED outq

(* send_menu or the file, whether or not the session was closed *)
GopherThread(o, s) ==
    \/ /\ s.th = "read" /\ s.incoming # <<>>
       /\ LET t == [s EXCEPT !.incoming = Tail(@)] IN
          IF Head(s.incoming) = "last"
             THEN \E n \in 0 .. MaxChunks : Step(o, [t EXCEPT !.th = "write", !.left = n])
             ELSE Step(o, t)
       /\ UNCHANGED outq
    \/ s.th = "write" /\ s.left > 0 /\ SendFunc(s, "data") /\ Step(o, [s EXCEPT !.left = @ - 1])
    \/ s.th = "write" /\ s.left = 0 /\ Step(o, [s EXCEPT !.th = "fin"]) /\ UNCHANGED outq

(* The states of the protocol are folded into "write" (messages to send) and *)
(* "read" (recv_alloc, which fails once stop_flag is set).                   *)
VncRead(o, s) ==
    /\ s.th = "read" /\ ~s.stop /\ s.incoming # <<>>
    /\ LET t == [s EXCEPT !.incoming = Tail(@)] IN
       \/ Step(o, t)
       \/ Head(s.incoming) \in {"data", "last"} /\ Step(o, [t EXCEPT !.th = "fin"])
       \/ /\ Head(s.incoming) \in {"data", "last"}
          /\ \E n \in 1 .. MaxChunks : Step(o, [t EXCEPT !.th = "write", !.left = n])
    /\ UNCHANGED outq

VncWrite(o, s) ==
    \/ s.th = "start" /\ ~s.stop /\ UNCHANGED outq /\ Step(o, [s EXCEPT !.th = "write", !.left = 1])
    \/ s.th = "write" /\ s.left > 0 /\ SendFunc(s, "data") /\ Step(o, [s EXCEPT !.left = @ - 1])
    \/ s.th = "write" /\ s.left = 0 /\ UNCHANGED outq /\ \E th \in {"read", "fin"} : Step(o, [s EXCEPT !.th = th])

VncThreadReadsOn(o, s) == VncRead(o, [s EXCEPT !.stop = FALSE]) \/ VncWrite(o, s)

VncThread(o, s) ==
    \/ s.th \in {"start", "read"} /\ s.stop /\ Step(o, [s EXCEPT !.th = "fin"]) /\ UNCHANGED outq
    \/ VncRead(o, s) \/ VncWrite(o, s)

EndSessionGoesOn(o, s) ==
    \/ s.th = "fin" /\ SendFunc(s, "fin") /\ Step(o, [s EXCEPT !.th = "write"])
    \/ s.th = "done" /\ ~s.finished /\ Step(o, [s EXCEPT !.finished = TRUE]) /\ UNCHANGED outq

(* end_session: the FIN, then finished *)
EndSession(o, s) ==
    \/ s.th = "fin" /\ SendFunc(s, "fin") /\ Step(o, [s EXCEPT !.th = "done"])
    \/ s.th = "done" /\ ~s.finished /\ Step(o, [s EXCEPT !.finished = TRUE]) /\ UNCHANGED outq

Thread(o) ==
    LET s == objs[o] IN
    /\ s.alive
    /\ \/ Kind \in {"http", "https"} /\ (HttpRead(o, s) \/ HttpWrite(o, s))
       \/ Kind = "gopher" /\ GopherThread(o, s)
       \/ Kind = "vnc" /\ VncThread(o, s)
       \/ EndSession(o, s)

TimeRunInDataOnly ==
    /\ Kind = "time" /\ inq # <<>>
    /\ inq' = Tail(inq)
    /\ IF Head(inq).type = "open" THEN UNCHANGED outq ELSE SendFunc(Head(inq), "fin")
    /\ UNCHANGED <<sessions, objs, in_pc, in_hs, in_m, meta_hs, terminate, stopped, tcp, reused>>

(* the time server answers every message with the time and a FIN *)
TimeRunIn ==
    /\ Kind = "time" /\ inq # <<>>
    /\ inq' = Tail(inq)
    /\ SendFunc(Head(inq), "fin")
    /\ UNCHANGED <<sessions, objs, in_pc, in_hs, in_m, meta_hs, terminate, stopped, tcp, reused>>

-----------------------------------------------------------------------------
(* The TCP server.                                                         *)

rest == <<server, sessions, objs, in_pc, in_hs, in_m, meta_hs, terminate, stopped>>

(* nothing is under way for the id, and no thread of it runs *)
Gone(id) ==
    /\ \A i \in DOMAIN inq : inq[i].id # id
    /\ \A i \in DOMAIN outq : outq[i].id # id
    /\ in_pc # "push"
    /\ \A o \in DOMAIN objs : objs[o].id = id /\ objs[o].alive => objs[o].th = "done"

Message(id, c, type) == [id |-> id, conn |-> c, type |-> type]

(* run_in of the TCP server, when it is not about to insert a session *)
TcpIdle == opening = {}

(* a handshake ends, and the L7 server is told *)
TcpOpen(id) ==
    /\ TcpIdle /\ conn[id] = 0 /\ conns < server.conns /\ Len(inq) < InCapacity
    /\ opening' = {id}
    /\ resting' = resting \ {id}
    /\ reused' = (reused \/ (id \in resting /\ ~Gone(id)))
    /\ conns' = conns + 1
    /\ got' = Append(got, <<>>) /\ data_n' = 0
    /\ inq' = Append(inq, Message(id, conns + 1, "open"))
    /\ UNCHANGED <<outq, conn, early, lost, rest>>

(* after that the session is entered in the map *)
TcpInsert ==
    /\ \E id \in opening : conn' = [conn EXCEPT ![id] = conns]
    /\ opening' = {}
    /\ UNCHANGED <<inq, outq, resting, conns, data_n, got, early, lost, reused, rest>>

TcpData(id, type) ==
    /\ TcpIdle /\ conn[id] # 0 /\ data_n < server.data /\ Len(inq) < InCapacity
    /\ data_n' = data_n + 1
    /\ inq' = Append(inq, Message(id, conn[id], type))
    /\ UNCHANGED <<outq, conn, opening, resting, conns, got, early, lost, reused, rest>>

(* A CLOSE is sent without waiting, and is lost when the queue is full.      *)
SendClose(id) == inq' = IF Len(inq) < InCapacity THEN Append(inq, Message(id, conn[id], "close")) ELSE inq

(* an ACK could not be sent: the L7 server gets a CLOSE, but the session     *)
(* stays in the map and goes on; counted as data for the bound               *)
TcpNoAck(id) ==
    /\ TcpIdle /\ conn[id] # 0 /\ data_n < server.data
    /\ data_n' = data_n + 1
    /\ SendClose(id)
    /\ UNCHANGED <<outq, conn, opening, resting, conns, got, early, lost, reused, rest>>

(* the connection is reset *)
TcpClose(id) ==
    /\ TcpIdle /\ conn[id] # 0
    /\ SendClose(id)
    /\ lost' = (lost \/ Len(inq) >= InCapacity)
    /\ resting' = resting \cup {id}
    /\ conn' = [conn EXCEPT ![id] = 0]
    /\ UNCHANGED <<outq, opening, conns, data_n, got, early, reused, rest>>

TcpReleaseEarly(id) ==
    /\ conn[id] # 0
    /\ conn' = [conn EXCEPT ![id] = 0]
    /\ UNCHANGED <<inq, outq, opening, resting, conns, data_n, got, early, lost, reused, rest>>

(* both ends sent their FIN: quick release, or run_clean *)
TcpRelease(id) ==
    /\ conn[id] # 0 /\ \E i \in DOMAIN got[conn[id]] : got[conn[id]][i].type = "fin"
    /\ conn' = [conn EXCEPT ![id] = 0]
    /\ UNCHANGED <<inq, outq, opening, resting, conns, data_n, got, early, lost, reused, rest>>

(* run_out: what finds no session is dropped *)
TcpTake ==
    /\ outq # <<>>
    /\ outq' = Tail(outq)
    /\ LET m == Head(outq)
           c == conn[m.id]
       IN  /\ got' = IF c = 0 THEN got ELSE [got EXCEPT ![c] = Append(@, m)]
           /\ early' = IF m.id \in opening /\ m.conn = conns THEN early \cup {conns} ELSE early
    /\ UNCHANGED <<inq, conn, opening, resting, conns, data_n, lost, reused, rest>>

RunIn == InClean \/ InTimeout \/ InMessage \/ InPush \/ TimeRunIn
RunMeta == (\E id \in Ids : MetaClose(id)) \/ MetaJoined

Next ==
    \/ RunIn \/ RunMeta \/ SigTerm
    \/ \E o \in DOMAIN objs : Thread(o)
    \/ \E id \in Ids : TcpOpen(id) \/ TcpNoAck(id) \/ TcpClose(id) \/ TcpRelease(id)
    \/ \E id \in Ids, type \in {"data", "last"} : TcpData(id, type)
    \/ TcpInsert \/ TcpTake

(* run_in and run_meta poll, the threads run, and the TCP server empties its *)
(* queue.  Nothing is asked of the peers or of who sends signals.            *)
Fairness ==
    /\ WF_vars(RunIn) /\ WF_vars(MetaJoined) /\ WF_vars(TcpInsert) /\ WF_vars(TcpTake)
    /\ \A o \in 1 .. MaxConns : WF_vars(o \in DOMAIN objs /\ Thread(o))

Spec == Init /\ [][Next]_vars
FairSpec == Spec /\ Fairness

-----------------------------------------------------------------------------
(* Properties.                                                             *)

(* tcp_server.cpp:783, "it would be a bug if L7 sends more data" after its   *)
(* FIN: on no connection of an HTTP, Gopher or VNC server does anything      *)
(* follow its FIN, unless the id was taken again too early.                  *)
NothingAfterFin ==
    Threaded /\ ~reused => \A c \in DOMAIN got : \A i, j \in DOMAIN got[c] :
                  got[c][i].type = "fin" => j <= i

(* Unless the id of a connection is taken again while something of an earlier, *)
(* reset one is still there, a connection carries only what the thread    *)
(* started for it wrote: run_in, the threads and run_meta never mix them    *)
(* (the time server, which has no threads, answers a late message late).    *)
OwnAnswers ==
    Threaded /\ ~reused => \A c \in DOMAIN got : \A i \in DOMAIN got[c] : got[c][i].conn = c

(* The sessions map and the session objects agree: what is in the map is    *)
(* alive, and a live session is in the map, so that it is cleaned up.       *)
MapHoldsLive ==
    \A o \in DOMAIN objs : objs[o].alive <=> sessions[objs[o].id] = o

(* The time and VNC servers speak first: a connection that stays open gets  *)
(* something without the peer having sent anything, unless it was written   *)
(* before the TCP server had the session in its map (tcp_server.cpp:861     *)
(* drops it), or the OPEN went to the session of an earlier connection.     *)
Greeted ==
    \A c \in 1 .. MaxConns :
        (Kind \in {"time", "vnc"} /\ \E id \in Ids : conn[id] = c)
            ~> ((c \in DOMAIN got /\ got[c] # <<>>) \/ c \in early \/ reused \/ \A id \in Ids : conn[id] # c)

(* A VNC session, or an HTTP session over TLS, that was told to stop ends   *)
(* and is deleted, whatever its thread is waiting for.                      *)
StoppedEnds ==
    \A o \in 1 .. MaxConns :
        (Kind \in {"vnc", "https"} /\ o \in DOMAIN objs /\ objs[o].stop)
            ~> (o \in DOMAIN objs /\ ~objs[o].alive)

(* http_server.cpp:314, "used for certificat reloading": once SIGTERM came  *)
(* in and all connections are closed, the server with TLS stops, unless the *)
(* CLOSE of a connection was lost in a full queue (tcp_server.cpp:756): the *)
(* thread of its session then waits for ever.                               *)
Terminates ==
    (<>[](Kind = "https" /\ terminate /\ ~lost /\ opening = {} /\ \A id \in Ids : conn[id] = 0)) => <>stopped
=============================================================================
