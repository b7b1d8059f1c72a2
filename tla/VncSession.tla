----------------------------- MODULE VncSession -----------------------------
(***************************************************************************)
(* One session of src/vnc_server.cpp: the thread of process_vnc_request,   *)
(* which speaks the RFB protocol (version 3.8) with a client.  The bytes   *)
(* of the client come as the TCP server cut them, each cut an element of   *)
(* the queue "incoming"; recv_func (utils/tcp-helpers.cpp) takes as many   *)
(* as the state of the protocol asks for and puts the rest back.           *)
(*                                                                         *)
(* The client's messages are real bytes.  What it gets is abstracted to    *)
(* what was sent, and of an update to its header, the places in the frame  *)
(* buffer its pixels were read from, and sizes.  Sending may wait for room *)
(* in the queue of the TCP server, which L7Sessions has.                   *)
(***************************************************************************)
EXTENDS Integers, Sequences, SequencesExt, FiniteSets

CONSTANTS
    FbW, FbH,     \* frame_buffer, 640 x 480 in the code
    Tile,         \* width and height of a tile of hextile, 16 in the code
    ZSizes,       \* what deflate may produce for an update, in bytes
    Scripts,      \* what a client may send: sequences of messages
    Cuts,         \* sizes of the pieces that the stream is cut in
    MaxIncoming   \* bound on the pieces in the queue

ASSUME VncAssumption ==
    /\ {FbW, FbH, Tile, MaxIncoming} \subseteq Nat \ {0} /\ Cuts \subseteq Nat \ {0}
    /\ ZSizes \subseteq Nat \ {0} /\ FbW % Tile = 0 /\ FbH % Tile = 0

VARIABLES
    msgs,       \* what the client sends
    stream,     \* the bytes of it
    delivered,  \* how many of them run_in put in the queue
    incoming,   \* the queue
    buf,        \* what the recv_func under way has
    s,          \* vnc_session_t and the variables of the thread
    total_out,  \* strm.total_out of zlib
    stop,       \* session->stop_flag
    out         \* what was sent to the client

vars == <<msgs, stream, delivered, incoming, buf, s, total_out, stop, out>>

-----------------------------------------------------------------------------
(* The client's messages as bytes.  What the server has to skip looks like *)
(* a command.                                                              *)

Skipped(n) == [i \in 1 .. n |-> 3]

Encode(m) ==
    CASE m.type = "version"   -> (IF m.good THEN <<82, 70, 66>> ELSE <<71, 69, 84>>) \o Skipped(9)
      [] m.type = "security"  -> <<m.choice>>
      [] m.type = "init"      -> <<1>>
      [] m.type = "format"    -> <<0>> \o Skipped(3) \o <<m.bpp, m.depth>> \o Skipped(14)
      [] m.type = "encodings" -> <<2, 0, 0, Len(m.list)>> \o FlattenSeq([i \in DOMAIN m.list |-> <<0, 0, 0, m.list[i]>>])
      [] m.type = "request"   -> <<3, 0, 0, m.x, 0, m.y, 0, m.w, 0, m.h>>
      [] m.type = "key"       -> <<4>> \o Skipped(7)
      [] m.type = "pointer"   -> <<5>> \o Skipped(5)
      [] m.type = "cut"       -> <<6>> \o Skipped(3) \o <<0, 0, 0, m.n>> \o Skipped(m.n)
      [] m.type = "unknown"   -> <<7>>

Bytes(ms) == FlattenSeq([i \in DOMAIN ms |-> Encode(ms[i])])

-----------------------------------------------------------------------------
(* calculate_fb_update: the encoding, and the pixels it sends, each as the *)
(* place in the frame buffer it is read from.                              *)

(* zlib ends the search, of hextile and JPEG the last one counts *)
BestEncoding(encodings) ==
    LET known == SelectSeq(encodings, LAMBDA e : e \in {5, 6, 21})
    IN  IF 6 \in Range(known) THEN 6 ELSE IF known = <<>> THEN 0 ELSE Last(known)

RawPixelsFirstRow(x, y, w, h) == [i \in 1 .. w * h |-> ((i - 1) \div w) * w + x + ((i - 1) % w)]

(* the row is found with the width of the rectangle *)
RawPixels(x, y, w, h) == [i \in 1 .. w * h |-> (y + (i - 1) \div w) * w + x + ((i - 1) % w)]

(* hextile: tile after tile, from the corner of the frame buffer *)
TilePixels(x, y, w) == [i \in 1 .. Tile * Tile |-> (y + (i - 1) \div Tile) * w + x + ((i - 1) % Tile)]

Hextile(w, h) ==
    LET across == (w + Tile - 1) \div Tile
        down   == (h + Tile - 1) \div Tile
    IN  [t \in 1 .. across * down |->
            TilePixels(((t - 1) % across) * Tile, ((t - 1) \div across) * Tile, w)]

(* for raw and zlib: bits for a pixel, 0 for a depth that is not supported *)
BitsPerPixel(depth) == CASE depth \in {24, 32} -> 32 [] depth = 8 -> 8 [] depth = 1 -> 1 [] OTHER -> 0

(* of the pixels those that are sent: whole bytes of them, if any *)
Sent(pixels, depth) ==
    SubSeq(pixels, 1, CASE BitsPerPixel(depth) = 0 -> 0
                        [] BitsPerPixel(depth) = 1 -> Len(pixels) - (Len(pixels) % 8)
                        [] OTHER                   -> Len(pixels))

(* encode_pixel, for hextile *)
SentTile(pixels, depth) == IF depth \in {8, 24, 32} THEN pixels ELSE <<>>

InBounds(r) == r.x + r.w <= FbW /\ r.y + r.h <= FbH

Pixels(ce, r, depth) ==
    CASE ce \in {0, 6} -> <<Sent(RawPixels(r.x, r.y, r.w, r.h), depth)>>
      [] ce = 5        -> LET tiles == Hextile(r.w, r.h) IN [i \in DOMAIN tiles |-> SentTile(tiles[i], depth)]
      [] ce = 21       -> <<[i \in 1 .. r.w * r.h |-> i - 1]>>

(* z is what deflate produces; announced is the size in front of the data *)
FbUpdate(t, r, z) ==
    LET ce == BestEncoding(t.encodings)
    IN  [type |-> "update", rect |-> [x |-> r.x, y |-> r.y, w |-> r.w, h |-> r.h], ce |-> ce, depth |-> t.depth,
         pixels |-> Pixels(ce, r, t.depth),
         bytes |-> IF ce = 0 THEN (r.w * r.h * BitsPerPixel(t.depth)) \div 8 ELSE z,
         announced |-> IF ce = 6 THEN (total_out + z) - t.prev_zsize ELSE z]

-----------------------------------------------------------------------------
(* The states of the protocol: how many bytes each one waits for, and what *)
(* it does with them.                                                      *)

DataSize(cmd) ==
    CASE cmd = 0 -> 19 [] cmd = 2 -> 3 [] cmd = 3 -> 9 [] cmd = 4 -> 7 [] cmd = 5 -> 5 [] cmd = 6 -> 7 [] OTHER -> 0

(* the states in which the server speaks, or ended, wait for nothing *)
Need ==
    CASE s.state = "initial_handshake_client_resp" -> 12
      [] s.state \in {"security_handshake_client_resp", "client_init", "running_waiting_cmd"} -> 1
      [] s.state = "running_waiting_data"        -> DataSize(s.running_cmd)
      [] s.state = "running_waiting_data_extra"  -> 4 * s.n_encodings
      [] s.state = "running_waiting_data_ignore" -> s.ignore_data_n
      [] OTHER -> 0

Init ==
    /\ msgs \in Scripts /\ stream = Bytes(msgs) /\ delivered = 0
    /\ incoming = <<<<>>>> /\ buf = <<>>   \* the OPEN has no data
    /\ s = [state |-> "initial_handshake_server_send", running_cmd |-> -1, n_encodings |-> -1,
            ignore_data_n |-> -1, depth |-> 8, encodings |-> <<>>, prev_zsize |-> 0]
    /\ total_out = 0 /\ stop = FALSE /\ out = <<>>

(* recv_func takes one element of the queue; unpop puts what is too much back *)
RecvFuncDropsRest ==
    LET v == Head(incoming)
        n == IF Len(v) < Need - Len(buf) THEN Len(v) ELSE Need - Len(buf)
    IN  /\ ~stop /\ Len(buf) < Need /\ incoming # <<>>
        /\ buf' = buf \o SubSeq(v, 1, n)
        /\ incoming' = Tail(incoming)
        /\ UNCHANGED <<msgs, stream, delivered, s, total_out, stop, out>>

RecvFunc ==
    LET v == Head(incoming)
        n == IF Len(v) < Need - Len(buf) THEN Len(v) ELSE Need - Len(buf)
    IN  /\ ~stop /\ Len(buf) < Need /\ incoming # <<>>
        /\ buf' = buf \o SubSeq(v, 1, n)
        /\ incoming' = IF Len(v) > n THEN <<SubSeq(v, n + 1, Len(v))>> \o Tail(incoming) ELSE Tail(incoming)
        /\ UNCHANGED <<msgs, stream, delivered, s, total_out, stop, out>>

(* what every step of the thread does: its bytes are used up *)
Becomes(t, sent) ==
    /\ s' = t /\ buf' = <<>> /\ out' = out \o sent
    /\ UNCHANGED <<msgs, stream, delivered, incoming, stop>>

Goes(state, sent) == Becomes([s EXCEPT !.state = state], sent) /\ UNCHANGED total_out

At(state) == s.state = state /\ Len(buf) = Need

ServerSpeaks ==
    \/ At("initial_handshake_server_send") /\ ~stop /\ Goes("initial_handshake_client_resp", <<[type |-> "version"]>>)
    \/ At("security_handshake_server") /\ Goes("security_handshake_client_resp", <<[type |-> "security"]>>)
    \/ At("server_init") /\ Goes("running_waiting_cmd", <<[type |-> "init"]>>)

(* fin_func ends the session: a broken handshake or an unknown command *)
ClientVersion ==
    /\ At("initial_handshake_client_resp")
    /\ IF SubSeq(buf, 1, 3) = <<82, 70, 66>> THEN Goes("security_handshake_server", <<>>)
                                             ELSE Goes("terminate", <<[type |-> "fin"]>>)

ClientSecurity ==
    /\ At("security_handshake_client_resp")
    /\ IF buf[1] = 1 THEN Goes("client_init", <<[type |-> "ok"]>>)
                     ELSE Goes("terminate", <<[type |-> "failed"], [type |-> "fin"]>>)

ClientInit == At("client_init") /\ Goes("server_init", <<>>)

WaitingCmd ==
    /\ At("running_waiting_cmd")
    /\ Becomes([s EXCEPT !.running_cmd = buf[1], !.state = "running_waiting_data"], <<>>)
    /\ UNCHANGED total_out

(* the depth, not the bits per pixel before it, after 3 bytes of padding *)
SetPixelFormat ==
    /\ At("running_waiting_data") /\ s.running_cmd = 0
    /\ Becomes([s EXCEPT !.depth = buf[3 + 2], !.state = "running_waiting_cmd"], <<>>)
    /\ UNCHANGED total_out

SetEncodings ==
    /\ At("running_waiting_data") /\ s.running_cmd = 2
    /\ Becomes([s EXCEPT !.n_encodings = buf[2] * 256 + buf[3], !.state = "running_waiting_data_extra"], <<>>)
    /\ UNCHANGED total_out

(* four bytes as an int *)
Int32(b) == (IF b[1] < 128 THEN b[1] ELSE b[1] - 256) * 2^24 + b[2] * 2^16 + b[3] * 2^8 + b[4]

EncodingsData(b) == [i \in 1 .. Len(b) \div 4 |-> Int32(SubSeq(b, 4 * i - 3, 4 * i))]

SetEncodingsDataAdds ==
    /\ At("running_waiting_data_extra")
    /\ Becomes([s EXCEPT !.encodings = @ \o EncodingsData(buf), !.n_encodings = -1, !.state = "running_waiting_cmd"], <<>>)
    /\ UNCHANGED total_out

SetEncodingsData ==
    /\ At("running_waiting_data_extra")
    /\ Becomes([s EXCEPT !.encodings = EncodingsData(buf), !.n_encodings = -1, !.state = "running_waiting_cmd"], <<>>)
    /\ UNCHANGED total_out

(* FramebufferUpdateRequest.  Of a rectangle that is not in the frame buffer *)
(* nothing is sent (a message of 0 bytes).                                   *)
UpdateRequest ==
    /\ At("running_waiting_data") /\ s.running_cmd = 3
    /\ LET r == [x |-> buf[2] * 256 + buf[3], y |-> buf[4] * 256 + buf[5],
                 w |-> buf[6] * 256 + buf[7], h |-> buf[8] * 256 + buf[9]]
           t == [s EXCEPT !.state = "running_waiting_cmd", !.running_cmd = -1]
       IN  \/ ~InBounds(r) /\ Becomes(t, <<>>) /\ UNCHANGED total_out
           \/ /\ InBounds(r) /\ BestEncoding(s.encodings) # 6
              /\ Becomes(t, <<FbUpdate(s, r, 0)>>)
              /\ UNCHANGED total_out
           \/ /\ InBounds(r) /\ BestEncoding(s.encodings) = 6
              /\ \E z \in ZSizes \cup {n \in {0} : BitsPerPixel(s.depth) = n} :
                    /\ total_out' = total_out + z
                    /\ Becomes([t EXCEPT !.prev_zsize = total_out + z], <<FbUpdate(s, r, z)>>)

(* KeyEvent and PointerEvent *)
IgnoreEvent ==
    /\ At("running_waiting_data") /\ s.running_cmd \in {4, 5}
    /\ Becomes([s EXCEPT !.state = "running_waiting_cmd", !.running_cmd = -1], <<>>)
    /\ UNCHANGED total_out

ClientCutTextNonempty ==
    /\ At("running_waiting_data") /\ s.running_cmd = 6
    /\ Becomes([s EXCEPT !.ignore_data_n = Int32(SubSeq(buf, 4, 7)), !.state = "running_waiting_data_ignore"], <<>>)
    /\ UNCHANGED total_out

ClientCutText ==
    /\ At("running_waiting_data") /\ s.running_cmd = 6
    /\ LET n == Int32(SubSeq(buf, 4, 7))
       IN  Becomes([s EXCEPT !.ignore_data_n = n,
                             !.state = IF n # 0 THEN "running_waiting_data_ignore" ELSE "running_waiting_cmd"], <<>>)
    /\ UNCHANGED total_out

(* asserts that there is something to ignore: with a length of 2^31 or more, *)
(* which is a negative int, the process ends                                 *)
IgnoreData ==
    /\ At("running_waiting_data_ignore") /\ s.ignore_data_n > 0
    /\ Becomes([s EXCEPT !.ignore_data_n = -1, !.state = "running_waiting_cmd"], <<>>)
    /\ UNCHANGED total_out

UnknownCommand ==
    /\ At("running_waiting_data") /\ s.running_cmd \notin {0, 2, 3, 4, 5, 6}
    /\ Goes("terminate", <<[type |-> "fin"]>>)

(* the loop ends at its start, or by a recv_alloc that comes short *)
Stopped ==
    /\ stop
    /\ s.state = "initial_handshake_server_send" \/ Len(buf) < Need
    /\ Goes("terminate", <<[type |-> "fin"]>>)

Thread ==
    \/ RecvFunc \/ ServerSpeaks \/ ClientVersion \/ ClientSecurity \/ ClientInit \/ WaitingCmd
    \/ SetPixelFormat \/ SetEncodings \/ SetEncodingsData \/ UpdateRequest \/ IgnoreEvent
    \/ ClientCutText \/ IgnoreData \/ UnknownCommand \/ Stopped

-----------------------------------------------------------------------------
(* The client: run_in puts what comes from the TCP server in the queue.    *)

(* the next n bytes, or all there are when they are less *)
Push(n) ==
    LET left == Len(stream) - delivered
        k    == IF n < left THEN n ELSE left
    IN  /\ left > 0 /\ Len(incoming) < MaxIncoming /\ ~stop
        /\ incoming' = Append(incoming, SubSeq(stream, delivered + 1, delivered + k))
        /\ delivered' = delivered + k
        /\ UNCHANGED <<msgs, stream, buf, s, total_out, stop, out>>

(* the connection is closed, or run_meta was asked to *)
Close ==
    /\ ~stop /\ s.state # "terminate"
    /\ stop' = TRUE
    /\ UNCHANGED <<msgs, stream, delivered, incoming, buf, s, total_out, out>>

Next ==
    \/ Thread
    \/ \E n \in Cuts : Push(n)
    \/ Close

Spec == Init /\ [][Next]_vars

(* The thread runs; the client may fall silent at any byte. *)
FairSpec == Spec /\ WF_vars(Thread)

-----------------------------------------------------------------------------
(* Properties.                                                             *)

(* bytes that the thread took for good *)
Taken == delivered - Len(FlattenSeq(incoming)) - Len(buf)

(* However the stream was cut, the thread waits for a command only where one *)
(* of the client's messages starts: it takes no byte of the next message and *)
(* leaves none of the one before (recv_func with unpop, the sizes of the     *)
(* commands, the lists and texts that follow some of them).                  *)
InStep ==
    s.state = "running_waiting_cmd" /\ buf = <<>> =>
        \E k \in 3 .. Len(msgs) : Taken = Len(Bytes(SubSeq(msgs, 1, k)))

(* The session as the client sees it, from its messages and not its bytes:  *)
(* "on" until it ends, the encodings and pixel format in force, and what it *)
(* may expect to get.                                                       *)
Expect(e, m) ==
    LET Get(e1, x) == [e1 EXCEPT !.get = Append(@, x)]
        End(e1)    == [Get(e1, [type |-> "fin"]) EXCEPT !.on = FALSE]
    IN  IF ~e.on THEN e
        ELSE CASE m.type = "version"   -> IF m.good THEN Get(e, [type |-> "security"]) ELSE End(e)
               [] m.type = "security"  -> IF m.choice = 1 THEN Get(e, [type |-> "ok"]) ELSE End(Get(e, [type |-> "failed"]))
               [] m.type = "init"      -> Get(e, [type |-> "init"])
               [] m.type = "format"    -> [e EXCEPT !.format = m]
               [] m.type = "encodings" -> [e EXCEPT !.accepts = {0} \cup Range(m.list)]
               [] m.type = "request"   -> IF InBounds(m)
                                             THEN Get(e, [type |-> "update", request |-> m, accepts |-> e.accepts, format |-> e.format])
                                             ELSE e
               [] m.type = "unknown"   -> End(e)
               [] OTHER                -> e

NoFormat == [type |-> "none"]

Nothing == [on |-> TRUE, accepts |-> {0}, format |-> NoFormat, get |-> <<[type |-> "version"]>>]

Expected == FoldLeft(Expect, Nothing, msgs).get

(* what was sent before the session was told to stop *)
Answers == IF stop THEN SelectSeq(out, LAMBDA x : x.type # "fin") ELSE out

(* The client gets exactly the answers to what it sent, in its order: each  *)
(* update is of the rectangle that was asked for, in an encoding of the     *)
(* last SetEncodings before the request (or raw), in the last pixel format. *)
(* Before any SetPixelFormat the session's depth is 8, and not the 24 that  *)
(* ServerInit announced; that case is excepted.                             *)
AnswersAsAsked ==
    /\ Len(Answers) <= Len(Expected)
    /\ \A i \in DOMAIN Answers : LET a == Answers[i]
                                     e == Expected[i] IN
          /\ a.type = e.type
          /\ a.type = "update" =>
                /\ a.rect = [x |-> e.request.x, y |-> e.request.y, w |-> e.request.w, h |-> e.request.h]
                /\ a.ce \in e.accepts
                /\ e.format # NoFormat => a.depth = e.format.depth

(* The pixels of a rectangle, from left to right and top to bottom. *)
Raster(r) == [i \in 1 .. r.w * r.h |-> (r.y + (i - 1) \div r.w) * FbW + r.x + ((i - 1) % r.w)]

Tiles(r) ==
    LET across == r.w \div Tile IN
    [t \in 1 .. across * (r.h \div Tile) |->
        Raster([x |-> ((t - 1) % across) * Tile, y |-> ((t - 1) \div across) * Tile, w |-> Tile, h |-> Tile])]

(* the formats that calculate_fb_update and encode_pixel both have *)
Supported(f) == f = NoFormat \/ <<f.bpp, f.depth>> \in {<<32, 32>>, <<32, 24>>, <<8, 8>>}

(* An update over the full width of the frame buffer has the pixels that    *)
(* were asked for, each once and in the order of its encoding, and as many  *)
(* bytes as the client takes for it: from the bits per pixel of its format, *)
(* or from the size in front of compressed data.  Excepted are narrower     *)
(* rectangles, for which calculate_fb_update has other pixels (line 297),   *)
(* hextile and JPEG for those that do not start at the top, and formats     *)
(* other than 32 bits with depth 24 or 32 and 8 bits with depth 8: for      *)
(* these the header is sent and no pixels (lines 341-343).                  *)
UpdateWhole ==
    \A i \in DOMAIN Answers : LET a == Answers[i]
                                  e == Expected[i] IN
        a.type = "update" =>
          /\ a.rect.w = FbW /\ (a.ce \in {0, 6} \/ a.rect.y = 0) /\ Supported(e.format) =>
                a.pixels = IF a.ce = 5 THEN Tiles(a.rect) ELSE <<Raster(a.rect)>>
          /\ a.ce = 0 /\ e.format # NoFormat /\ Supported(e.format) =>
                8 * a.bytes = a.rect.w * a.rect.h * e.format.bpp
          /\ a.ce = 6 => a.announced = a.bytes

(* the client's messages of which every byte came in *)
Arrived == Cardinality({k \in DOMAIN msgs : Len(Bytes(SubSeq(msgs, 1, k))) <= delivered})

(* Whatever the cuts, what the client may expect for the messages that came *)
(* in is sent without another byte from it, unless the session is stopped:  *)
(* nothing gets stuck in the queue, and no request goes unanswered.  (The   *)
(* texts of the scripts are short; one of 2^31 bytes ends the process.)     *)
RequestAnswered ==
    []<>(stop \/ Len(out) >= Len(FoldLeft(Expect, Nothing, SubSeq(msgs, 1, Arrived)).get))
=============================================================================
