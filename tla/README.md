# MyIP-NG in TLA+

MyIP-NG is a TCP/IP stack in user space. Every protocol is a server process of
its own; the processes are connected by message queues in shared memory. This
directory has models of those servers, the TLC runs that check them on small
instances, and proofs, checked by TLAPS, for the parts all others rest on, the
queue and the layout of what goes through it, and for the packets that wait for
their MAC addresses in the IP4 server.

Paths below are relative to the repository; line numbers are those of the code
the modules were written from. `PROJECT.json` maps every definition to its lines.

## The system and its parts

    device <-> tap / promisc <-> ip4 <-> icmp
                    |             |  <-> udp <-> ntp
                   arp <----------+  <-> tcp <-> http(s), gopher, vnc, time

| part | state | operations | who it talks to | what is hard about it |
|---|---|---|---|---|
| message queue, `src/utils/shm.cpp` | a segment per queue: robust mutex, two condition variables, `filled`, `most_recent_msg_nr`, messages back to back | `begin`, `send_message` (blocking or not), `wait_for_message` (by type and number, with a time-out) | everyone | any process may die anywhere; re-locking inside a condition wait; several waiters on one condition; a full queue |
| TCP, `src/tcp_server.cpp` | session map under `sessions_lock`; per session sequence numbers, buffer, in flight, FIN flags | `run_in`, `run_out` with its sender, `run_meta`, `run_clean` | IP4 below, L7 servers above | segments lost, repeated and reordered; wrap of sequence numbers; SYN cookies; locks let go half way; sends that fail |
| L7 servers, `src/{http,gopher,vnc,time}_server.cpp`, `src/utils/tcp-helpers.cpp` | map of sessions, a thread and a queue per session | `run_in`, `run_meta`, session threads | TCP | an id used again; a thread that waits while it is told to stop; joins under a lock |
| IP4 way out, `src/ip4_server.cpp` | `pending_messages`: two records per packet, by request number | `run_out`, `th_sender`, `th_cleaner` | ARP, link layer | three threads and two keys for one heap object; replies late, twice or wrong |
| IP4 way in, same file | `packets`: fragments by id | `run_in`, cleaner | link layer, ICMP, UDP, TCP | order of checks; fragments in any order |
| ARP, `src/arp_server.cpp` | cache, list of waiting requests | `run_resolver`, `run_in` | IP4, link layer | look-up, push and reply under two locks taken one after the other |
| meta queues (`cfg_runtime`, `run_meta`) | own addresses | ask, wait, ask again | ARP and TCP ask link layer and IP4 | late answers; numbers that are equal by chance; restarts |
| VNC protocol, `src/vnc_server.cpp` | state of the session, pixel format, encodings, frame buffer | `process_vnc_request`, `calculate_fb_update` | TCP, through `recv_func` and `send_func` | a stream that is cut anywhere; what is set by one message and used by a later one |
| message layout and checksum, `src/utils/shm_message.cpp`, `checksum.cpp` | none | `wrap_*`, `unwrap_*`, `ip_checksum` | everyone | pointers into a message, of which readers may read on past the end |
| link layer, ICMP, UDP, NTP | none between messages | `run_in`, `run_out`, `run_err` | see the drawing | what one server checks and the next relies on; lengths that count headers or not |

Not modelled: reading configuration files, the summing of checksums over bytes
and SipHash (a checksum of what comes in is right or wrong, different inputs have
different hashes), address types, logging, fonts and the values of pixels of the
VNC server, TCP options, and the test programs. They have no state that two steps
could disagree about. `PROJECT.json` has each
with its reason, and all hazards at the line where they bite.

## Modules

| module | models | with |
|---|---|---|
| `ShmQueue` | one queue, its senders, its receivers and crashes of all of them | `MCShmQueue` |
| `MsgQueue` | what a queue promises: bounded, first that matches, at most once | refined by `ShmQueue` (`ImplementsMsgQueue`) |
| `ShmQueueProofs` | theorems about the segment: types, exclusion, layout | |
| `ShmQueueNumberProofs`, `ShmQueueWakeupProofs` | theorems about message numbers and about wake-ups | |
| `Wrapping` | the layouts of messages, and the folding of a checksum | used by `Datagram` |
| `WireProofs` | theorems about `Wrapping` | |
| `TcpServer` | the TCP server for one session id | |
| `TcpTransfer` | `TcpServer` with a peer that repeats what is not acknowledged, over a network that loses and reorders | `MCTcpServer` |
| `L7Sessions` | the four L7 servers; the TCP server as they see it | `MCL7Sessions` |
| `VncSession` | the RFB protocol of one session, byte by byte | `MCVncSession` |
| `Ip4Out` | sending with address resolution | |
| `Ip4OutProofs` | theorems about `Ip4Out` | |
| `ArpServer` | the resolver | as a part of `Resolve` |
| `Resolve` | `Ip4Out` and `ArpServer` composed | `MCResolve` |
| `Ip4Frag` | cutting up and reassembly, with a network between | |
| `Ip4Server` | `Ip4Out` and `Ip4Frag` as the two halves of the IP4 server | `MCIp4Server` |
| `MetaConfig` | `cfg_runtime` and `run_meta` | `MCMetaConfig` |
| `Datagram` | link layer, IP4 way in, ICMP, UDP, NTP as a pipeline | |

Names of variables, actions and record fields are those of the code where TLA+
allows it. Some definitions stand just before another with nearly its name
(`RecvFuncDropsRest` before `RecvFunc`): these are faults a programmer might make, kept to
show that a property notices them (`PROJECT.json`, "mutants"). Ghost variables,
which no code has, are named in the comments at their declarations.

**ShmQueue.** A step is a critical section or a part of one: it is split where
a crash leaves a different segment behind (between `memmove` and the update of
`filled`, between the update and the broadcast). `robust` is the state of the
robust mutex. `data` is a set of messages with offsets, so that `Layout` can say
they are back to back.

**TcpServer.** `run_in` holds the lock for a whole packet, so a packet is one
action, written as stages on a record of the function's locals; only where the
code unlocks (insertion of a session, quick release) are there more. Sequence
numbers are modulo `Modulus` and compared as the code compares them. What surrounds
the server in a behaviour (the segments that may arrive, the sends that may fail,
whether the port is mapped) is the record `net`, chosen from `Scenarios` at the start.
The sends of one packet that find a queue full are a set, `full`: OPEN, data and CLOSE to
the L7 server, ACKs and segments to the IP server. `refused` counts the CLOSEs lost that way,
`unsent` says that the last segment of the sender was. `run_clean` may remove a session as soon
as it has ended: it takes the time before it waits for the lock and subtracts unsigned numbers
(lines 1087-1094), so `TCP_WAIT_FIN` is no guarantee.

**TcpTransfer.** Three of the scenarios replace the arbitrary segments by a peer, which is
not code of the repository: it opens a connection, sends its bytes and its FIN, takes
segments in order, acknowledges what it has and repeats what is not acknowledged.
`toServer` and `toPeer` are queues of the segments in transit; a segment lost, repeated
or overtaken, and a full queue of the server's, is a fault, of which there are a bounded
number. The server's steps are those of `TcpServer`.

**VncSession.** The client's messages become a stream that arrives in pieces of any
size; `recv_func` puts the rest of a piece back. A pixel is its place in the frame
buffer, so that an update can be compared with the rectangle that was asked for.

**L7Sessions.** `objs` are the session objects ever made, `sessions` the map to
them. Which server a behaviour is about is `server`, chosen at the start. A
connection number goes with each message, to tell answers of two
connections with one id apart. The TCP server sends the OPEN first and enters the session
in its map after it (`opening`), drops what is written in between (`early`), loses a CLOSE that
finds the queue full (`lost`), and sends one when an ACK could not be sent though the session
goes on.

**Ip4Out, ArpServer, Resolve.** `pm` are the heap objects, `pending` the map from
numbers to them, `freed` counts the frees. In `Resolve` the queues of the one are
those of the other. `request::msg_nr` of the ARP server is never set; the
constant `Uninitialised` is the set of values it may have. `stray` remembers that a
reply with such a number, other than one that no queue gives out, has been sent.

**Ip4Frag.** Bytes are named by their place in the payload; `Garbage` is memory
never written.

**MetaConfig.** `start` counts the starts of a server, and stands for its address.

**Datagram.** A frame is a sequence of cells, fields of four bytes from the IP header
on, and has a set of flaws, each a wrong cell, a missing one or a wrong checksum. Servers
unwrap a message and wrap what they send with the operators of `Wrapping`; a server is
an operator from a message to what it sends. `n` and all flaws but the two checksums
are only for the properties. `dev` is the link layer server in use.
A frame may be broadcast, which stands for multicast as well.

**Wrapping.** A wrapped message is a record with the lengths and `data`. `Read` reads
anywhere in `data`, as the code can with the pointers that it gets.

## Runs

"Violation" runs check what a comment, log line or test of the repository says,
and TLC shows a behaviour of the code that differs; the line is quoted under
"findings" in `PROJECT.json`.

| run | checks | shows |
|---|---|---|
| `shm` | `TypeOK`, `MutualExclusion`, `Layout`, `NeverScanTorn`, `NumbersUnique`, `DeliveredOnce`, `ReceiverWakeup`, `SenderWakeup`, `ImplementsMsgQueue` | Two senders and one receiver, any of which may die at any point: exclusion, buffer layout, numbering, at-most-once delivery, no lost wake-up, and the segment implements the bounded queue with selective receive of MsgQueue. |
| `shm_live` | `SendReturns` | Without crashes every blocking send of a message that fits returns, also with a message that can never fit blocking next to it. |
| `shm_begin` | `BeginSucceeds` (violation) | An owner death noticed inside pthread_cond_wait makes the mutex unrecoverable, and begin() of every later server fails. |
| `tcp` | `StreamIn`, `AckedIsDelivered`, `StreamOut`, `NoSilentRemoval`, `PeerHeard`, `L7Heard` | One session id in nine surroundings: bytes from the peer cut up, repeated and out of order past the wrap of the sequence numbers; ACKs of every number, for what is sent below and across the wrap; two sessions after each other with FIN, RST, quick release, a CLOSE that is refused and two cookie slots; a port that is not mapped; sessions opened by run_meta; and a peer that sends again what is not acknowledged, over a network that loses, repeats and reorders (two uploads, one that ends with a FIN) or repeats and reorders (a download). |
| `tcp_release` | `DeletedOnce` (violation) | run_clean deletes a session while the quick release waits for the lock to delete it. |
| `l7` | `NothingAfterFin`, `MapHoldsLive`, `OwnAnswers`, `Greeted`, `StoppedEnds`, `Terminates` | HTTP with and without TLS, Gopher, VNC and time servers, with resets, lost CLOSEs, sessions that are not in the TCP server's map yet, ids taken again at once, SIGTERM and full queues: connections are not mixed, nothing follows a FIN, and what was told to stop stops. |
| `vnc` | `InStep`, `AnswersAsAsked`, `UpdateWhole`, `RequestAnswered` | A VNC session with clients of many kinds whose bytes come in pieces of any mix of sizes: the session stays in step with the client's messages and answers each as it asked. |
| `ip4` | `FreedOnce`, `RecordsLive`, `NotForgotten`, `DeliveredWhole`, `NothingLeftBehind`, `EventuallyGone` | Both ways through the IP4 server. Out: packets queued, replied to in any order and with any number, refused and given up; memory is freed once, no record dangles, no packet is forgotten, and each is sent or given up. In: fragments reordered, repeated, lost and forgotten; a payload is delivered as it was sent. |
| `resolve` | `RightAddresses`, `NoOrphans` | The IP4 and ARP servers together, for a host on the subnet and one behind the gateway, with crossing and lost replies, questions of other hosts and a request number that was never set: frames carry the right addresses, and no request is left waiting with nothing to wake it. |
| `resolve_waiting` | `AnsweredIsNotWaiting` (violation) | The first packet to a host is not sent though its ARP reply came in. |
| `meta` | `FewUnderWay`, `NotStale`, `Configured` | The ARP and TCP servers ask the tap and IP4 servers, which restart: late answers and equal numbers do not give them an old address, only time-outs fill their queues, and every server gets its addresses. |
| `datagram` | `AnswersMatch`, `OnlyGoodAnswered`, `Answered` | Up to three frames of different hosts, some broadcast, with IP options, padding and flaws of every kind, on their way through servers with queues of one message, over either link layer: each gets at most one answer, which goes to the right host and carries what it should, nothing flawed is answered, and what is good is answered unless it was lost. |

## What the code does not guarantee

Properties say what holds; several have an exception, and each exception is
something the model reaches. Besides the three violation runs, these are:

* Queue: `begin` empties the queue without waking senders that wait for room
  (`forgotten` in `SenderWakeup`). A receiver whose timed wait notices the death
  of a sender returns with the mutex locked.
* TCP: data before the first segment that has a valid cookie is skipped and
  acknowledged; a FIN is counted whatever its sequence number, also with data that the L7
  server's queue refused (`Receiving` ends at the FIN). A repeated SYN/ACK moves
  a client session's `peer_seq` (`Receiving` is about server sessions). An ACK from
  beyond the wrap is taken for out of range, and what it acknowledges is sent for ever.
  After the FIN nothing is sent again, and a segment that the IP server's queue refused
  counts as sent (`unsent`). A CLOSE that the L7 server's queue refuses is not repeated
  (`refused`): when it followed an ACK that could not be sent, the session goes on and
  bytes come twice; otherwise the L7 session is never told.
  A handshake across two cookie slots is refused. A session that takes an id
  between `run_clean`'s scan and its delete is removed silently (`stale`). What the
  L7 server writes before the session is in the map is dropped (`dropped`).
* L7: without TLS, and in Gopher, a session waits for the rest of a request for
  ever, so HTTP does not stop on SIGTERM. The time server answers every
  message of a connection. An OPEN for an id whose old session is not yet cleaned up goes
  to the old session (`reused`). A greeting written before the TCP server has the session
  in its map is lost (`early`), and a server with TLS that was not told of the end of a
  connection (`lost`) does not stop.
* ARP: a request that was lost is not repeated; two requests for one address are
  both sent; a reply with a number that happens to be waited for gives
  the address to another packet (`stray`).
* Meta: late answers stay in the queue; when it is full of them `Configured` is false.
  `FewUnderWay` says that nothing else fills it.
* UDP and NTP: the UDP server counts its header to the payload, so an NTP request 8
  bytes too short is answered, with the start of its IP packet as time stamp; what goes
  out is 4 bytes longer than its payload, and these bytes are never written.
* VNC: rectangles narrower than the frame buffer get pixels of other rows, hextile and
  JPEG always start at the corner, before any SetPixelFormat the depth is 8, and a format other
  than 32 and 8 bits gets the header of an update without pixels.
* Link layer: the promiscuous server never frees a message, the tap server frees one
  twice when the device refuses it.

## Bounds

Every bound is a constant of the module or a field of a scenario, and named there.

* Queue: two senders, one receiver thread, room for three units with messages of
  one and two. Full, exactly full and removal in the middle all happen. The safety
  run has one crash, of a sender or of the owner, which may start again: enough to leave
  a broken segment and to meet it. `shm_begin` has two and `shm_live` none. The senders are
  interchangeable and used as a symmetry set in the safety run only.
* TCP: `Modulus = 8`, `Mss = 2`. Each scenario has the segments that its question
  needs, any number of times and in any order. The numbers of the peer start at 5, and those of
  the server at 2 and, in one scenario, at 6, so that both directions cross the wrap. Which sends
  may fail together is a set of sets (`mayFail`); one CLOSE per session is refused (`MaxRefused`).
  Two sessions where an id is used again.
  The peers send two bytes (in segments of one or two), or one and a FIN, with two faults of
  the network, or take three bytes with one. A peer sends again while fewer than two
  segments are in transit (`MaxWire`).
* VNC: a frame buffer of four by two pixels and tiles of two by two: more than one row and
  more than one tile. A client asks for the frame, sets or sends something before each of two
  requests; its bytes come in pieces of three or as many as there are, so that messages are cut
  inside and joined.
* L7: one id, two connections after each other (one with TLS and for VNC with data), one
  or two messages each, and queues of one message, so that a full queue is common and CLOSEs
  get lost; the queue of one of the two VNC servers holds all messages.
* IP4 and ARP: two packets, which is enough for replies to cross; to a host on
  the subnet, to the gateway or to a host behind it. Two fragments where the link layer may refuse the second. In
  `resolve` one message is lost, and three packets, refused ones included, and
  questions of other hosts come in. The number that was never set is one that is
  not in use or that of another packet.
* Fragments: unit 2, room 3, payloads up to 5 bytes: one to three fragments, a last
  one that is shorter, room that is not a multiple of the unit; two packets, each
  fragment up to twice.
* Meta: two starts of each server, two time-outs, queues of two messages.
* Datagram: frames and flaws together are three: three good frames, two of which
  one has a flaw, or one with two flaws, which shows the order of any two checks. Pings
  with padding and with IP options; NTP requests of 48, 40 and 36 bytes, about the length
  where the check for 48 changes.

Deadlock is checked in `shm_live` only. Elsewhere the behaviours end
because a bound is reached, a server was stopped or a crash left it stopped.

## Fairness

* Queue: a thread that can go on does (WF). A thread that wants the mutex gets it
  if it is free again and again (SF), which is what `pthread_mutex_lock` gives in practice; no
  fairness of crashes, and none for callers to call.
* TCP: what can be handled is handled by the server's loops, the peer repeats what is not
  acknowledged, and faults of the network end (their number is a bound) (WF). `L7Heard`
  is stated for a network that loses nothing the server sends, and no ACK: there is no timer in
  the server to repeat it. It leaves out a peer that sends a FIN itself: once both FINs are
  out, `run_clean` may remove the session, and the RST that an ACK then gets may overtake what
  was sent.
* VNC: the session's thread runs (WF); that the client's bytes arrive is not assumed, for
  `RequestAnswered` is about what did arrive.
* L7: the loops of `run_in` and the session threads, and the TCP server taking from
  its queue (WF). Peers need not do anything.
* IP4: only `th_cleaner` (WF), which runs on a timer. No reply is assumed.
* Meta: `cfg_runtime`, `run_meta` (WF), and that servers are started.
* Datagram: the loop of each server (WF); the device may refuse or accept.

## Proofs

`ShmQueueProofs` (the first four), `ShmQueueNumberProofs` and `ShmQueueWakeupProofs`
prove, for any number of senders and receivers, sizes, messages and crashes:

| theorem | says |
|---|---|
| `TypeCorrect` | types; `filled` is never above `total_size` nor below zero |
| `Exclusion` | one thread at a time in the segment, through crashes |
| `LayoutCorrect` | `data[]` is a row of whole messages that ends at `filled` |
| `ScansWholeMessages` | no scan over bytes a dead receiver was moving |
| `NumbersAreUnique`, `AtMostOnce` | numbers of requests are not repeated, no request is returned twice |
| `ReceiversAreWoken`, `SendersAreWoken` | no lost wake-up, except across a sender's death and across `begin` |

`WireProofs` proves, for pieces of any length:

| theorem | says |
|---|---|
| `UnwrapsUp`, `UnwrapsDown`, `UnwrapsUpTcp` | what was wrapped comes out again |
| `ReadsOnIntoPacket` | past the payload lies the packet, on which the ICMP server relies |
| `ChecksumVerifies` | with its checksum filled in, a packet of up to 65536 words sums up to a checksum of zero: the two foldings of `ip_checksum` are enough |

The first four cut the concatenation at the lengths (`ReadPieces`); the last splits
the sum in quotient and remainder by 65536 and looks at whether their sum carries.

`Ip4OutProofs` proves, for any number of packets, of fragments and of addresses, and any replies:

| theorem | says |
|---|---|
| `FreedAtMostOnce` | the `queued_msg` of a packet is freed at most once |
| `RecordsAreLive` | no record in `pending_messages` leads to a packet that was freed, or that has other numbers |
| `NoneForgotten` | a packet that waits has a record for each address it misses |

They assume `Ip4OutAssumption` of `Ip4Out`. None of the three is inductive: that a
packet is freed once follows from its having no record left, and that only as the
numbers of two packets differ. Its `IInv` says that: no number is shared by
packets nor above the counter (`NumbersDiffer`), a record's number is of its
packet (`OwnRecords`), and a packet either has records for exactly the addresses it
misses, at least one, or is freed and has none (`Exact`). `th_cleaner` frees a
packet with two records for the lower of its numbers only (`FreeingOne`).

The theorems about the queue assume `ThreadsAssumption`, `SizesAssumption` and `CallsAssumption` of
`ShmQueue`: thread names differ, sizes are positive, arguments have their types.

The inductive invariant `IInv` adds to the type invariant and `Layout` what the
steps hand on to each other: the holder of the mutex is the one inside a critical
section (`HolderInside`; exclusion alone is not inductive, since a step looks at
`holder`, not at the other threads); receivers run only when the owner does
(`RunningOwner`); what a receiver is about to remove is still in `data`
(`Removing`, without which `filled` could fall below zero); and a torn segment
has a dead owner or a receiver in the act (`TornExplained`). `Numbering` (no number
above the counter, none in two places) and the two wake-up invariants are then inductive relative to `IInv`. There is one lemma
per conjunct, with one case per action that can disturb it.

Only model-checked: liveness, the refinement of `MsgQueue`, and the modules other
than `ShmQueue`, `Wrapping` and `Ip4Out`.

## Left for later

1. `MetaConfig`: `NotStale` for any number of restarts; it is the numbers' order.
2. The refinement of `MsgQueue` as a theorem.
3. `TcpServer` with two ids, and with an L7 server of `L7Sessions` above it.
4. The values of pixels in VNC updates, and the TCP options.
5. A new segment between `ftruncate` and `pthread_mutex_init`.
