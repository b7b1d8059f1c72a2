----------------------------- MODULE MCShmQueue -----------------------------
(* Instances of ShmQueue for TLC, and the queue it implements.             *)
EXTENDS ShmQueue, TLC

Symmetry == Permutations(Senders) \cup Permutations(Receivers)

(* A request that blocks, one that is dropped when the queue is full (with *)
(* the type allocate_shm_message leaves), and an answer to request 1.      *)
MCRequests ==
    {[size |-> 2, type |-> "new",   nr |-> 0, blocking |-> TRUE],
     [size |-> 1, type |-> "any",   nr |-> 0, blocking |-> FALSE],
     [size |-> 1, type |-> "reply", nr |-> 1, blocking |-> FALSE]}

(* The searches of the servers: anything, new requests only, and the       *)
(* answer to request 1.                                                    *)
MCSearches ==
    {[type |-> "any",   nr |-> AnyNr, timed |-> TRUE],
     [type |-> "new",   nr |-> AnyNr, timed |-> TRUE],
     [type |-> "reply", nr |-> 1,     timed |-> FALSE]}

(* For liveness: all sends block, one message can never fit, and the       *)
(* receivers take whatever comes.                                          *)
BlockingRequests ==
    {[size |-> z, type |-> "new", nr |-> 0, blocking |-> TRUE] : z \in Sizes}
AnySearch == {[type |-> "any", nr |-> AnyNr, timed |-> TRUE]}

(* the i-th message from the start of data[], without its offset *)
Nth(i) ==
    LET d == CHOOSE d \in data : Cardinality({e \in data : e.at < d.at}) = i - 1
    IN  [size |-> d.size, type |-> d.type, nr |-> d.nr]

Q == INSTANCE MsgQueue WITH
        contents <- [i \in 1 .. Cardinality(data) |-> Nth(i)],
        Messages <- [size : Sizes, type : Types, nr : 0 .. MaxNr],
        Answers  <- Matches

(* The segment, with its mutex, condition variables, offsets, two-step      *)
(* removal and crashes, is a bounded queue with selective receive: messages *)
(* enter at the end and leave from the first match, whole, or all at once   *)
(* when the owner restarts.                                                 *)
ImplementsMsgQueue == Q!Spec
=============================================================================
