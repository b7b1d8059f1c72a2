------------------------------ MODULE MsgQueue ------------------------------
(***************************************************************************)
(* What a shared-memory queue promises: a bounded sequence of messages to  *)
(* which messages are appended whole, from which the first that answers a  *)
(* search is removed whole, and which its owner may empty.                 *)
(***************************************************************************)
EXTENDS Integers, SequencesExt

CONSTANTS Messages, Searches, Capacity, Answers(_, _)

VARIABLE contents

Used(q) == FoldSeq(LAMBDA d, used : d.size + used, 0, q)

Put ==
    \E d \in Messages :
        /\ Used(contents) + d.size <= Capacity
        /\ contents' = Append(contents, d)

Take ==
    \E q \in Searches, i \in DOMAIN contents :
        /\ Answers(q, contents[i])
        /\ \A j \in 1 .. i - 1 : ~Answers(q, contents[j])
        /\ contents' = RemoveAt(contents, i)

Reset == contents' = <<>>

Spec == contents = <<>> /\ [][Put \/ Take \/ Reset]_contents
=============================================================================
