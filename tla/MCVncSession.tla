---------------------------- MODULE MCVncSession ----------------------------
(* Clients that break off the handshake, and clients that ask for the      *)
(* frame, set something, and ask for some of it.                           *)
EXTENDS VncSession

Version(g) == [type |-> "version", good |-> g]

Security(c) == [type |-> "security", choice |-> c]

Request(px, py, pw, ph) == [type |-> "request", x |-> px, y |-> py, w |-> pw, h |-> ph]

Format(b, d) == [type |-> "format", bpp |-> b, depth |-> d]

EncodingList(l) == [type |-> "encodings", list |-> l]

Handshake == <<Version(TRUE), Security(1), [type |-> "init"]>>

All == Request(0, 0, FbW, FbH)

Settings ==
    {Format(32, 24), Format(8, 8), Format(16, 16),
     EncodingList(<<>>), EncodingList(<<6>>), EncodingList(<<5, 21>>), EncodingList(<<21, 0, 5>>)}

Skippable ==
    {[type |-> "key"], [type |-> "pointer"], [type |-> "cut", n |-> 0], [type |-> "cut", n |-> 2], [type |-> "unknown"]}

SomeScripts ==
    {<<Version(FALSE), Security(1)>>, <<Version(TRUE), Security(2), All>>}
      \cup {Handshake \o <<a, All, b, r>> :
               a \in Settings, b \in Settings \cup Skippable, r \in {All, Request(0, 1, FbW, 1), Request(1, 0, FbW, 1)}}
=============================================================================
