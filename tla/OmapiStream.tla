----------------------------- MODULE OmapiStream -----------------------------
(***************************************************************************)
(* What an OMAPI connection promises the protocol above it: a queue of     *)
(* bytes.  What one end puts in comes out of the other end in the same     *)
(* order, each byte once, and a reader that asks for n bytes gets n bytes  *)
(* or nothing.  OmapiBuffer, the ring buffers of omapip/buffer.c, is shown *)
(* to implement this specification.                                        *)
(***************************************************************************)
EXTENDS Naturals, Sequences

CONSTANTS Alphabet,   \* the values a byte can have: 0 .. Alphabet - 1
          MaxUnread   \* the most bytes ever under way

VARIABLES q           \* the bytes under way, oldest first

Bytes == 0..(Alphabet - 1)

Init == q = << >>

\* The writing end appends some bytes.
Put == \E n \in 1..(MaxUnread - Len(q)) :
          /\ Len(q') = Len(q) + n
          /\ SubSeq(q', 1, Len(q)) = q

\* The reading end takes the oldest bytes.
Get == \E n \in 1..Len(q) : q' = SubSeq(q, n + 1, Len(q))

Next == Put \/ Get

Spec == Init /\ [][Next]_q
=============================================================================
