----------------------------- MODULE OmapiBuffer -----------------------------
(***************************************************************************)
(* The buffers of an OMAPI connection (omapip/buffer.c): each end keeps    *)
(* its outgoing and its incoming bytes in a list of ring buffers.  A ring  *)
(* of BufSize places holds at most BufSize - 1 bytes: head is the place    *)
(* before the oldest byte, tail the place of the next one.  copyin() and   *)
(* the writer move the bytes of the sending end to the socket, the reader  *)
(* and copyout() those of the socket to the protocol of the receiving end. *)
(* The bytes are numbered modulo Alphabet, so that a lost, repeated or     *)
(* displaced byte shows.                                                   *)
(***************************************************************************)
EXTENDS Integers, Sequences

CONSTANTS BufSize,    \* OMAPI_BUF_SIZE
          Alphabet,   \* number of different bytes, more than are ever under way
          MaxUnread,  \* the most bytes under way at once
          MaxRings,   \* the most outgoing rings: they are only freed when all
                      \* of them are empty
          Puts,       \* the sizes of what the protocol puts in
          Needs       \* the sizes of what the protocol asks for

VARIABLES outbufs,    \* c->outbufs of the sending end
          out_bytes,  \* c->out_bytes of the sending end
          wire,       \* the bytes in the sockets
          inbufs,     \* c->inbufs of the receiving end
          in_bytes,   \* c->in_bytes of the receiving end
          needed,     \* c->bytes_needed of the receiving end
          put         \* the next byte the sender will put in

vars == <<outbufs, out_bytes, wire, inbufs, in_bytes, needed, put>>

Last(s) == s[Len(s)]
Front(s) == SubSeq(s, 1, Len(s) - 1)
Lesser(m, n) == IF m < n THEN m ELSE n

(***************************************************************************)
(* One ring.                                                               *)
(***************************************************************************)

Cleared == Alphabet

omapi_buffer_new == [head |-> BufSize - 1, tail |-> 0,
                     buf |-> [i \in 0..(BufSize - 1) |-> Cleared]]

BUFFER_BYTES_FREE(b) == IF b.tail > b.head THEN BufSize - (b.tail - b.head)
                                           ELSE b.head - b.tail

BYTES_IN_BUFFER(b) == IF b.tail > b.head THEN b.tail - b.head - 1
                                         ELSE BufSize - (b.head - b.tail) - 1

\* The places that can be filled, and the bytes that can be taken, without
\* wrapping: what one read(), write() or memcpy() handles.
FreeRun(b) == IF b.tail > b.head THEN BufSize - b.tail ELSE b.head - b.tail

FirstByte(b) == IF b.head = BufSize - 1 THEN 0 ELSE b.head + 1

FullRun(b) == IF FirstByte(b) > b.tail THEN BufSize - FirstByte(b)
                                       ELSE b.tail - FirstByte(b)

\* bytes, no more of them than FreeRun(b), stored behind the tail.
Stored(b, bytes) ==
    LET t == b.tail + Len(bytes) IN
    [b EXCEPT !.buf = [i \in DOMAIN b.buf |->
                         IF i \in b.tail..(t - 1) THEN bytes[i - b.tail + 1]
                                                  ELSE b.buf[i]],
              !.tail = IF t = BufSize THEN 0 ELSE t]

Run(b, n) == [i \in 1..n |-> b.buf[FirstByte(b) + i - 1]]

\* The place of a byte that was taken keeps it; here it is cleared, so that
\* states do not differ in bytes that are gone.
Taken(b, n) ==
    LET h == FirstByte(b) + n - 1 IN
    [b EXCEPT !.head = h,
              !.buf = [i \in DOMAIN b.buf |->
                         IF i \in FirstByte(b)..h THEN Cleared ELSE b.buf[i]]]

\* The bytes of a ring and of a list of rings, oldest first.
Content(b) == [i \in 1..BYTES_IN_BUFFER(b) |-> b.buf[(b.head + i) % BufSize]]
RECURSIVE Contents(_)
Contents(bufs) == IF bufs = << >> THEN << >>
                  ELSE Content(Head(bufs)) \o Contents(Tail(bufs))

(***************************************************************************)
(* The lists.                                                              *)
(***************************************************************************)

\* Bytes stored run by run in the last ring; a full one gets a successor.
RECURSIVE Filled(_, _)
Filled(bufs, bytes) ==
    IF bytes = << >> THEN bufs
    ELSE IF BUFFER_BYTES_FREE(Last(bufs)) = 0
         THEN Filled(Append(bufs, omapi_buffer_new), bytes)
         ELSE LET n == Lesser(FreeRun(Last(bufs)), Len(bytes))
              IN  Filled(Append(Front(bufs),
                                Stored(Last(bufs), SubSeq(bytes, 1, n))),
                         SubSeq(bytes, n + 1, Len(bytes)))

omapi_connection_copyin(bufs, bytes) ==
    Filled(IF bufs = << >> THEN <<omapi_buffer_new>> ELSE bufs, bytes)

RECURSIVE Drained_swapped(_, _, _)
Drained_swapped(bufs, i, n) ==
    IF n = 0 THEN [bufs |-> bufs, bytes |-> << >>]
    ELSE IF BYTES_IN_BUFFER(bufs[i]) = 0 THEN Drained_swapped(bufs, i + 1, n)
    ELSE LET k == Lesser(FullRun(bufs[i]), n)
             d == Drained_swapped([bufs EXCEPT ![i] = Taken(@, k)], i, n - k)
         IN  [d EXCEPT !.bytes = @ \o Run(bufs[i], k)]

\* n bytes taken run by run, from ring i on: the rings they leave, and the bytes.
RECURSIVE Drained(_, _, _)
Drained(bufs, i, n) ==
    IF n = 0 THEN [bufs |-> bufs, bytes |-> << >>]
    ELSE IF BYTES_IN_BUFFER(bufs[i]) = 0 THEN Drained(bufs, i + 1, n)
    ELSE LET k == Lesser(FullRun(bufs[i]), n)
             d == Drained([bufs EXCEPT ![i] = Taken(@, k)], i, n - k)
         IN  [d EXCEPT !.bytes = Run(bufs[i], k) \o @]

\* The leading rings that are empty are freed.
Freed(bufs) ==
    LET used == {i \in DOMAIN bufs : BYTES_IN_BUFFER(bufs[i]) > 0} IN
    IF used = {} THEN << >>
    ELSE SubSeq(bufs, CHOOSE i \in used : \A j \in used : i <= j, Len(bufs))

omapi_connection_copyout(bufs, n) ==
    LET d == Drained(bufs, 1, n) IN [d EXCEPT !.bufs = Freed(@)]

\* The reader fills the last ring only, or a new one when that is full.
ReadRing(bufs) ==
    IF bufs = << >> \/ BUFFER_BYTES_FREE(Last(bufs)) = 0
    THEN Append(bufs, omapi_buffer_new) ELSE bufs

(***************************************************************************)
(* The protocol above the receiving end: each time the bytes it asked for  *)
(* are there it takes them and asks for more ("ready" and                  *)
(* omapi_connection_require()).                                            *)
(***************************************************************************)

RECURSIVE Signalled(_)
Signalled(w) ==
    IF w.needed > w.bytes THEN {w}
    ELSE UNION {Signalled([bufs   |-> omapi_connection_copyout(w.bufs, w.needed).bufs,
                           bytes  |-> w.bytes - w.needed,
                           needed |-> n]) : n \in Needs}

(***************************************************************************)
(* The actions.                                                            *)
(***************************************************************************)

Init == /\ outbufs = << >> /\ out_bytes = 0
        /\ wire = << >>
        /\ inbufs = << >> /\ in_bytes = 0
        /\ needed \in Needs
        /\ put = 0

UnderWay == Contents(inbufs) \o wire \o Contents(outbufs)

\* The sending protocol puts n bytes in.
Copyin(n) ==
    /\ Len(UnderWay) + n <= MaxUnread
    /\ Len(outbufs) < MaxRings
    /\ outbufs' = omapi_connection_copyin(outbufs,
                      [i \in 1..n |-> (put + i - 1) % Alphabet])
    /\ out_bytes' = out_bytes + n
    /\ put' = (put + n) % Alphabet
    /\ UNCHANGED <<wire, inbufs, in_bytes, needed>>

\* The socket takes n of the bytes.  Only a writer that has written all of
\* them frees the rings it emptied.
omapi_connection_writer(n) ==
    /\ out_bytes > 0
    /\ n <= out_bytes
    /\ LET d == Drained(outbufs, 1, n) IN
       /\ outbufs' = IF n = out_bytes THEN Freed(d.bufs) ELSE d.bufs
       /\ wire' = wire \o d.bytes
    /\ out_bytes' = out_bytes - n
    /\ UNCHANGED <<inbufs, in_bytes, needed, put>>

Satisfied_full == in_bytes >= BufSize - 1

\* The reader has enough: a ring full of bytes, more than were asked for.
Satisfied == in_bytes >= BufSize - 1 /\ in_bytes > needed

\* n bytes have arrived; the reader takes what the last ring has room for.
omapi_connection_reader(n) ==
    /\ ~Satisfied
    /\ n <= Len(wire)
    /\ LET bufs == ReadRing(inbufs)
           k    == Lesser(n, BUFFER_BYTES_FREE(Last(bufs)))
       IN  /\ \E w \in Signalled([bufs   |-> Filled(bufs, SubSeq(wire, 1, k)),
                                  bytes  |-> in_bytes + k,
                                  needed |-> needed]) :
                 inbufs' = w.bufs /\ in_bytes' = w.bytes /\ needed' = w.needed
           /\ wire' = SubSeq(wire, k + 1, Len(wire))
    /\ UNCHANGED <<outbufs, out_bytes, put>>

\* The dispatcher calls the writer while there are bytes to write, and the
\* reader while there are bytes to read and it would take them.
Moves == \/ \E n \in 1..MaxUnread : omapi_connection_writer(n)
         \/ \E n \in 1..MaxUnread : omapi_connection_reader(n)
CanMove == out_bytes > 0 \/ (wire # << >> /\ ~Satisfied)

Next == (\E n \in Puts : Copyin(n)) \/ Moves

Spec == Init /\ [][Next]_vars

\* Weak fairness of Moves.
LiveSpec == Spec /\ ([]<>~CanMove \/ []<><<Moves>>_vars)

(***************************************************************************)
(* Properties.                                                             *)
(***************************************************************************)

\* in_bytes and out_bytes, which decide whether the protocol is signalled
\* and whether a closing connection still has something to write, are what
\* the rings hold, no ring of the incoming list is empty except a lone one,
\* and the bytes under way are consecutive ones, up to the last one put in.
BuffersSound ==
    /\ in_bytes = Len(Contents(inbufs))
    /\ out_bytes = Len(Contents(outbufs))
    /\ \A i \in DOMAIN inbufs : BYTES_IN_BUFFER(inbufs[i]) > 0
    /\ \A i \in DOMAIN UnderWay :
          UnderWay[i] = (put - Len(UnderWay) + i - 1) % Alphabet

\* The rings implement the queue of bytes.
Stream == INSTANCE OmapiStream WITH q <- UnderWay
ImplementsStream == Stream!Spec

\* A protocol that waits for bytes that have been put in gets them, also when
\* it waits for more than a ring holds: it does not for ever have enough under
\* way and take nothing.
Took == Len(UnderWay') < Len(UnderWay)
NeededBytesCome == []<>(needed > Len(UnderWay)) \/ []<><<Took>>_vars
=============================================================================
