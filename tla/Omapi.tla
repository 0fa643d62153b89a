------------------------------- MODULE Omapi -------------------------------
(***************************************************************************)
(* OMAPI sessions: a program that uses dhcpctl (dhcpctl/dhcpctl.c and      *)
(* remote.c) and the server, over the connection, protocol, message and    *)
(* dispatch layers of omapip/.  The program runs in one thread and does    *)
(* its input and output while it waits (omapi_wait_for_completion() and    *)
(* omapi_one_dispatch()); the server is called back by the socket library  *)
(* (omapi_iscsock_cb()).  The layers below the messages are those of       *)
(* OmapiBuffer: here the bytes between two ends are a queue of messages.   *)
(***************************************************************************)
EXTENDS Integers, Sequences, FiniteSets

CONSTANTS Objects,      \* the program's remote objects, and their names
          Key,          \* the authenticator it may have to open first
          WithKey,      \* whether the session uses the authenticator
          MaxConns,     \* bound on the connections the program makes
          MaxRequests,  \* bound on the requests it makes
          None

VARIABLES world         \* everything: one thread on each side, see InitWorld

vars == world

Conns == 1..MaxConns

(***************************************************************************)
(* A message: its operation, its id, the id of the message it answers, the *)
(* handle, and for OPEN what the flags ask for.  id and rid are <<c, n>>,  *)
(* the n-th message of connection c: each connection starts its            *)
(* transaction ids at a random number.                                     *)
(***************************************************************************)

NoId == <<0, 0>>
Intro == [op |-> "INTRO", id |-> NoId, rid |-> NoId, h |-> None, auth |-> FALSE,
          type |-> None, create |-> FALSE, exclusive |-> FALSE, ok |-> TRUE]

Message(op, rid, h) == [Intro EXCEPT !.op = op, !.rid = rid, !.h = h]

\* One end of a connection: c->state, the protocol's input state, the bytes
\* not yet written, and whether an authenticator is on remote_auth_list.
NoEnd == [state |-> "unconnected", input |-> "intro_wait", out |-> << >>,
          auth |-> FALSE]

InitWorld ==
    [cl   |-> [c \in Conns |-> NoEnd],      \* the program's ends
     sv   |-> [c \in Conns |-> NoEnd],      \* the server's ends
     up   |-> [c \in Conns |-> << >>],      \* sent to the server
     down |-> [c \in Conns |-> << >>],      \* sent to the program
     cur  |-> 0,                            \* the program's connection
     xid  |-> 0,                            \* messages sent on it
     reg  |-> {},                           \* omapi_registered_messages
     work |-> {},                           \* objects with a request in progress
     handle |-> [o \in Objects |-> None],   \* ro->remote_handle
     wait |-> None,                         \* what the program waits for
     ready |-> FALSE,                       \* waiter->ready
     stale |-> {},                          \* objects with an older waiter
     reqs |-> 0,
     exists |-> {},                         \* objects the server finds by name
     known |-> {}]                          \* objects in its handle table

Init == world = InitWorld

(***************************************************************************)
(* Signals.  A waiter is the innermost object of what is waited for.  One  *)
(* that an unsuccessful wait left there takes the signal first.            *)
(***************************************************************************)

omapi_waiter_signal_handler(w, o) ==
    [w EXCEPT !.ready = @ \/ (w.wait = o /\ o \notin w.stale)]

(***************************************************************************)
(* Registered messages: [m |-> the message, object |-> its object,         *)
(* notify |-> its notify object].                                          *)
(***************************************************************************)

omapi_message_register(w, r) == [w EXCEPT !.reg = @ \union {r}]
omapi_message_unregister(w, r) == [w EXCEPT !.reg = @ \ {r}]

\* "status" goes to the notify object or else to the object; the protocol
\* object passes it on to the program's connection.
Notified(r) == IF r.notify # None THEN r.notify ELSE r.object

(***************************************************************************)
(* The program's end.                                                      *)
(***************************************************************************)

\* The transaction id is given when the message is written.
omapi_protocol_send_message(w, r) ==
    LET c  == w.cur
        m  == [r.m EXCEPT !.id = <<c, w.xid + 1>>,
                          !.auth = w.cl[c].auth]
    IN  [omapi_message_register(w, [r EXCEPT !.m = m])
            EXCEPT !.xid = @ + 1,
                   !.cl[c].out = Append(@, m)]

\* Closing the connection tells the objects of its registered messages.
RECURSIVE Disconnected(_, _)
Disconnected(w, objects) ==
    IF objects = {} THEN w
    ELSE LET o == CHOOSE x \in objects : TRUE
         IN  Disconnected(omapi_waiter_signal_handler(w, o), objects \ {o})

Close(w, c) ==
    Disconnected([w EXCEPT !.cl[c].state = "closed", !.cl[c].out = << >>],
                 {r.object : r \in {x \in w.reg : x.m.id[1] = c}} \ {None})

\* An orderly close waits for what is still to be written.
omapi_disconnect(w, c, force) ==
    IF ~force /\ w.cl[c].out # << >>
    THEN [w EXCEPT !.cl[c].state = "disconnecting"]
    ELSE Close(w, c)

omapi_connection_reaper(w, c) ==
    IF w.cl[c].state = "disconnecting" /\ w.cl[c].out = << >>
    THEN Close(w, c) ELSE w

\* The authenticator is opened first; its answer makes the connection ready.
KeyRequest == [m |-> [Message("OPEN", NoId, None) EXCEPT !.type = Key],
               object |-> Key, notify |-> "connection"]

IntroReceived(w, c) ==
    LET v == [w EXCEPT !.cl[c].input = "header_wait"] IN
    IF WithKey THEN omapi_protocol_send_message(v, KeyRequest)
               ELSE omapi_waiter_signal_handler(v, "connection")

\* An UPDATE carries the object's handle and values.
Updated(w, c, r, m) ==
    IF r.object = Key
    THEN omapi_waiter_signal_handler([w EXCEPT !.cl[c].auth = TRUE], "connection")
    ELSE [omapi_waiter_signal_handler(w, r.object) EXCEPT !.handle[r.object] = m.h]

\* An answer is for the registered message with its rid; a message that
\* answers none ends the connection.  A refused authenticator does, too.
Answered(w, c, r, m) ==
    LET v == omapi_message_unregister(
                 omapi_waiter_signal_handler(
                     IF m.op = "UPDATE" THEN Updated(w, c, r, m) ELSE w,
                     Notified(r)), r)
    IN  IF r.notify = "connection" /\ ~m.ok THEN omapi_disconnect(v, c, TRUE) ELSE v

omapi_message_process(w, c, m) ==
    LET rs == {r \in w.reg : r.m.id = m.rid} IN
    IF m.rid = NoId \/ rs = {} THEN omapi_disconnect(w, c, TRUE)
    ELSE LET r == CHOOSE x \in rs : TRUE IN
         IF m.auth # r.m.auth THEN omapi_disconnect(w, c, TRUE)
         ELSE Answered(w, c, r, m)

omapi_protocol_signal_handler(w, c, m) ==
    IF w.cl[c].input = "intro_wait" THEN IntroReceived(w, c)
                                    ELSE omapi_message_process(w, c, m)

\* The reader takes what has come, up to k messages, while it is connected.
RECURSIVE Read(_, _, _)
Read(w, c, k) ==
    IF k = 0 \/ w.cl[c].state # "connected" THEN w
    ELSE Read(omapi_protocol_signal_handler([w EXCEPT !.down[c] = Tail(@)],
                                            c, Head(w.down[c])), c, k - 1)

\* Nothing will come any more: the server has closed its end.
EndOfFile(w, c) == w.sv[c].state = "closed" /\ w.down[c] = << >>

omapi_connection_reader(w, c, k) ==
    IF k > 0 THEN Read(w, c, k)
    ELSE IF w.cl[c].state = "connected" /\ EndOfFile(w, c)
         THEN omapi_disconnect(w, c, FALSE) ELSE w

\* The writer writes the first n messages; into a closed connection nothing.
omapi_connection_writer(w, c, n) ==
    LET k == IF n < Len(w.cl[c].out) THEN n ELSE Len(w.cl[c].out) IN
    [w EXCEPT !.cl[c].out = SubSeq(@, k + 1, Len(@)),
              !.up[c] = IF w.sv[c].state = "closed" THEN @
                        ELSE @ \o SubSeq(w.cl[c].out, 1, k)]

\* One round of the dispatcher: read, write, reap.
omapi_one_dispatch(w, c, k, n) ==
    omapi_connection_reaper(
        omapi_connection_writer(omapi_connection_reader(w, c, k), c, n), c)

(***************************************************************************)
(* The server's end.                                                       *)
(***************************************************************************)

Reply(w, c, m, a) ==
    [w EXCEPT !.sv[c].out = Append(@, [a EXCEPT !.rid = m.id, !.auth = m.auth])]

send_status(w, c, m, ok) ==
    Reply(w, c, m, [Message("STATUS", NoId, None) EXCEPT !.ok = ok])

\* Sending an object enters it in the handle table.
send_update(w, c, m, o) ==
    [Reply(w, c, m, Message("UPDATE", NoId, o)) EXCEPT !.known = @ \union {o}]

ServerOpens(w, c, m) ==
    IF m.type = Key
    THEN send_update([w EXCEPT !.sv[c].auth = TRUE], c, m, Key)
    ELSE IF WithKey /\ ~m.auth THEN send_status(w, c, m, FALSE)
    ELSE IF m.type \notin w.exists /\ ~m.create THEN send_status(w, c, m, FALSE)
    ELSE IF m.type \in w.exists /\ m.create /\ m.exclusive
         THEN send_status(w, c, m, FALSE)
    ELSE send_update([w EXCEPT !.exists = @ \union {m.type}], c, m, m.type)

\* The other operations find the object by its handle, also one that is gone.
ServerProcesses(w, c, m) ==
    IF m.op = "OPEN" THEN ServerOpens(w, c, m)
    ELSE IF (WithKey /\ ~m.auth) \/ m.h \notin w.known THEN send_status(w, c, m, FALSE)
    ELSE IF m.op = "REFRESH" THEN send_update(w, c, m, m.h)
    ELSE send_status(IF m.op = "DELETE" THEN [w EXCEPT !.exists = @ \ {m.h}] ELSE w,
                     c, m, TRUE)

RECURSIVE ServerRead(_, _, _)
ServerRead(w, c, k) ==
    IF k = 0 THEN w
    ELSE LET v == [w EXCEPT !.up[c] = Tail(@)] IN
         ServerRead(IF w.sv[c].input = "intro_wait"
                    THEN [v EXCEPT !.sv[c].input = "header_wait"]
                    ELSE ServerProcesses(v, c, Head(w.up[c])), c, k - 1)

(***************************************************************************)
(* The program's calls.                                                    *)
(***************************************************************************)

\* dhcpctl_connect(): connect() is under way, and the program waits.
dhcpctl_connect ==
    LET c == world.cur + 1 IN
    /\ world.wait = None
    /\ c <= MaxConns
    /\ world.cur > 0 => world.cl[world.cur].state = "closed"
    /\ world' = [world EXCEPT !.cur = c, !.xid = 0, !.wait = "connection",
                              !.ready = FALSE, !.stale = @ \ {"connection"},
                              !.cl[c].state = "connecting"]

\* A request on an object with no other work in progress.
Request(o, m, object, notify) ==
    /\ world.wait = None
    /\ world.cur > 0
    /\ world.cl[world.cur].state = "connected"
    /\ o \notin world.work
    /\ world.reqs < MaxRequests
    /\ world' = [omapi_protocol_send_message(world,
                     [m |-> m, object |-> object, notify |-> notify])
                    EXCEPT !.work = @ \union {o}, !.reqs = @ + 1]

dhcpctl_open_object(o) ==
    \E create, excl \in BOOLEAN :
       Request(o, [Message("OPEN", NoId, None) EXCEPT !.type = o, !.create = create,
                                                      !.exclusive = excl], o, None)

dhcpctl_object_update(o) == Request(o, Message("UPDATE", NoId, world.handle[o]), o, None)

dhcpctl_object_refresh(o) == Request(o, Message("REFRESH", NoId, world.handle[o]), o, None)

dhcpctl_object_remove(o) == Request(o, Message("DELETE", NoId, world.handle[o]), None, o)

\* dhcpctl_wait_for_completion(): the waiter goes onto the object.
dhcpctl_wait_for_completion(o) ==
    /\ world.wait = None
    /\ o \in world.work
    /\ world' = [world EXCEPT !.wait = o, !.ready = FALSE]

\* The wait ends when the waiter is signalled.
Complete ==
    /\ world.wait # None
    /\ world.ready
    /\ world' = [world EXCEPT !.wait = None, !.work = @ \ {world.wait}]

\* It also ends when no connection is left (ISC_R_NOMORE); then the waiter
\* stays on the object.
GiveUp ==
    /\ world.wait # None
    /\ ~world.ready
    /\ \A c \in Conns : world.cl[c].state \in {"unconnected", "closed"}
    /\ world' = [world EXCEPT !.wait = None, !.work = @ \ {world.wait},
                              !.stale = @ \union {world.wait}]

(***************************************************************************)
(* The dispatchers.                                                        *)
(***************************************************************************)

\* connect() succeeds: "connect" sends the introduction, the server accepts
\* and introduces itself.  Or it fails, and the connection is closed.
omapi_connection_connect(c) ==
    /\ world.wait # None
    /\ world.cl[c].state = "connecting"
    /\ \/ world' = [world EXCEPT !.cl[c].state = "connected",
                                 !.cl[c].out = <<Intro>>,
                                 !.sv[c].state = "connected",
                                 !.sv[c].out = <<Intro>>]
       \/ world' = Close(world, c)

Dispatch(c) ==
    /\ world.wait # None
    /\ ~world.ready
    /\ world.cl[c].state \in {"connected", "disconnecting"}
    /\ \E k \in 0..Len(world.down[c]), n \in 0..(MaxRequests + 2) :
          /\ k > 0 \/ (n > 0 /\ world.cl[c].out # << >>) \/ EndOfFile(world, c)
          /\ world' = omapi_one_dispatch(world, c, k, n)

\* The connection is reset: neither end can read what was under way.
Reset(c) ==
    /\ world.cl[c].state \in {"connected", "disconnecting"}
    /\ world.wait # None
    /\ world' = [omapi_disconnect(world, c, TRUE)
                   EXCEPT !.up[c] = << >>, !.down[c] = << >>]

\* The program exits: its sockets are closed.
Exit ==
    /\ world.wait = None
    /\ world.cur > 0
    /\ world.cl[world.cur].state = "connected"
    /\ world' = [world EXCEPT !.cl[world.cur].state = "closed",
                              !.cl[world.cur].out = << >>,
                              !.reqs = MaxRequests, !.work = {}]

\* omapi_iscsock_cb() for reading.
ServerReads(c) ==
    /\ world.sv[c].state = "connected"
    /\ \E k \in 1..Len(world.up[c]) : world' = ServerRead(world, c, k)

\* The program has closed its end.  After a reset the server closes its own
\* at once; after an orderly end, if it has something left to write, it waits
\* until that is written.
ServerReadsEnd(c) ==
    /\ world.sv[c].state = "connected"
    /\ world.cl[c].state = "closed"
    /\ world.up[c] = << >>
    /\ world' \in {[world EXCEPT !.sv[c].state = "closed", !.sv[c].out = << >>],
                   [world EXCEPT !.sv[c].state =
                      IF world.sv[c].out # << >> THEN "disconnecting" ELSE "closed"]}

\* omapi_iscsock_cb() for writing.  It does not call the reaper.
ServerWrites(c) ==
    /\ world.sv[c].state \in {"connected", "disconnecting"}
    /\ world.sv[c].out # << >>
    /\ \E n \in 1..Len(world.sv[c].out) :
          world' = [world EXCEPT !.sv[c].out = SubSeq(@, n + 1, Len(@)),
                                 !.down[c] = IF world.cl[c].state = "closed" THEN @
                                             ELSE @ \o SubSeq(world.sv[c].out, 1, n)]

\* The server closes a connection (it exits or the peer cannot be reached).
ServerCloses(c) ==
    /\ world.sv[c].state = "connected"
    /\ world' = [world EXCEPT !.sv[c].state = "closed", !.sv[c].out = << >>,
                              !.up[c] = << >>]

Progress(c) == \/ omapi_connection_connect(c) \/ Dispatch(c)
               \/ ServerReads(c) \/ ServerReadsEnd(c) \/ ServerWrites(c)

Next == \/ dhcpctl_connect
        \/ \E o \in Objects : \/ dhcpctl_open_object(o) \/ dhcpctl_object_update(o)
                              \/ dhcpctl_object_refresh(o) \/ dhcpctl_object_remove(o)
                              \/ dhcpctl_wait_for_completion(o)
        \/ Complete \/ GiveUp \/ Exit
        \/ \E c \in Conns : Progress(c) \/ Reset(c) \/ ServerCloses(c)

Spec == Init /\ [][Next]_vars

\* The socket library calls back, and a waiting program dispatches, as long
\* as there is something to read or to write.
Carried == Complete \/ GiveUp \/ \E c \in Conns : Progress(c)
LiveSpec == Spec /\ WF_vars(Carried)

(***************************************************************************)
(* Properties.                                                             *)
(***************************************************************************)

Occurs(seq, P(_)) == Len(SelectSeq(seq, P))

\* While both ends are connected, each registered message is either still on
\* its way to the server or has one answer on its way back: no request is
\* answered twice or forgotten, and the program never ends a connection
\* because an answer belongs to nothing it asked.
OneAnswer ==
    \A c \in Conns :
       world.cl[c].state = "connected" /\ world.sv[c].state = "connected" =>
          /\ \A r \in {x \in world.reg : x.m.id[1] = c} :
                LET Asks(m)    == m.id = r.m.id
                    Answers(m) == m.rid = r.m.id
                IN  1 = Occurs(world.cl[c].out, Asks) + Occurs(world.up[c], Asks)
                        + Occurs(world.sv[c].out, Answers)
                        + Occurs(world.down[c], Answers)
          /\ LET Stray(m) == /\ m.op # "INTRO"
                             /\ m.rid \notin {r.m.id : r \in world.reg}
             IN  Occurs(world.sv[c].out \o world.down[c], Stray) = 0

\* A program that connects, or waits for a request that is still unanswered,
\* comes back: with the answer, or because the connection is lost.
Unanswered(o) == /\ o \notin world.stale
                 /\ \E r \in world.reg : Notified(r) = o /\ r.m.id[1] = world.cur
WaitReturns ==
    /\ (world.wait = "connection") ~> (world.wait # "connection")
    /\ \A o \in Objects :
          (world.wait = o /\ Unanswered(o)) ~> (world.wait # o)

\* A wait always comes back, whatever was answered before it began.
WaitAlwaysReturns == \A o \in Objects : (world.wait = o) ~> (world.wait # o)

\* A connection the program has closed is closed by the server too.
ServerEndCloses ==
    \A c \in Conns : (world.cl[c].state = "closed") ~>
                        (world.sv[c].state \in {"unconnected", "closed"})
=============================================================================
