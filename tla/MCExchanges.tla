---------------------------- MODULE MCExchanges ----------------------------
(***************************************************************************)
(* Exchanges between two processes that have to come to an end.  A         *)
(* behaviour is one of:                                                    *)
(*   "buffer"         the ring buffers of an OMAPI connection;             *)
(*   "key", "plain"   an OMAPI client and server, with an authenticator    *)
(*                    and one connection or without and with two;          *)
(*   "relay"          DHCPv4 relays and a server;                          *)
(*   "names"          dhclient, which keeps its name in DNS.               *)
(* All but the first run on the variables x1, x2, ..., which are 0 when    *)
(* not in use; the buffers stay as they are then.                          *)
(***************************************************************************)
EXTENDS OmapiBuffer, TLC

CONSTANTS a1, a2, c1, n1, o1, o2, key, None

VARIABLES which, x1, x2, x3, x4, x5, x6, x7, x8, x9, x10, x11

xs == <<x1, x2, x3, x4, x5, x6, x7, x8, x9, x10, x11>>
vs == <<which, vars, xs>>

Idle5 == x5 = 0 /\ x6 = 0 /\ x7 = 0 /\ x8 = 0 /\ x9 = 0 /\ x10 = 0 /\ x11 = 0
Idle2 == x2 = 0 /\ x3 = 0 /\ x4 = 0 /\ Idle5

Keyed == INSTANCE Omapi WITH
    Objects <- {o1, o2}, Key <- key, WithKey <- TRUE, MaxConns <- 1, MaxRequests <- 2, world <- x1

Plain == INSTANCE Omapi WITH
    Objects <- {o1, o2}, Key <- key, WithKey <- FALSE, MaxConns <- 2, MaxRequests <- 1, world <- x1

\* r1 has two links of clients; r2 forwards to the server and to r3, which
\* sends what it gets back to r2.
Relay == INSTANCE Relay4 WITH
    Relays <- {"r1", "r2", "r3"}, Names <- {"eth0", "eth1", "eth2"},
    Upstream <- {"r1", "r2", "r3"} \X {"eth0"},
    Downstream <- {<<"r1", "eth1">>, <<"r1", "eth2">>, <<"r2", "eth0">>, <<"r3", "eth0">>},
    Servers <- [r1 |-> {"r2"}, r2 |-> {"server", "r3"}, r3 |-> {"r2"}],
    Arrival <- [r1 |-> "eth0", r2 |-> "eth0", r3 |-> "eth0"],
    Modes <- {"append", "forward", "discard", "replace"},
    AddOptions <- {"r1", "r2", "r3"}, DropMismatch <- {"r3"}, LinkSelect <- {"r1"},
    max_hop_count <- 4, MaxSent <- 1,
    mode <- x1, net <- x2, seen <- x3, sent <- x4

ASSUME RelaysConfigured == Relay!Configured

Client == INSTANCE DdnsClient WITH
    Addrs <- {a1, a2}, Owners <- {c1}, Names <- {n1}, MaxCbs <- 4, Self <- c1, Fqdn <- n1,
    MaxBinds <- 2, MaxFaults <- 1,
    held <- x1, mine <- x2, timers <- x3, cbs <- x4, msgs <- x5, events <- x6, active <- x7,
    zone <- x8, calm <- x9, binds <- x10, faults <- x11

ExchangesInit ==
    /\ Init
    /\ \/ which = "key" /\ Keyed!Init /\ Idle2
       \/ which = "plain" /\ Plain!Init /\ Idle2
       \/ which = "relay" /\ Relay!Init /\ Idle5
       \/ which = "names" /\ Client!Init
       \/ which = "buffer" /\ x1 = 0 /\ Idle2
    /\ which # "buffer" => needed = CHOOSE n \in Needs : TRUE

OnlyX1 == UNCHANGED <<which, vars, x2, x3, x4, x5, x6, x7, x8, x9, x10, x11>>
OnlyX4 == UNCHANGED <<which, vars, x5, x6, x7, x8, x9, x10, x11>>

ExchangesNext ==
    \/ which = "buffer" /\ Next /\ UNCHANGED <<which, xs>>
    \/ which = "key" /\ Keyed!Next /\ OnlyX1
    \/ which = "plain" /\ Plain!Next /\ OnlyX1
    \/ which = "relay" /\ Relay!Next /\ OnlyX4
    \/ which = "names" /\ Client!Next /\ UNCHANGED <<which, vars>>

(* What the dispatchers of the processes and the network carry on with.    *)
Carried ==
    \/ which = "buffer" /\ Moves /\ UNCHANGED <<which, xs>>
    \/ which = "key" /\ Keyed!Carried /\ OnlyX1
    \/ which = "plain" /\ Plain!Carried /\ OnlyX1
    \/ which = "relay" /\ Relay!Carried /\ OnlyX4
    \/ which = "names" /\ Client!Progress /\ UNCHANGED <<which, vars>>

(* Whether there is something to carry on with.                            *)
Pending ==
    \/ which = "buffer" /\ CanMove
    \/ which = "key" /\ ENABLED Keyed!Carried
    \/ which = "plain" /\ ENABLED Plain!Carried
    \/ which = "relay" /\ ENABLED Relay!Carried
    \/ which = "names" /\ Client!Pending

(* The fairness of the components' own specifications, weak fairness.      *)
ExchangesSpec == /\ ExchangesInit /\ [][ExchangesNext]_vs
                 /\ []<>~Pending \/ []<><<Carried>>_vs

-----------------------------------------------------------------------------
\* OmapiBuffer!BuffersSound: the counts of an OMAPI connection are what its rings
\* hold; Omapi!OneAnswer: a registered request has one answer, under way or to
\* come; DdnsClient!OneUpdateAtATime: no control block is lost or served twice.
ExchangesSound ==
    /\ BuffersSound
    /\ which = "key" => Keyed!OneAnswer
    /\ which = "plain" => Plain!OneAnswer
    /\ which = "names" => Client!OneUpdateAtATime

\* Relay4: a reply comes out on the link of the request (OwnOptionComesHome), and
\* clients do not see the relay agent option (OptionStaysInside).
RelaySound == which = "relay" => Relay!OwnOptionComesHome /\ Relay!OptionStaysInside

\* Omapi!WaitReturns: a program that waits for an answer comes back.
Connecting == which \in {"key", "plain"} /\ x1.wait = "connection"
Waiting(o) == \/ which = "key" /\ x1.wait = o /\ Keyed!Unanswered(o)
              \/ which = "plain" /\ x1.wait = o /\ Plain!Unanswered(o)
Back(o) == which \in {"key", "plain"} /\ x1.wait # o
WaitReturns == /\ Connecting ~> ~Connecting
               /\ \A o \in {o1, o2} : Waiting(o) ~> Back(o)

\* Relay4!FallsSilent: relays do not keep a message alive in a circle.
FallsSilent == (which = "relay" /\ x4 = 1) ~> (which = "relay" /\ x2 = {})

\* DdnsClient!NamedInTheEnd: a client that keeps its address gets its name.
NamedInTheEnd == <>[](which = "names" /\ x1 # None) => <>(which = "names" /\ Client!Named)

\* Every exchange comes to its end: the bytes a protocol waits for come
\* (OmapiBuffer!NeededBytesCome), and the three above.
ExchangesEnd == NeededBytesCome /\ WaitReturns /\ FallsSilent /\ NamedInTheEnd
=============================================================================
