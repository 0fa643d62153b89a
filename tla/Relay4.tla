------------------------------- MODULE Relay4 -------------------------------
(***************************************************************************)
(* The DHCPv4 relay agent (relay/dhcrelay.c) between the links of clients  *)
(* and a server, with relays that forward to other relays.                 *)
(*                                                                         *)
(* An interface is a pair of a relay and a name; it is its own address and *)
(* lies on a link of its own, so a reply that leaves by it is seen by the  *)
(* clients of that link.  The name is what the relay puts into the circuit *)
(* ID of the Relay Agent Information option.  A message carries the list   *)
(* of circuit IDs; the server merges several options into one              *)
(* (save_linked_option) and returns them.                                  *)
(***************************************************************************)
EXTENDS Naturals, FiniteSets, Sequences

CONSTANTS Relays,
          Names,        \* interface names
          Upstream,     \* the interfaces with INTERFACE_UPSTREAM
          Downstream,   \* the interfaces with INTERFACE_DOWNSTREAM
          Servers,      \* Servers[r]: where relay r forwards requests
          Arrival,      \* Arrival[r]: the interface on which unicasts reach r
          Modes,        \* the values of agent_relay_mode explored: "append",
                        \* "forward", "discard" or "replace"
          AddOptions,   \* the relays run with -a
          DropMismatch, \* the relays run with -D
          LinkSelect,   \* the relays run with -U: RFC 3527
          max_hop_count,
          MaxSent       \* requests sent by clients

\* What the command lines give: the interfaces of each relay, the one that
\* answers reach it on, and a limit on hops.
Configured ==
    /\ Upstream \subseteq Relays \X Names /\ Downstream \subseteq Relays \X Names
    /\ Arrival \in [Relays -> Names]
    /\ max_hop_count \in Nat

VARIABLES mode,     \* agent_relay_mode, the same on all relays
          net,      \* the messages under way, each with its destination
          seen,     \* the replies that reached a link
          sent      \* the number of requests sent

vars == <<mode, net, seen, sent>>

Interfaces == Relays \X Names
NoAddr == <<>>
Server == <<"server">>

\* The link a request came from and the relays that put an option into it or
\* took one out ("by") are only for the properties.
Message == [op : {"BOOTREQUEST", "BOOTREPLY"}, dhcp : BOOLEAN, giaddr : Interfaces \union {NoAddr},
            hops : 0..max_hop_count, cids : Seq(Names), link : Interfaces, by : SUBSET Relays]

\* The interface of relay r that has the address.
OutFor(r, addr) == IF addr # NoAddr /\ addr[1] = r THEN addr ELSE NoAddr

(***************************************************************************)
(* Requests.                                                               *)
(***************************************************************************)

\* The option goes in when there is room; with -U it names the link and
\* giaddr becomes the address of the uplink.
Tagged(i, p, room) ==
    IF ~room THEN p
    ELSE [p EXCEPT !.cids = Append(@, i[2]),
                   !.by = @ \union {i[1]},
                   !.giaddr = IF i[1] \in LinkSelect /\ @ = NoAddr THEN <<i[1], Arrival[i[1]]>> ELSE @]

\* add_relay_agent_options(): the message that results, none if it is dropped.
add_relay_agent_options(i, p, room) ==
    CASE i[1] \notin AddOptions \/ ~p.dhcp -> {p}
      [] i[1] \in AddOptions /\ p.dhcp /\ p.cids = <<>> -> {Tagged(i, p, room)}
      [] OTHER -> CASE mode = "append" -> {Tagged(i, p, room)}
                    [] mode = "forward" -> {p}
                    [] mode = "discard" -> {}
                    [] OTHER -> {Tagged(i, [p EXCEPT !.cids = <<>>, !.by = @ \union {i[1]}], room)}

Hop(p) == IF p.hops < max_hop_count THEN {[p EXCEPT !.hops = @ + 1]} ELSE {}

\* Mutant: giaddr is overwritten by every relay.
Gateway_always(i, p) == [p EXCEPT !.giaddr = i]

Gateway(i, p) == [p EXCEPT !.giaddr = IF @ = NoAddr THEN i ELSE @]

\* What a relay forwards of a request that arrives on interface i.
relay_request(i, p, room) ==
    IF OutFor(i[1], p.giaddr) # NoAddr \/ i \notin Downstream THEN {}
    ELSE UNION {Hop(Gateway(i, q)) : q \in add_relay_agent_options(i, p, room)}

(***************************************************************************)
(* Replies.                                                                *)
(***************************************************************************)

\* find_interface_by_agent_option(): the last circuit ID decides.
find_interface_by_agent_option(r, cids) ==
    IF cids # <<>> /\ cids[Len(cids)] \in Names THEN <<r, cids[Len(cids)]>> ELSE NoAddr

\* strip_relay_agent_options(): the interface to use and the message without
\* the option; nothing when -D is set and the option names no interface.
strip_relay_agent_options(r, out, p) ==
    LET found == find_interface_by_agent_option(r, p.cids)
    IN CASE r \notin AddOptions \/ ~p.dhcp -> {<<out, p>>}
         [] r \in AddOptions /\ p.dhcp /\ found = NoAddr /\ r \in DropMismatch -> {}
         [] OTHER -> {<<IF found = NoAddr THEN out ELSE found, [p EXCEPT !.cids = <<>>]>>}

\* What a relay sends down for a reply that arrives on interface i.
relay_reply(i, p) ==
    IF i \notin Upstream THEN {}
    ELSE {x \in strip_relay_agent_options(i[1], OutFor(i[1], p.giaddr), p) : x[1] # NoAddr}

(***************************************************************************)
(* The network.                                                            *)
(***************************************************************************)

\* A client's broadcast reaches the relay of its link.
ClientSends ==
    /\ sent < MaxSent
    /\ \E i \in Downstream, d \in BOOLEAN :
         net' = net \union {[to |-> i, msg |-> [op |-> "BOOTREQUEST", dhcp |-> d, giaddr |-> NoAddr,
                                                hops |-> 0, cids |-> <<>>, link |-> i, by |-> {}]]}
    /\ sent' = sent + 1
    /\ UNCHANGED <<mode, seen>>

Target(x) == IF x = "server" THEN Server ELSE <<x, Arrival[x]>>

\* do_relay4()
do_relay4 ==
    \E m \in net : \E room \in BOOLEAN :
      /\ m.to # Server
      /\ IF m.msg.op = "BOOTREPLY"
         THEN /\ net' = net \ {m}
              /\ seen' = seen \union {[on |-> x[1], msg |-> x[2]] : x \in relay_reply(m.to, m.msg)}
         ELSE /\ net' = (net \ {m}) \union
                            {[to |-> Target(s), msg |-> q] :
                                s \in Servers[m.to[1]], q \in relay_request(m.to, m.msg, room)}
              /\ seen' = seen
      /\ UNCHANGED <<mode, sent>>

\* The server answers to giaddr and returns the agent options.
ServerAnswers ==
    \E m \in net :
      /\ m.to = Server
      /\ m.msg.giaddr # NoAddr
      /\ net' = (net \ {m}) \union {[to |-> <<m.msg.giaddr[1], Arrival[m.msg.giaddr[1]]>>,
                                     msg |-> [m.msg EXCEPT !.op = "BOOTREPLY", !.hops = 0]]}
      /\ UNCHANGED <<mode, seen, sent>>

Lose == \E m \in net : net' = net \ {m} /\ UNCHANGED <<mode, seen, sent>>

Init == mode \in Modes /\ net = {} /\ seen = {} /\ sent = 0

Next == ClientSends \/ do_relay4 \/ ServerAnswers \/ Lose

\* A message that is not lost is received.
Carried == do_relay4 \/ ServerAnswers

Spec == Init /\ [][Next]_vars

LiveSpec == Spec /\ WF_vars(Carried)

(***************************************************************************)
(* Properties.                                                             *)
(***************************************************************************)

\* relay/dhcrelay.c: the outgoing interface is figured out "based on the
\* contents of the option that we put on the request to which the server is
\* replying".  A reply comes out on the link the request came from.
RepliesComeHome == \A x \in seen : x.on = x.msg.link

\* That holds of a reply whose option, if it has one, is the relay's own and
\* was left alone by the relays behind it.
OwnOptionComesHome == \A x \in seen : x.msg.by \subseteq {x.on[1]} => x.on = x.msg.link

\* A relay that adds the option takes it out of a DHCP reply.
OptionStaysInside == \A x \in seen : x.on[1] \in AddOptions /\ x.msg.dhcp => x.msg.cids = <<>>

\* Relays that forward to each other in a circle do not keep a request alive:
\* the network falls silent.
FallsSilent == [](sent = MaxSent => <>(net = {}))
=============================================================================
