------------------------------- MODULE Relay6 -------------------------------
(***************************************************************************)
(* The DHCPv6 relay agent (the DHCPv6 half of relay/dhcrelay.c), the       *)
(* server's answers to relayed messages (Message6), and DHCPv4 over DHCPv6 *)
(* between the server's two processes.                                     *)
(*                                                                         *)
(* An address names the interface that has it.  A message going up is the  *)
(* client's message with the headers of the relays, the outermost first; a *)
(* message going down is the answer with the headers still to be peeled.   *)
(***************************************************************************)
EXTENDS Message6, FiniteSets

CONSTANTS Relays,
          Downs,        \* Downs[r]: the downstreams of r, in order: link address, id and interface
          Ups,          \* Ups[r]: the addresses r sends to, r's upstreams
          Source,       \* Source[r]: the address r sends from
          Owner,        \* Owner[a]: the node that has an address
          LinkOf,       \* LinkOf[a]: the link an address is on
          UseIfId,      \* the relays run with -I
          max_hop_count,
          Servers,      \* the server's addresses, one for each interface
          Requests,     \* what clients send: the message, from and to which address
          MaxSent

VARIABLES net,   \* messages under way
          ipc,   \* messages between the DHCPv6 and the DHCPv4 server process
          got,   \* answers that were sent out on a link to a host, or to a relay
                 \* that is not on that link
          sent

vars == <<net, ipc, got, sent>>

(***************************************************************************)
(* Upwards.                                                                *)
(***************************************************************************)

UpTypes == {"SOLICIT", "REQUEST", "CONFIRM", "RENEW", "REBIND", "RELEASE", "DECLINE",
            "INFORMATION-REQUEST", "LEASEQUERY", "DHCPV4-QUERY"}

OnlyOne(r) == Len(Downs[r]) = 1

\* The downstreams whose interface a message arrived on, the first first.
Arrived(r, a) == SelectSeq(Downs[r], LAMBDA d : d.link = a)

HopsLeft(p) == p.hdrs = <<>> \/ Head(p.hdrs).hop < max_hop_count

\* The relay-forward header; none when the relay could not find the way back.
\* dp is the downstream, as a sequence that is empty if it is not known.
Header(r, dp, from, p) ==
    LET known == dp # <<>>
        lost == ~known /\ (p.hdrs = <<>> \/ ~OnlyOne(r))
        id == IF r \notin UseIfId THEN 0 ELSE IF known THEN Head(dp).id ELSE Downs[r][1].id
    IN IF lost \/ ~HopsLeft(p) THEN {}
       ELSE {[hop |-> IF p.hdrs = <<>> THEN 0 ELSE Head(p.hdrs).hop + 1,
              link |-> IF known THEN Head(dp).link ELSE NoAddr, peer |-> from, ifid |-> id]}

\* process_up6()
process_up6(r, dp, from, p) ==
    IF p.type \notin UpTypes THEN {}
    ELSE {[to |-> u, from |-> Source[r], p |-> [p EXCEPT !.hdrs = <<h>> \o @]] :
             u \in Ups[r], h \in Header(r, dp, from, p)}

(***************************************************************************)
(* Downwards.                                                              *)
(***************************************************************************)

\* The downstream an answer leaves by: found by its interface-id or by the
\* link address; the only one when there is no choice.
WayDown(r, h) ==
    LET found == SelectSeq(Downs[r], LAMBDA d : IF h.ifid # 0 THEN d.id = h.ifid ELSE d.link = h.link)
    IN IF h.ifid = 0 /\ r \in UseIfId THEN <<>>
       ELSE IF found # <<>> THEN found ELSE IF OnlyOne(r) THEN Downs[r] ELSE <<>>

\* process_down6(): the answer without its outermost header goes out of the
\* downstream's interface; it arrives if the peer is on that link.
process_down6(r, p) ==
    LET h == Head(p.hdrs)
        way == WayDown(r, h)
    IN IF way = <<>> THEN {}
       ELSE {[on |-> LinkOf[Head(way).link], to |-> h.peer, p |-> [p EXCEPT !.hdrs = Tail(@)],
              blind |-> h.link = NoAddr /\ h.ifid = 0]}

\* dhcpv6() of the relay: which half of it handles a message.
relay_dhcpv6(r, m) ==
    IF m.p.dir = "down" THEN {}
    ELSE process_up6(r, Arrived(r, m.to), m.from, m.p)

(***************************************************************************)
(* The steps.                                                              *)
(***************************************************************************)

NextHop(x) == LinkOf[x.to] = x.on /\ Owner[x.to] \in Relays

ClientSends ==
    /\ sent < MaxSent
    /\ \E q \in Requests : net' = net \union {q}
    /\ sent' = sent + 1
    /\ UNCHANGED <<ipc, got>>

\* A message that goes up reaches a relay.
RelayUp ==
    \E m \in net :
      /\ Owner[m.to] \in Relays
      /\ m.p.dir = "up"
      /\ net' = (net \ {m}) \union relay_dhcpv6(Owner[m.to], m)
      /\ UNCHANGED <<ipc, got, sent>>

\* An answer reaches a relay and is passed to the link below.
RelayDown ==
    \E m \in net :
      /\ Owner[m.to] \in Relays
      /\ m.p.dir = "down"
      /\ LET out == IF m.p.hdrs = <<>> THEN {} ELSE process_down6(Owner[m.to], m.p)
         IN /\ net' = (net \ {m}) \union
                        {[to |-> x.to, from |-> m.to, p |-> x.p] :
                            x \in {y \in out : NextHop(y)}}
            /\ got' = got \union {x \in out : ~NextHop(x)}
      /\ UNCHANGED <<ipc, sent>>

Deliver(x, p) ==
    IF Owner[x] \in Relays
    THEN net' = (net \ {p}) \union {[to |-> x, from |-> p.to, p |-> a] : a \in build_dhcpv6_reply(p.p, p.to)}
         /\ got' = got
    ELSE net' = net \ {p}
         /\ got' = got \union {[on |-> LinkOf[IF Unicast(p.p) THEN x ELSE p.to], to |-> x, p |-> a,
                                blind |-> FALSE] : a \in build_dhcpv6_reply(p.p, p.to)}

\* dhcpv6() of the server: the answer goes to where the message came from.
\* A DHCPv4 query is handed to the other process (forw_dhcpv4_query()).
ServerReceives ==
    \E m \in net :
      /\ m.to \in Servers
      /\ IF m.p.type = "DHCPV4-QUERY"
         THEN net' = net \ {m} /\ ipc' = ipc \union {m} /\ got' = got
         ELSE Deliver(m.from, m) /\ ipc' = ipc
      /\ UNCHANGED sent

\* recv_dhcpv4_query() of the DHCPv4 process, dhcp4o6_dhcpv4_query() and
\* dhcp4o6_relay_forw(), then send_dhcpv4_response() of the DHCPv6 process:
\* the interface and the address come back with the answer.
Dhcp4Answers ==
    \E m \in ipc : \E answered \in BOOLEAN :
      /\ ipc' = ipc \ {m}
      /\ LET a == [dir |-> "down", hdrs |-> relay_reply(m.p.hdrs),
                   msg |-> [type |-> "DHCPV4-RESPONSE", xid |-> m.p.xid, status |-> "Processed",
                            unicast |-> FALSE, asked |-> {},
                            net |-> shared_network_from_packet6(m.p, m.to)]]
         IN IF ~answered THEN UNCHANGED <<net, got>>
            ELSE IF Owner[m.from] \in Relays
            THEN net' = net \union {[to |-> m.from, from |-> m.to, p |-> a]} /\ got' = got
            ELSE got' = got \union {[on |-> LinkOf[m.to], to |-> m.from, p |-> a, blind |-> FALSE]} /\ net' = net
      /\ UNCHANGED sent

Lose == \E m \in net : net' = net \ {m} /\ UNCHANGED <<ipc, got, sent>>

Init == net = {} /\ ipc = {} /\ got = {} /\ sent = 0

Next == ClientSends \/ RelayUp \/ RelayDown \/ ServerReceives \/ Dhcp4Answers \/ Lose

Spec == Init /\ [][Next]_vars

(***************************************************************************)
(* Properties.                                                             *)
(***************************************************************************)

\* An answer reaches the client that sent the message, on its link, with no
\* relay header left: each relay peels its own header and finds its own way.
\* (A relay that forwarded a relay-forward from an interface which is not one
\* of its downstreams has nothing to find it by, and uses its only downstream.)
AnswersRetrace ==
    \A x \in got : x.blind \/ (x.p.hdrs = <<>> /\ x.to = x.p.msg.xid /\ x.on = LinkOf[x.to])

\* A message that came through a relay which knows its link is processed for
\* the network of the client's link, however many relays it passed.
NetworkOfClient ==
    \A x \in got : ~x.p.msg.unicast /\ ~x.blind => x.p.msg.net = NetOf[x.p.msg.xid]

\* RFC 3315, section 18.2.2, quoted above dhcpv6_confirm(): "If all of the
\* addresses in the Confirm message pass this test, the server returns a
\* status of Success.  If any of the addresses do not pass this test, the
\* server returns a status of NotOnLink."
ConfirmTellsTheLink ==
    \A x \in got :
        /\ x.p.msg.status = "Success" => \A a \in x.p.msg.asked : NetOf[a] = NetOf[x.p.msg.xid]
        /\ x.p.msg.status = "NotOnLink" => \E a \in x.p.msg.asked : NetOf[a] # NetOf[x.p.msg.xid]

\* Relays that forward to each other wrap a message only as often as the
\* limit allows: once for the client's message and once for each hop.
WrappedWithinLimit == \A m \in net : Len(m.p.hdrs) <= max_hop_count + 1
=============================================================================
