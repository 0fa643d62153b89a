------------------------------ MODULE Message6 ------------------------------
(***************************************************************************)
(* What the server (server/dhcpv6.c) does with a DHCPv6 message before and *)
(* around the assignment of addresses: validation, the network a client is *)
(* on, rejection of unicast messages, Confirm, and the nested answer to a  *)
(* message that came through relays.                                       *)
(*                                                                         *)
(* A message is the client's part together with the relay headers around   *)
(* it, the outermost first.  The answer to a message is a set: empty when  *)
(* the server stays silent.                                                *)
(***************************************************************************)
EXTENDS Naturals, TLC, SequencesExt

CONSTANTS NetOf,         \* the shared network an address (of a client or of a link) lies in
          Interface,     \* Interface[i]: the shared network of the server's interface i
          UnicastNets    \* the shared networks for which dhcp6.unicast is configured

NoAddr == "::"
NoNet == "none"

IaTypes == {"NA", "TA", "PD"}

(***************************************************************************)
(* Where the client is.                                                    *)
(***************************************************************************)

\* The innermost link address that is set; a relay that does not know it
\* leaves it unspecified.
FirstLink(p) ==
    LET known == {k \in 1..Len(p.hdrs) : p.hdrs[k].link # NoAddr}
    IN IF known = {} THEN NoAddr ELSE p.hdrs[CHOOSE k \in known : \A j \in known : j <= k].link

\* Mutant: the outermost link address counts.
shared_network_from_packet6_outer(p, i) ==
    IF p.hdrs = <<>> THEN Interface[i] ELSE NetOf[Head(p.hdrs).link]

\* shared_network_from_packet6()
shared_network_from_packet6(p, i) ==
    IF FirstLink(p) # NoAddr THEN NetOf[FirstLink(p)] ELSE Interface[i]

\* get_first_ia_addr_val(): the first address of the IAs of a type.
get_first_ia_addr_val(p, t) ==
    LET all == FlattenSeq(p.ias[t]) IN IF all = <<>> THEN NoAddr ELSE Head(all)

\* shared_network_from_requested_addr()
shared_network_from_requested_addr(p) ==
    LET a == CHOOSE a \in {get_first_ia_addr_val(p, t) : t \in IaTypes} :
                \/ a = get_first_ia_addr_val(p, "NA") /\ a # NoAddr
                \/ a = get_first_ia_addr_val(p, "PD") /\ a # NoAddr /\ get_first_ia_addr_val(p, "NA") = NoAddr
                \/ /\ a = get_first_ia_addr_val(p, "TA")
                   /\ get_first_ia_addr_val(p, "NA") = NoAddr /\ get_first_ia_addr_val(p, "PD") = NoAddr
    IN IF a = NoAddr THEN NoNet ELSE NetOf[a]

\* is_unicast_option_defined()
is_unicast_option_defined(p, i) ==
    LET byAddr == shared_network_from_requested_addr(p)
        net == IF byAddr # NoNet THEN byAddr ELSE shared_network_from_packet6(p, i)
    IN net \in UnicastNets

(***************************************************************************)
(* Validation.                                                             *)
(***************************************************************************)

\* The flag is set on the packet from the wire; the packet inside a relayed
\* one is a new one.
Unicast(p) == p.unicast /\ p.hdrs = <<>>

\* valid_client_msg()
valid_client_msg(p) == p.cid /\ ~Unicast(p) /\ p.sid = "none"

\* valid_client_resp()
valid_client_resp(p) == p.cid /\ p.sid = "ours"

\* valid_client_info_req()
valid_client_info_req(p) ==
    ~Unicast(p) /\ (\A t \in IaTypes : p.ias[t] = <<>>) /\ p.sid \in {"none", "ours"}

\* The addresses a Confirm asks about: those of the IA_NAs and the IA_TAs.
ConfirmedAddrs(p) == Range(FlattenSeq(p.ias["NA"] \o p.ias["TA"]))

\* start_reply(): the type of the answer; the transaction id and the client
\* identifier are the client's.
start_reply(p, rapid) ==
    [type |-> IF p.type = "SOLICIT" /\ ~(rapid /\ p.rapid) THEN "ADVERTISE" ELSE "REPLY",
     xid |-> p.xid]

\* "unicast" and "asked" are only for the properties.
Answer(p, status, net) == start_reply(p, TRUE) @@ [status |-> status, net |-> net, unicast |-> Unicast(p), asked |-> Range(FlattenSeq(p.ias["NA"] \o p.ias["TA"]))]

\* unicast_reject()
unicast_reject(p, i) ==
    IF shared_network_from_packet6(p, i) = NoNet THEN {} ELSE {Answer(p, "UseMulticast", NoNet)}

\* lease_to_client(), iterate_over_ia_na() and iterate_over_ia_pd() work on
\* the network of the packet; what they assign is the subject of Dhcp6.
Processed(p, i) ==
    LET net == shared_network_from_packet6(p, i)
    IN IF net = NoNet THEN {} ELSE {Answer(p, "Processed", net)}

(***************************************************************************)
(* The handlers.                                                           *)
(***************************************************************************)

dhcpv6_solicit(p, i) == IF valid_client_msg(p) THEN Processed(p, i) ELSE {}

dhcpv6_rebind(p, i) == IF valid_client_msg(p) THEN Processed(p, i) ELSE {}

\* dhcpv6_request(); Renew, Decline and Release are validated the same way.
dhcpv6_request(p, i) ==
    IF ~valid_client_resp(p) THEN {}
    ELSE IF Unicast(p) /\ ~is_unicast_option_defined(p, i) THEN unicast_reject(p, i)
    ELSE Processed(p, i)

dhcpv6_renew(p, i) == dhcpv6_request(p, i)

dhcpv6_information_request(p, i) == IF valid_client_info_req(p) THEN Processed(p, i) ELSE {}

\* dhcpv6_confirm()
dhcpv6_confirm(p, i) ==
    LET net == shared_network_from_packet6(p, i)
        addrs == ConfirmedAddrs(p)
    IN IF ~valid_client_msg(p) \/ net = NoNet \/ addrs = {} THEN {}
       ELSE {Answer(p, IF \A a \in addrs : NetOf[a] = net THEN "Success" ELSE "NotOnLink", net)}

\* build_dhcpv6_reply() for the client's part; what is not listed is
\* discarded.
ClientReply(p, i) ==
    CASE p.type = "SOLICIT" -> dhcpv6_solicit(p, i)
      [] p.type = "REQUEST" -> dhcpv6_request(p, i)
      [] p.type = "CONFIRM" -> dhcpv6_confirm(p, i)
      [] p.type = "RENEW" -> dhcpv6_renew(p, i)
      [] p.type = "REBIND" -> dhcpv6_rebind(p, i)
      [] p.type = "INFORMATION-REQUEST" -> dhcpv6_information_request(p, i)
      [] OTHER -> {}

\* dhcpv6_relay_forw(), and dhcp4o6_relay_forw() on the DHCPv4 side: each
\* layer of the answer has the hop count, addresses and interface-id of the
\* layer it answers.
relay_reply(hdrs) == hdrs

\* build_dhcpv6_reply() of a whole message received on interface i.
build_dhcpv6_reply(p, i) ==
    {[dir |-> "down", hdrs |-> relay_reply(p.hdrs), msg |-> a] : a \in ClientReply(p, i)}
=============================================================================
