----------------------------- MODULE DnsUpdate -----------------------------
(***************************************************************************)
(* Dynamic DNS updates of common/dns.c, as the server (server/ddns.c) and  *)
(* the client (client/dhclient.c) make them: the control block of one      *)
(* update, the four messages about a forward record and the one about a    *)
(* reverse record, and what a DNS server does with each of them.           *)
(***************************************************************************)
EXTENDS Integers, FiniteSets

CONSTANTS Addrs,    \* the addresses of leases
          Owners,   \* the identities of clients: what a DHCID stands for
          Names,    \* forward names
          MaxCbs,   \* how many control blocks there may be at one time
          None      \* no name, no client

CbIds == 1 .. MaxCbs
NoCb == 0

\* dhcp_ddns_cb_t: what is under way, for which address and name, the update
\* that comes next, and whether somebody waits for the answer.
FreeCb == [state |-> "FREE", flags |-> {}, addr |-> None, name |-> None, owner |-> None,
           rev |-> FALSE, zone |-> FALSE, next |-> NoCb, timeout |-> 0]

Allocated(cbs, k) == cbs[k].state # "FREE"

\* ddns_cb_alloc(): where the new block is.
ddns_cb_alloc(cbs) == CHOOSE k \in CbIds : ~Allocated(cbs, k) /\ \A j \in 1 .. k - 1 : Allocated(cbs, j)

HasCbs(cbs, n) == Cardinality({k \in CbIds : ~Allocated(cbs, k)}) >= n

(***************************************************************************)
(* What the zone of a name holds: address records and DHCID records for a  *)
(* forward name, one pointer for an address.                               *)
(***************************************************************************)
EmptyZone == [addr |-> [n \in Names |-> {}], dhcid |-> [n \in Names |-> {}], ptr |-> [a \in Addrs |-> None]]

\* The prerequisites and the updates of a message, as a result and a new zone.
Accepts(z, q, n) == [result |-> "SUCCESS", zone |-> [z EXCEPT !.addr[q.name] = n.addr, !.dhcid[q.name] = n.dhcid]]
Refuses(z, code) == [result |-> code, zone |-> z]

\* The name is not in use, or (a client asks) it has no address: add both.
ddns_modify_fwd_add1(z, q) ==
    LET free == IF "INCLUDE_RRSET" \in q.flags THEN z.addr[q.name] = {}
                ELSE z.addr[q.name] = {} /\ z.dhcid[q.name] = {}
    IN IF free THEN Accepts(z, q, [addr |-> {q.addr}, dhcid |-> z.dhcid[q.name] \union {q.owner}])
       ELSE Refuses(z, IF "INCLUDE_RRSET" \in q.flags THEN "YXRRSET" ELSE "YXDOMAIN")

\* The DHCID is the client's, or the conflict is overridden: replace the address.
ddns_modify_fwd_add2(z, q) ==
    IF "CONFLICT_OVERRIDE" \in q.flags THEN Accepts(z, q, [addr |-> {q.addr}, dhcid |-> {q.owner}])
    ELSE IF q.owner \in z.dhcid[q.name] THEN Accepts(z, q, [addr |-> {q.addr}, dhcid |-> z.dhcid[q.name]])
    ELSE Refuses(z, "NXRRSET")

\* The DHCID is the client's: delete this one address.
ddns_modify_fwd_rem1(z, q) ==
    IF q.owner \in z.dhcid[q.name]
    THEN Accepts(z, q, [addr |-> z.addr[q.name] \ {q.addr}, dhcid |-> z.dhcid[q.name]])
    ELSE Refuses(z, "NXRRSET")

\* Mutant: the DHCID is deleted with addresses still there.
ddns_modify_fwd_rem2_unasked(z, q) ==
    Accepts(z, q, [addr |-> z.addr[q.name], dhcid |-> z.dhcid[q.name] \ {q.owner}])

\* No address is left: delete the DHCID.
ddns_modify_fwd_rem2(z, q) ==
    IF z.addr[q.name] = {} THEN Accepts(z, q, [addr |-> {}, dhcid |-> z.dhcid[q.name] \ {q.owner}])
    ELSE Refuses(z, "YXRRSET")

\* The message of ddns_modify_ptr() has no prerequisite.
PtrUpdated(z, q) ==
    [result |-> "SUCCESS", zone |-> [z EXCEPT !.ptr[q.addr] = IF q.state = "ADD_PTR" THEN q.name ELSE None]]

\* What the DNS server makes of a message.
Updated(z, q) == CASE q.state = "ADD_FW_NXDOMAIN" -> ddns_modify_fwd_add1(z, q)
                   [] q.state = "ADD_FW_YXDHCID" -> ddns_modify_fwd_add2(z, q)
                   [] q.state = "REM_FW_YXDHCID" -> ddns_modify_fwd_rem1(z, q)
                   [] q.state = "REM_FW_NXRR" -> ddns_modify_fwd_rem2(z, q)
                   [] OTHER -> PtrUpdated(z, q)

(***************************************************************************)
(* The side of the updater: w holds cbs, msgs (the updates on their way),  *)
(* events (the answers not yet delivered) and active (the zones that were  *)
(* not repudiated).                                                        *)
(***************************************************************************)
Directions == {"FORWARD", "REVERSE"}

\* A repudiated zone is found, and given up.
find_cached_zone(w, direction) == direction \in w.active

Sent(w, k) ==
    LET cb == w.cbs[k]
    IN [w EXCEPT !.msgs = @ \union {[id |-> k, state |-> cb.state, flags |-> cb.flags \intersect {"INCLUDE_RRSET", "CONFLICT_OVERRIDE"},
                                     name |-> cb.name, addr |-> cb.addr, owner |-> cb.owner]}]

\* The message of the block's state goes out, or there is no zone to ask.  A
\* block that has its zone already keeps it.
CanModifyFwd(w, k) == w.cbs[k].zone \/ find_cached_zone(w, "FORWARD")
ddns_modify_fwd(w, k) == Sent([w EXCEPT !.cbs[k].zone = TRUE], k)

CanModifyPtr(w, k) == w.cbs[k].rev /\ find_cached_zone(w, "REVERSE")
ddns_modify_ptr(w, k) == Sent([w EXCEPT !.cbs[k].zone = TRUE], k)

\* ddns_cb_free(): a message that is still on its way has nobody to answer to.
ddns_cb_free(w, k) ==
    [w EXCEPT !.cbs[k] = FreeCb,
              !.msgs = {IF q.id = k THEN [q EXCEPT !.id = NoCb] ELSE q : q \in @}]

Waiting(w, k) == \/ \E q \in w.msgs : q.id = k
                 \/ w.events[k] # None

\* ddns_cancel(): the transaction ends with an event of its own; the message
\* itself cannot be called back.
ddns_cancel(w, k) ==
    [w EXCEPT !.cbs[k].flags = @ \union {"ABORT"},
              !.events[k] = IF Waiting(w, k) THEN "CANCELED" ELSE @,
              !.msgs = {IF q.id = k THEN [q EXCEPT !.id = NoCb] ELSE q : q \in @}]

\* repudiate_zone(): the zone of the block is marked as inactive.
repudiate_zone(w, k) ==
    [w EXCEPT !.cbs[k].zone = FALSE,
              !.active = IF w.cbs[k].zone
                         THEN @ \ {IF w.cbs[k].state \in {"ADD_PTR", "REM_PTR"} THEN "REVERSE" ELSE "FORWARD"}
                         ELSE @]

\* ddns_interlude(): an answer for block k.  A canceled block is freed with the
\* update behind it, a bad zone is repudiated before one more attempt, and
\* everything else goes to the block's function, cur(w, k, result).
ddns_interlude(w0, k, cur(_, _, _)) ==
    LET r == w0.events[k]
        w == [w0 EXCEPT !.events[k] = None]
        next == w.cbs[k].next
        w1 == repudiate_zone(w, k)
        reverse == w.cbs[k].state \in {"ADD_PTR", "REM_PTR"}
    IN CASE "ABORT" \in w.cbs[k].flags ->
                ddns_cb_free(IF next # NoCb THEN ddns_cb_free(w, next) ELSE w, k)
         [] "ABORT" \notin w.cbs[k].flags /\ r = "NOTAUTH" ->
                IF reverse THEN IF CanModifyPtr(w1, k) THEN ddns_modify_ptr(w1, k) ELSE cur(w1, k, "FAILURE")
                ELSE IF CanModifyFwd(w1, k) THEN ddns_modify_fwd(w1, k) ELSE cur(w1, k, "FAILURE")
         [] OTHER -> cur(w, k, r)

\* A message reaches the DNS server.  The answer may come too late, and then
\* the block hears of a timeout.
Answer(w, q, late) ==
    LET u == Updated(w.zone, q)
    IN [w EXCEPT !.zone = u.zone,
                 !.msgs = @ \ {q},
                 !.events = IF q.id = NoCb THEN @ ELSE [@ EXCEPT ![q.id] = IF late THEN "TIMEDOUT" ELSE u.result]]

\* It never reaches it, or it is refused.
Unanswered(w, q, code) ==
    [w EXCEPT !.msgs = @ \ {q},
              !.events = IF q.id = NoCb THEN @ ELSE [@ EXCEPT ![q.id] = code]]

=============================================================================
