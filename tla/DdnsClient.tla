----------------------------- MODULE DdnsClient -----------------------------
(***************************************************************************)
(* The DNS updates of the client (client/dhclient.c): a client that does   *)
(* its own forward update adds its name some time after it was given an    *)
(* address, tries again as long as nobody answers, and removes the name    *)
(* when it gives the address up.                                           *)
(***************************************************************************)
EXTENDS DnsUpdate

CONSTANTS Self,        \* the DHCID of this client
          Fqdn,        \* the name it asks for
          MaxBinds,    \* bound on the leases it is given
          MaxFaults    \* bound on the answers that are lost or refused

VARIABLES held, mine, timers, cbs, msgs, events, active, zone, calm, binds, faults

vars == <<held, mine, timers, cbs, msgs, events, active, zone, calm, binds, faults>>

\* held: the address in use; mine: client->ddns_cb; timers: the blocks whose
\* client_dns_update_timeout() is scheduled.
World == [mine |-> mine, timers |-> timers, cbs |-> cbs, msgs |-> msgs, events |-> events,
          active |-> active, zone |-> zone]

Becomes(w) == /\ mine' = w.mine
              /\ timers' = w.timers
              /\ cbs' = w.cbs
              /\ msgs' = w.msgs
              /\ events' = w.events
              /\ active' = w.active
              /\ zone' = w.zone

\* cb->lease is the client of an update, and NULL in a removal and once the
\* update was canceled.
HasClient(cb) == "INCLUDE_RRSET" \in cb.flags /\ "ABORT" \notin cb.flags

\* dhclient_ddns_cb_free(): with its client, the pointer of the client goes.
dhclient_ddns_cb_free(w, k) ==
    ddns_cb_free(IF HasClient(w.cbs[k]) THEN [w EXCEPT !.mine = NoCb] ELSE w, k)

\* client_dns_update(): nothing without a lease; else the first message.
client_dns_update(w, k, bound) ==
    IF bound /\ CanModifyFwd(w, k) THEN ddns_modify_fwd([w EXCEPT !.cbs[k].name = Fqdn, !.cbs[k].owner = Self], k)
    ELSE dhclient_ddns_cb_free(w, k)

\* client_dns_update_timeout(): the time for an attempt has come.
client_dns_update_timeout(w0, k, bound) ==
    LET w == [w0 EXCEPT !.timers = @ \ {k}]
    IN IF HasClient(w.cbs[k]) THEN client_dns_update(w, k, bound) ELSE dhclient_ddns_cb_free(w, k)

\* client_dns_update_action(): a name in use gets the second message, and a
\* timeout starts all over after ten times the wait.
client_dns_update_action(w, k, r) ==
    LET w1 == [w EXCEPT !.cbs[k].state = "ADD_FW_YXDHCID"]
    IN CASE r = "TIMEDOUT" ->
                [w EXCEPT !.cbs[k].name = None, !.cbs[k].owner = None, !.cbs[k].zone = FALSE,
                          !.cbs[k].state = "ADD_FW_NXDOMAIN",
                          !.cbs[k].timeout = IF @ < 3600 THEN 10 * @ ELSE @,
                          !.timers = @ \union {k}]
         [] r = "YXRRSET" /\ w.cbs[k].state = "ADD_FW_NXDOMAIN" /\ CanModifyFwd(w1, k) -> ddns_modify_fwd(w1, k)
         [] OTHER -> dhclient_ddns_cb_free(w, k)

\* client_dns_remove_action(): the address is gone, then the DHCID.
client_dns_remove_action(w, k, r) ==
    LET w1 == [w EXCEPT !.cbs[k].state = "REM_FW_NXRR"]
    IN IF r = "SUCCESS" /\ w.cbs[k].state = "REM_FW_YXDHCID" /\ CanModifyFwd(w1, k) THEN ddns_modify_fwd(w1, k)
       ELSE dhclient_ddns_cb_free(w, k)

cur_func(w, k, r) == IF "INCLUDE_RRSET" \in w.cbs[k].flags THEN client_dns_update_action(w, k, r)
                     ELSE client_dns_remove_action(w, k, r)

\* Mutant: the pointer is replaced, and what it pointed to goes on.
Canceled_forgotten(w) == [w EXCEPT !.mine = NoCb]

\* The outstanding update of the client, if there is one, is canceled.
Canceled(w) == IF mine = NoCb THEN w ELSE [ddns_cancel(w, mine) EXCEPT !.mine = NoCb]

\* dhclient_schedule_updates(): the first attempt is a timer.
dhclient_schedule_updates(w0, a) ==
    LET w == Canceled(w0)
        k == ddns_cb_alloc(w.cbs)
    IN [w EXCEPT !.cbs[k] = [FreeCb EXCEPT !.state = "ADD_FW_NXDOMAIN", !.addr = a, !.timeout = 1,
                                           !.flags = {"ADDR", "INCLUDE_RRSET"}],
                 !.mine = k, !.timers = @ \union {k}]

\* client_dns_remove(): the first message goes at once, and there is no second try.
client_dns_remove(w0, a) ==
    LET w == Canceled(w0)
        k == ddns_cb_alloc(w.cbs)
    IN client_dns_update([w EXCEPT !.cbs[k] = [FreeCb EXCEPT !.state = "REM_FW_YXDHCID", !.addr = a, !.flags = {"ADDR"}]],
                         k, TRUE)

(***************************************************************************)
(* The specification.                                                      *)
(***************************************************************************)
Init == /\ held = None
        /\ mine = NoCb
        /\ timers = {}
        /\ cbs = [k \in CbIds |-> FreeCb]
        /\ msgs = {}
        /\ events = [k \in CbIds |-> None]
        /\ active = Directions
        /\ zone \in {EmptyZone} \union {[EmptyZone EXCEPT !.addr[Fqdn] = {a}, !.dhcid[Fqdn] = {Self}] : a \in Addrs}
        /\ calm = TRUE
        /\ binds = 0
        /\ faults = 0

\* The client is given an address, or a new time for the one it has.  (calm
\* turns FALSE if the removal of the last one is still under way.)
Bind(a) == /\ binds < MaxBinds
           /\ HasCbs(cbs, 1)
           /\ Becomes(dhclient_schedule_updates(World, a))
           /\ held' = a
           /\ calm' = (calm /\ msgs = {} /\ {k \in CbIds : Allocated(cbs, k) /\ k # mine} = {})
           /\ binds' = binds + 1
           /\ UNCHANGED faults

\* It gives its address up.
Unbind == /\ held # None
          /\ HasCbs(cbs, 1)
          /\ Becomes(client_dns_remove(World, held))
          /\ held' = None
          /\ UNCHANGED <<calm, binds, faults>>

Timeout == /\ \E k \in timers : Becomes(client_dns_update_timeout(World, k, held # None))
           /\ UNCHANGED <<held, calm, binds, faults>>

DnsAnswers == /\ \E q \in msgs : Becomes(Answer(World, q, FALSE))
              /\ UNCHANGED <<held, calm, binds, faults>>

DnsFails == /\ faults < MaxFaults
            /\ \E q \in {m \in msgs : m.id # NoCb} :
                   \/ Becomes(Answer(World, q, TRUE))
                   \/ \E code \in {"TIMEDOUT", "NOTAUTH"} : Becomes(Unanswered(World, q, code))
            /\ faults' = faults + 1
            /\ UNCHANGED <<held, calm, binds>>

Interlude == /\ \E k \in CbIds : events[k] # None /\ Becomes(ddns_interlude(World, k, cur_func))
             /\ UNCHANGED <<held, calm, binds, faults>>

Next == (\E a \in Addrs : Bind(a)) \/ Unbind \/ Timeout \/ DnsAnswers \/ DnsFails \/ Interlude

\* Timers fire, messages arrive and answers are delivered.
Progress == Timeout \/ DnsAnswers \/ Interlude
Pending == timers # {} \/ msgs # {} \/ {k \in CbIds : events[k] # None} # {}
Spec == Init /\ [][Next]_vars
LiveSpec == Spec /\ ([]<>~Pending \/ []<><<Progress>>_vars)   \* weak fairness of Progress

(***************************************************************************)
(* Properties.                                                             *)
(***************************************************************************)

\* Every block waits for exactly one thing, an answer or its timer, so that it
\* is neither lost nor served twice; the one update that was not canceled is the
\* block the client points to, and is about the address it holds.
OneUpdateAtATime ==
    /\ \A k \in CbIds : Allocated(cbs, k) <=> (k \in timers \/ Waiting(World, k))
    /\ \A k \in timers : ~Waiting(World, k)
    /\ {k \in CbIds : Allocated(cbs, k) /\ HasClient(cbs[k])} = {mine} \ {NoCb}
    /\ mine # NoCb => cbs[mine].addr = held

\* A client that keeps its address finds it in DNS in the end, though answers
\* are lost, as long as the zone was not refused and no removal of its own was
\* still under way: the attempt whose answer came too late is found by the next.
Named == held \in zone.addr[Fqdn] \/ ~calm \/ "FORWARD" \notin active
NamedInTheEnd == <>[](held # None) => <>Named

=============================================================================
