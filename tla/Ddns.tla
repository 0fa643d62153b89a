-------------------------------- MODULE Ddns --------------------------------
(***************************************************************************)
(* The DNS updates of the server (server/ddns.c) for the leases of one     *)
(* family: an acknowledged lease gets a forward and a reverse record, a    *)
(* lease that ends loses them, and the bindings of the lease record what   *)
(* was done.  The updates of several leases run at the same time; a new    *)
(* event of a lease cancels the update that is under way for it.           *)
(***************************************************************************)
EXTENDS DnsUpdate

CONSTANTS Families,         \* which of {"v4", "v6"} are explored
          HasName,          \* HasName[c]: the names client c may ask for
          Optimize,         \* update-optimization
          ConflictDetect,   \* update-conflict-detection
          ClientUpdates,    \* may a client update its forward record itself
          MaxAcks,          \* bound on acknowledgements
          MaxFaults         \* bound on answers that are lost or refused

VARIABLES family, lease, cbs, msgs, events, active, zone, disturbed, acks, faults

vars == <<family, lease, cbs, msgs, events, active, zone, disturbed, acks, faults>>

Unscoped == [fwd |-> None, tag |-> None, rev |-> FALSE, fqdn |-> None]
NewLease == [client |-> None, bound |-> FALSE, scope |-> Unscoped, cb |-> NoCb]

World == [lease |-> lease, cbs |-> cbs, msgs |-> msgs, events |-> events, active |-> active, zone |-> zone]

Becomes(w) == /\ lease' = w.lease
              /\ cbs' = w.cbs
              /\ msgs' = w.msgs
              /\ events' = w.events
              /\ active' = w.active
              /\ zone' = w.zone

(***************************************************************************)
(* The lease of a control block.                                           *)
(***************************************************************************)

\* safe_lease_update(), safe_lease6_update(): the pointer changes only if it
\* is this block's, or free.
safe_lease_update(w, k, set) ==
    LET a == w.cbs[k].addr
    IN IF w.lease[a].cb \in {NoCb, k} THEN [w EXCEPT !.lease[a].cb = set] ELSE w

\* ddns_update_lease_ptr(): the lease is at hand, or it is found by address.
\* For IPv6 only an active lease is found, and its pointer is not compared.
ddns_update_lease_ptr(w, k, given, set) ==
    LET a == w.cbs[k].addr
    IN CASE family = "v6" /\ "ACTIVE" \notin w.cbs[k].flags -> w
         [] family = "v6" /\ "ACTIVE" \in w.cbs[k].flags /\ ~given ->
                IF w.lease[a].bound THEN [w EXCEPT !.lease[a].cb = set] ELSE w
         [] OTHER -> safe_lease_update(w, k, set)

\* What the state of the block makes of the bindings.
Rebound(s, cb) ==
    CASE cb.state = "REM_PTR" ->
             [s EXCEPT !.rev = FALSE, !.fqdn = IF "CLIENT_DID_UPDATE" \in cb.flags THEN None ELSE @]
      [] cb.state \in {"ADD_PTR", "CLEANUP"} ->
             [s EXCEPT !.rev = TRUE, !.fqdn = IF "ADDR" \in cb.flags THEN @ ELSE cb.name]
      [] cb.state \in {"ADD_FW_YXDHCID", "ADD_FW_NXDOMAIN"} -> [s EXCEPT !.fwd = cb.name, !.tag = cb.owner]
      [] OTHER -> [s EXCEPT !.fwd = None, !.tag = None]

\* ddns_update_lease_text(): bindings of a lease that is still active.
ddns_update_lease_text(w, k) ==
    LET a == w.cbs[k].addr
    IN IF "ACTIVE" \in w.cbs[k].flags /\ (family = "v4" \/ w.lease[a].bound)
       THEN [w EXCEPT !.lease[a].scope = Rebound(@, w.cbs[k])] ELSE w

(***************************************************************************)
(* The steps of an update: each takes the answer to the last message.      *)
(***************************************************************************)

\* The block is done: the lease forgets it.
Done(w, k) == ddns_cb_free(ddns_update_lease_ptr(w, k, FALSE, NoCb), k)

ddns_ptr_add(w, k, r) == Done(IF r = "SUCCESS" THEN ddns_update_lease_text(w, k) ELSE w, k)

\* The forward record is there; the reverse record follows.
Added(w, k) ==
    LET w1 == ddns_update_lease_text(w, k)
        w2 == [w1 EXCEPT !.cbs[k].state = "ADD_PTR", !.cbs[k].zone = FALSE]
    IN CASE "PTR" \notin w.cbs[k].flags -> Done(w1, k)
         [] OTHER -> IF CanModifyPtr(w2, k) THEN ddns_modify_ptr(w2, k) ELSE Done(w2, k)

ddns_fwd_srv_add2(w, k, r) == IF r = "SUCCESS" THEN Added(w, k) ELSE Done(w, k)

\* A name in use gets a second message.
ddns_fwd_srv_add1(w, k, r) ==
    LET w1 == [w EXCEPT !.cbs[k].state = "ADD_FW_YXDHCID"]
    IN CASE r = "SUCCESS" -> Added(w, k)
         [] r = "YXDOMAIN" -> IF CanModifyFwd(w1, k) THEN ddns_modify_fwd(w1, k) ELSE Done(w1, k)
         [] OTHER -> Done(w, k)

\* ddns_fwd_srv_connector(): the first message of an addition, unless what
\* came before it failed.
ddns_fwd_srv_connector(w, k, given, ok) ==
    LET fwd == [w EXCEPT !.cbs[k].state = "ADD_FW_NXDOMAIN"]
        rev == [w EXCEPT !.cbs[k].state = "ADD_PTR"]
        started(x) == ddns_update_lease_ptr(x, k, given, k)
    IN CASE k = NoCb -> w
         [] k # NoCb /\ ~ok -> ddns_cb_free(w, k)
         [] k # NoCb /\ ok /\ "ADDR" \in w.cbs[k].flags ->
                IF CanModifyFwd(fwd, k) THEN started(ddns_modify_fwd(fwd, k)) ELSE ddns_cb_free(fwd, k)
         [] k # NoCb /\ ok /\ "ADDR" \notin w.cbs[k].flags /\ "PTR" \in w.cbs[k].flags /\ w.cbs[k].rev ->
                IF CanModifyPtr(rev, k) THEN started(ddns_modify_ptr(rev, k)) ELSE ddns_cb_free(rev, k)
         [] OTHER -> ddns_cb_free(ddns_update_lease_text(w, k), k)

\* A removal is done: the lease forgets it and the addition behind it starts.
Removed(w, k, ok) ==
    LET w1 == ddns_update_lease_ptr(w, k, FALSE, NoCb)
    IN ddns_cb_free(ddns_fwd_srv_connector(w1, w.cbs[k].next, FALSE, ok), k)

ddns_ptr_remove(w, k, r) ==
    LET gone == r \in {"SUCCESS", "NXRRSET", "NXDOMAIN"}
    IN Removed(IF gone THEN ddns_update_lease_text(w, k) ELSE w, k,
               gone /\ "EXECUTE_NEXT" \in w.cbs[k].flags)

\* The forward record was dealt with; the reverse record is next.  The addition
\* behind it may follow (ok), or may follow if this message cannot go out (failed).
RemovePtr(w, k, ok, failed) ==
    LET w1 == [w EXCEPT !.cbs[k].state = "REM_PTR", !.cbs[k].zone = FALSE,
                        !.cbs[k].flags = IF ok THEN @ \union {"EXECUTE_NEXT"} ELSE @]
    IN CASE "PTR" \notin w.cbs[k].flags -> Removed(w, k, ok)
         [] OTHER -> IF CanModifyPtr(w1, k) THEN ddns_modify_ptr(w1, k) ELSE Removed(w1, k, failed)

ddns_fwd_srv_rem2(w, k, r) ==
    LET ok == r \in {"SUCCESS", "YXRRSET"}
    IN RemovePtr(IF ok THEN ddns_update_lease_text(w, k) ELSE w, k, ok, FALSE)

ddns_fwd_srv_rem1(w, k, r) ==
    LET w1 == [w EXCEPT !.cbs[k].state = "REM_FW_NXRR"]
    IN CASE r = "SUCCESS" -> IF CanModifyFwd(w1, k) THEN ddns_modify_fwd(w1, k) ELSE Removed(w1, k, TRUE)
         [] r \in {"NXRRSET", "NXDOMAIN"} -> RemovePtr(ddns_update_lease_text(w, k), k, TRUE, TRUE)
         [] OTHER -> RemovePtr(w, k, FALSE, FALSE)

cur_func(w, k, r) ==
    CASE w.cbs[k].state = "ADD_FW_NXDOMAIN" -> ddns_fwd_srv_add1(w, k, r)
      [] w.cbs[k].state = "ADD_FW_YXDHCID" -> ddns_fwd_srv_add2(w, k, r)
      [] w.cbs[k].state = "ADD_PTR" -> ddns_ptr_add(w, k, r)
      [] w.cbs[k].state = "REM_FW_YXDHCID" -> ddns_fwd_srv_rem1(w, k, r)
      [] w.cbs[k].state = "REM_FW_NXRR" -> ddns_fwd_srv_rem2(w, k, r)
      [] OTHER -> ddns_ptr_remove(w, k, r)

(***************************************************************************)
(* What starts an update.                                                  *)
(***************************************************************************)
Adding(cb) == cb.state \in {"ADD_PTR", "ADD_FW_NXDOMAIN", "ADD_FW_YXDHCID"}

\* The block of a removal: the names are those the lease remembers.
RemovalCb(a, s, add, act) ==
    [FreeCb EXCEPT
        !.state = "CLEANUP", !.addr = a, !.next = IF s.fwd = None THEN NoCb ELSE add,
        !.flags = (IF act THEN {"ACTIVE"} ELSE {})
                  \union (IF s.fwd # None THEN {"ADDR"} ELSE {})
                  \union (IF s.rev THEN {"PTR"} ELSE {})
                  \union (IF s.fwd = None /\ s.fqdn # None THEN {"CLIENT_DID_UPDATE"} ELSE {}),
        !.name = IF s.fwd # None THEN s.fwd ELSE s.fqdn, !.owner = s.tag, !.rev = s.rev]

\* ddns_removals(), once nothing else is under way: the message about the
\* forward record, or about the reverse record, or neither.
StartRemoval(w0, a, add, act) ==
    LET k == ddns_cb_alloc(w0.cbs)
        s == w0.lease[a].scope
        w == [w0 EXCEPT !.cbs[k] = RemovalCb(a, s, add, act)]
        fwd == [w EXCEPT !.cbs[k].state = "REM_FW_YXDHCID"]
        dropped == ddns_fwd_srv_connector(w, add, TRUE, FALSE)
        rev == [dropped EXCEPT !.cbs[k].state = "REM_PTR", !.cbs[k].flags = @ \union {"EXECUTE_NEXT"}]
    IN CASE s.fwd # None /\ CanModifyFwd(fwd, k) ->
                ddns_update_lease_ptr(ddns_modify_fwd(fwd, k), k, TRUE, k)
         [] s.fwd = None /\ s.rev /\ CanModifyPtr(rev, k) ->
                ddns_update_lease_ptr(ddns_modify_ptr(rev, k), k, TRUE, k)
         [] OTHER -> ddns_cb_free(dropped, k)

\* ddns_removals(): an addition under way is canceled, and so is a removal
\* for a lease that was active and no longer is; any other removal goes on,
\* without the addition behind it.
ddns_removals(w, a, add, act) ==
    LET old == w.lease[a].cb
        next == w.cbs[old].next
        under == add = NoCb /\ old # NoCb
        cancel == Adding(w.cbs[old]) \/ (~act /\ "ACTIVE" \in w.cbs[old].flags)
    IN CASE ~under -> StartRemoval(w, a, add, act)
         [] under /\ cancel -> StartRemoval([ddns_cancel(w, old) EXCEPT !.lease[a].cb = NoCb], a, add, act)
         [] OTHER -> IF next = NoCb THEN w ELSE [ddns_cb_free(w, next) EXCEPT !.cbs[old].next = NoCb]

\* The block of an addition.
UpdateCb(a, c, n, byClient) ==
    [FreeCb EXCEPT
        !.state = "CLEANUP", !.addr = a, !.name = n, !.owner = IF byClient THEN None ELSE c, !.rev = TRUE,
        !.flags = {"PTR", "ACTIVE"} \union (IF byClient THEN {} ELSE {"ADDR"})
                  \union (IF ~byClient /\ ~ConflictDetect THEN {"CONFLICT_OVERRIDE"} ELSE {})]

\* ddns_updates(), the outstanding request: an IPv4 acknowledgement cancels
\* it, dhcpv6.c passes no old lease and does not.
Outstanding(w, a) ==
    LET old == w.lease[a].cb
    IN IF family = "v4" /\ old # NoCb THEN [ddns_cancel(w, old) EXCEPT !.lease[a].cb = NoCb] ELSE w

\* ddns_updates(), the names: nothing to do if the lease has this name
\* already, and a removal first if it has another one.
ddns_updates(w0, a, c, n, byClient) ==
    LET w == Outstanding(w0, a)
        s == w.lease[a].scope
        other == s.fwd # None /\ s.fwd # n
        known == Optimize /\ ~other /\ n # None /\ (s.fwd = n \/ (s.fwd = None /\ s.fqdn = n))
        k == ddns_cb_alloc(w.cbs)
        w1 == [w EXCEPT !.cbs[k] = UpdateCb(a, c, n, byClient)]
    IN CASE known -> w
         [] ~known /\ n = None -> IF other THEN ddns_removals(w, a, NoCb, TRUE) ELSE w
         [] ~known /\ n # None /\ other -> ddns_removals(w1, a, k, TRUE)
         [] OTHER -> ddns_fwd_srv_connector(w1, k, TRUE, TRUE)

(***************************************************************************)
(* The specification.                                                      *)
(***************************************************************************)
Init == /\ family \in Families
        /\ lease = [a \in Addrs |-> NewLease]
        /\ cbs = [k \in CbIds |-> FreeCb]
        /\ msgs = {}
        /\ events = [k \in CbIds |-> None]
        /\ active = Directions
        /\ zone = EmptyZone
        /\ disturbed = FALSE
        /\ acks = 0
        /\ faults = 0

\* Does an update for this address go on.
Busy(a) == {k \in CbIds : cbs[k].addr = a} # {} \/ {q \in msgs : q.addr = a} # {}

\* The lease is given or renewed.  A DISCOVER for a lease that has ended drops
\* its bindings; a REQUEST does not.
Ack(a, c, n, byClient, discover) ==
    /\ acks < MaxAcks
    /\ lease[a].bound => lease[a].client = c /\ ~discover
    /\ family = "v6" /\ ~lease[a].bound => discover
    /\ HasCbs(cbs, 2)
    /\ LET scope == IF discover THEN Unscoped ELSE lease[a].scope
           w == [World EXCEPT !.lease[a] = [@ EXCEPT !.client = c, !.bound = TRUE, !.scope = scope]]
       IN Becomes(ddns_updates(w, a, c, n, byClient))
    /\ disturbed' = (disturbed \/ Busy(a))
    /\ acks' = acks + 1
    /\ UNCHANGED <<family, faults>>

\* The lease runs out.  An IPv4 lease keeps its bindings until the records are
\* gone; an IPv6 lease loses them and leaves the table.
Expire(a) ==
    /\ lease[a].bound
    /\ HasCbs(cbs, 1)
    /\ LET w == ddns_removals(World, a, NoCb, family = "v4")
       IN Becomes([w EXCEPT !.lease[a].bound = FALSE,
                            !.lease[a].scope = IF family = "v4" THEN @ ELSE Unscoped])
    /\ disturbed' = (disturbed \/ Busy(a))
    /\ UNCHANGED <<family, acks, faults>>

\* The lease is released (or abandoned): the bindings go at once, and the
\* change of state of an IPv4 lease asks for the removal a second time.
Release(a) ==
    /\ lease[a].bound
    /\ HasCbs(cbs, 2)
    /\ LET w == [ddns_removals(World, a, NoCb, FALSE) EXCEPT !.lease[a].scope = Unscoped]
           again == IF family = "v4" THEN ddns_removals(w, a, NoCb, TRUE) ELSE w
       IN Becomes([again EXCEPT !.lease[a].bound = FALSE])
    /\ disturbed' = (disturbed \/ Busy(a))
    /\ UNCHANGED <<family, acks, faults>>

\* A message reaches the DNS server and is answered.
DnsAnswers ==
    /\ \E q \in msgs : Becomes(Answer(World, q, FALSE))
    /\ UNCHANGED <<family, disturbed, acks, faults>>

\* It is lost, before or after the DNS server acted, or refused.  (A message
\* that nobody waits for may stay on its way for ever.)
DnsFails ==
    /\ faults < MaxFaults
    /\ \E q \in {m \in msgs : m.id # NoCb} :
           \/ Becomes(Answer(World, q, TRUE))
           \/ \E code \in {"TIMEDOUT", "NOTAUTH"} : Becomes(Unanswered(World, q, code))
    /\ disturbed' = TRUE
    /\ faults' = faults + 1
    /\ UNCHANGED <<family, acks>>

\* The answer reaches the update it belongs to.
Interlude ==
    /\ \E k \in CbIds : events[k] # None /\ Becomes(ddns_interlude(World, k, cur_func))
    /\ UNCHANGED <<family, disturbed, acks, faults>>

Next == \/ \E a \in Addrs, c \in Owners, discover \in BOOLEAN : \E n \in HasName[c], byClient \in ClientUpdates :
               Ack(a, c, n, byClient /\ n # None, discover)
        \/ \E a \in Addrs : Expire(a)
        \/ \E a \in Addrs : Release(a)
        \/ DnsAnswers
        \/ DnsFails
        \/ Interlude

Spec == Init /\ [][Next]_vars

(***************************************************************************)
(* Properties.                                                             *)
(***************************************************************************)

\* The blocks that something refers to: a transaction, an answer to deliver,
\* or the update in front.
Referenced == {k \in CbIds : Waiting(World, k)}
              \union {cbs[k].next : k \in {j \in CbIds : Allocated(cbs, j) /\ Waiting(World, j)}}

\* Whatever is canceled, freed, chained or answered in whatever order: a lease
\* refers to a block that exists, is about that lease and was not canceled;
\* every block has an answer to wait for or is behind one that has; and no
\* answer finds its block gone.
BlocksInOrder ==
    /\ \A a \in Addrs : lease[a].cb # NoCb =>
           LET cb == cbs[lease[a].cb]
           IN cb.state # "FREE" /\ cb.addr = a /\ "ABORT" \notin cb.flags
    /\ {k \in CbIds : Allocated(cbs, k)} = Referenced \ {NoCb}

\* A name that has address records has the DHCID of exactly one client: the
\* two messages of a removal never leave an address without its owner, and the
\* two of an addition never give it a second one.
OneOwner == \A n \in Names : zone.addr[n] # {} => Cardinality(zone.dhcid[n]) = 1

\* With conflict detection nothing changes the addresses or the owner of a name
\* in use but a message for the client whose DHCID the name carries, however the
\* messages of different clients and of canceled updates interleave.
OwnersOnly ==
    ConflictDetect =>
        \A n \in Names : \A c \in zone.dhcid[n] :
            zone.addr[n] # {} /\ (zone'.addr[n] # zone.addr[n] \/ zone'.dhcid[n] # zone.dhcid[n])
                => \E q \in msgs \ msgs' : q.name = n /\ q.owner = c
NameProtected == [][OwnersOnly]_vars

\* Where no answer was lost and no event of a lease came upon an update that
\* was under way for it: once all is quiet, a record in DNS is one that the
\* lease of its address remembers, so that it will be removed with the lease.
RecordsRemembered ==
    ~disturbed => \A a \in Addrs : ~Busy(a) =>
        /\ \A n \in Names : a \in zone.addr[n] => lease[a].scope.fwd = n
        /\ zone.ptr[a] # None => lease[a].scope.rev

=============================================================================
