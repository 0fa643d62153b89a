-------------------------------- MODULE Dhc6 --------------------------------
(***************************************************************************)
(* The DHCPv6 client of client/dhc6.c: one struct client_state, the        *)
(* timeouts that drive it, the handler that its present exchange has       *)
(* installed, the lease file, the addresses and prefixes that its script   *)
(* configured and the servers that answer.                                 *)
(*                                                                         *)
(* The client wants one identity association (IA) of each kind in Wanted;  *)
(* a server gives each IA one address (or prefix), named by the kind and   *)
(* the server.  A lease is the set of its addresses, each with the         *)
(* preferred and valid lifetimes it has left, and the time since the most  *)
(* recent IA started.  Times are relative to cur_time and age with it.     *)
(* Every exchange draws a new transaction id, and a reply with another id  *)
(* is dropped, so that the network holds only replies to the present       *)
(* exchange.  Handlers are operators from a world to the set of worlds     *)
(* they may leave.                                                         *)
(***************************************************************************)
EXTENDS Integers, FiniteSets, FiniteSetsExt

CONSTANTS
    Servers,       \* numbers; the lower one wins a tie
    Preference,    \* the preference option of each server
    Wanted,        \* kinds of IA wanted, a subset of {"NA", "PD"}
    require_all_ias,
    RapidCommit,
    None,
    Pref, Valid,   \* lifetimes of each kind
    T1, T2,
    CNF_MAX_RD,    \* how long a Confirm is repeated
    REQ_MAX_RC,    \* how often a Request is repeated
    MaxInterval,   \* bound of the retransmission time
    MaxDelay,
    Codes,         \* status codes servers answer with
    MaxEvents,     \* restarts and releases
    Off            \* of a timeout that is not set: later than any other

VARIABLES
    client, net, conf, file, grant, calm, events

vars == <<client, net, conf, file, grant, calm, events>>

Timeouts == {"do_init6", "do_confirm6", "do_select6", "do_refresh6", "do_release6",
             "start_renew6", "start_rebind6", "do_depref", "do_expire",
             "do_info_request6", "refresh_info_request6"}
Retransmissions == {"do_confirm6", "do_select6", "do_refresh6", "do_release6"}

(***************************************************************************)
(* What the proofs assume of the constants.                                *)
(***************************************************************************)
\* An advertisement, an address, a lease and a reply.
Offers == [srv : Servers, kinds : SUBSET Wanted]
Addresses == [kind : Wanted, srv : Servers, pref : Int, valid : Int,
              depreffed : BOOLEAN, expired : BOOLEAN]
Leases == [srv : Servers, addrs : SUBSET Addresses, age : Nat]
Replied == [type : {"ADVERTISE", "REPLY", "RAPID"}, srv : Servers,
            code : Codes \cup {"Success"}, kinds : SUBSET Wanted, age : 0 .. MaxDelay]

\* The kinds of the constants.  Off is later than any lifetime.
Settings ==
    /\ IsFiniteSet(Wanted) /\ Valid \in [Wanted -> Nat] /\ Pref \in [Wanted -> Int]
    /\ Off \in Nat \ {0} /\ \A k \in Wanted : Valid[k] < Off
    /\ Servers \subseteq Int /\ Preference \in [Servers -> Int]
    /\ MaxDelay \in Nat
    /\ Codes \subseteq {"UnspecFail", "NoAddrsAvail", "NotOnLink", "NoBinding", "UseMulticast"}
    /\ None \notin Leases \cup Offers

World == [client |-> client, net |-> net, conf |-> conf, file |-> file, grant |-> grant]

add_timeout(w, f, t) == [w EXCEPT !.client.timer[f] = t]

cancel_timeout(w, F) ==
    [w EXCEPT !.client.timer = [f \in Timeouts |-> IF f \in F THEN Off ELSE @[f]]]

(***************************************************************************)
(* Leases.                                                                 *)
(***************************************************************************)
Address(k, s) ==
    [kind |-> k, srv |-> s, pref |-> Pref[k], valid |-> Valid[k],
     depreffed |-> FALSE, expired |-> FALSE]

Lease(s, K) == [srv |-> s, addrs |-> {Address(k, s) : k \in K}, age |-> 0]

Kinds(A) == {a.kind : a \in A}
Live(A) == {a \in A : ~a.expired}

\* dhc6_merge_lease(): addresses of the old lease that the new one lacks stay.
dhc6_merge_lease(src, dst) ==
    IF src = None THEN dst
    ELSE [dst EXCEPT !.addrs =
            @ \cup {a \in src.addrs : \A b \in @ : b.kind # a.kind \/ b.srv # a.srv}]

(***************************************************************************)
(* The servers.                                                            *)
(***************************************************************************)
Message(type, s, code, K) ==
    [type |-> type, srv |-> s, code |-> code, kinds |-> K, age |-> 0]

\* What server s may reply: all it was asked for, a part of it, or a refusal.
Replies(type, s) ==
    {Message(type, s, "Success", Wanted)}
    \cup (IF calm THEN {}
          ELSE {Message(type, s, "Success", K) : K \in SUBSET Wanted \ {{}, Wanted}}
               \cup {Message(type, s, c, {}) : c \in Codes})

\* The answers to a message: of every server that hears it at most one.
Exchange(w, type, S) ==
    {[w EXCEPT
        !.net = {m \in @ : <<m.type, m.srv>> \notin {<<r.type, r.srv>> : r \in R}} \cup R,
        !.grant = [k \in Wanted |-> [s \in Servers |->
            IF type \in {"REPLY", "RAPID"} /\ \E r \in R : r.srv = s /\ k \in r.kinds
            THEN Valid[k] ELSE @[k][s]]]] :
       R \in {Q \in SUBSET UNION {Replies(type, s) : s \in S} :
                /\ \A q, r \in Q : q.srv = r.srv => q = r
                /\ calm => {q.srv : q \in Q} = S}}

\* dhc6_retrans_init(): a new transaction, with nothing sent yet.
dhc6_retrans_init(w, handler, mrc, mrd) ==
    [w EXCEPT !.net = {}, !.client.handler = handler, !.client.txcount = 0,
              !.client.age = 0, !.client.mrc = mrc, !.client.mrd = mrd]

CountExceeded(c) == c.mrc # 0 /\ c.txcount > c.mrc
TimeExceeded(c) == c.mrd # 0 /\ c.age >= c.mrd
Exceeded(c) == CountExceeded(c) \/ TimeExceeded(c)

\* The message goes out, and again after the retransmission time, which
\* dhc6_retrans_advance() cuts, after the first, at the end of the exchange.
Transmit(w, f, type, S) ==
    LET c == w.client
        times == {IF c.txcount # 0 /\ c.mrd # 0 /\ i > c.mrd - c.age
                  THEN Max({0, c.mrd - c.age}) ELSE i : i \in 1..MaxInterval}
    IN UNION {{add_timeout([v EXCEPT !.client.txcount = IF @ > REQ_MAX_RC THEN @ ELSE @ + 1],
                           f, t) : v \in Exchange(w, type, S)} : t \in times}

(***************************************************************************)
(* The script: BOUND6, RENEW6 and REBIND6 configure, EXPIRE6 and RELEASE6  *)
(* remove.                                                                 *)
(***************************************************************************)
Names(A) == {<<a.kind, a.srv>> : a \in A}

Configured(w, A) == [w EXCEPT !.conf = @ \cup Names(A)]
Removed(w, A) == [w EXCEPT !.conf = @ \ Names(A)]

write_client6_lease(w, released) ==
    [w EXCEPT !.file = [lease |-> w.client.active, released |-> released]]

\* log_fatal(), or a null pointer: the client exits.
Fatal(w) ==
    {[cancel_timeout(w, Timeouts) EXCEPT !.client.state = "FATAL",
                                         !.client.handler = "none"]}

(***************************************************************************)
(* Soliciting.                                                             *)
(***************************************************************************)
start_init6(w) ==
    add_timeout(dhc6_retrans_init([w EXCEPT !.client.state = "INIT"], "init_handler", 0, 0),
                "do_init6", 0)

\* dhc6_score_lease(), for leases with as many options: bindings, then addresses.
dhc6_score_lease(K) == Cardinality(K)

\* dhc6_best_lease(): preference, then score, then the lower server id.
Better(a, b) ==
    \/ Preference[a.srv] > Preference[b.srv]
    \/ /\ Preference[a.srv] = Preference[b.srv]
       /\ \/ dhc6_score_lease(a.kinds) > dhc6_score_lease(b.kinds)
          \/ /\ dhc6_score_lease(a.kinds) = dhc6_score_lease(b.kinds)
             /\ a.srv < b.srv

dhc6_best_lease(A) == CHOOSE a \in A : \A b \in A \ {a} : Better(a, b)

\* do_select6() within the limits of the exchange.
SendRequest6(w) == Transmit(w, "do_select6", "REPLY", {w.client.selected.srv})

start_selecting6(w) ==
    IF w.client.advertised = {} THEN {w}
    ELSE LET best == dhc6_best_lease(w.client.advertised) IN
         SendRequest6(dhc6_retrans_init(
             [w EXCEPT !.client.state = "SELECTING", !.client.selected = best,
                       !.client.advertised = @ \ {best}],
             "reply_handler", REQ_MAX_RC, 0))

\* The selected server failed: the next one, or start again.
NextServer(w) ==
    LET v == [w EXCEPT !.client.selected = None] IN
    IF v.client.advertised # {} THEN start_selecting6(v) ELSE {start_init6(v)}


do_select6(w) ==
    IF w.client.selected = None THEN {w}
    ELSE IF Exceeded(w.client) THEN NextServer(w)
    ELSE SendRequest6(w)

Finished(w) ==
    [cancel_timeout(w, Timeouts) EXCEPT
        !.client.active = None, !.client.state = "EXIT", !.client.handler = "none", !.net = {}]

do_init6(w) ==
    IF w.client.advertised # {} THEN start_selecting6(w)
    ELSE IF CountExceeded(w.client) THEN {w}
    ELSE IF TimeExceeded(w.client) THEN {Finished(w)}
    ELSE LET v == IF RapidCommit THEN [w EXCEPT !.client.handler = "rapid_commit_handler"]
                  ELSE w
         IN Transmit(v, "do_init6", IF RapidCommit THEN "RAPID" ELSE "ADVERTISE", Servers)

dhc6_check_advertise(m) ==
    /\ m.code = "Success"
    /\ m.kinds # {}
    /\ require_all_ias => m.kinds = Wanted

\* init_handler(): the first Solicit waits for its timeout, unless the server
\* has the highest preference; later ones take what comes.
init_handler(w, m) ==
    IF m.type # "ADVERTISE" \/ ~dhc6_check_advertise(m) THEN {w}
    ELSE LET v == [w EXCEPT !.client.advertised =
                     {a \in @ : a.srv # m.srv} \cup {[srv |-> m.srv, kinds |-> m.kinds]}]
         IN IF w.client.txcount > 1 \/ Preference[m.srv] = 255
            THEN start_selecting6(cancel_timeout(v, {"do_init6"}))
            ELSE {v}

(***************************************************************************)
(* The times of the active lease.                                          *)
(***************************************************************************)


dhc6_check_times(w) ==
    LET c == w.client
        v == cancel_timeout(w, {"start_renew6", "start_rebind6", "do_depref", "do_expire"})
        A == c.active.addrs
        depref == {a.pref : a \in {b \in A : ~b.depreffed}}
        hi_expire == Max({a.valid : a \in Live(A)})
        renew == T1 - c.active.age
        rebind == T2 - c.active.age
        Events(u) ==
            add_timeout(IF depref = {} THEN u ELSE add_timeout(u, "do_depref", Min(depref)),
                        "do_expire", Min({a.valid : a \in Live(A)}))
    IN IF Live(A) = {} THEN {start_init6([v EXCEPT !.client.active = None])}
       ELSE IF c.state = "BOUND" /\ rebind > 0
       THEN {Events(add_timeout([v EXCEPT !.client.next_MRD = rebind], "start_renew6", renew))}
       ELSE IF c.state \in {"BOUND", "RENEWING"}
       THEN {Events(add_timeout([v EXCEPT !.client.mrd = rebind,
                                          !.client.next_MRD = hi_expire],
                                "start_rebind6", rebind))}
       ELSE IF c.state = "REBINDING" THEN {Events([v EXCEPT !.client.mrd = hi_expire])}
       ELSE IF \E a \in Live(A) : ~a.depreffed THEN Fatal(v)
       ELSE {Events(v)}

do_depref(w) ==
    IF w.client.active = None THEN {w}
    ELSE dhc6_check_times([w EXCEPT !.client.active.addrs =
             {[a EXCEPT !.depreffed = @ \/ a.pref <= 0] : a \in @}])

\* Addresses past their lifetime go; an IA left without any goes with them.
do_expire(w) ==
    IF w.client.active = None THEN {w}
    ELSE LET marked == {[a EXCEPT !.expired = @ \/ a.valid <= 0] : a \in w.client.active.addrs}
             kept == {a \in marked : a.kind \in Kinds(Live(marked))}
             v == Removed(w, marked \ Live(marked))
         IN IF kept = {} THEN {start_init6([v EXCEPT !.client.active = None])}
            ELSE dhc6_check_times([v EXCEPT !.client.active.addrs = kept])

dhc6_withdraw_lease(w) ==
    IF w.client.active = None THEN {w}
    ELSE do_expire([w EXCEPT !.client.active.addrs =
             {[a EXCEPT !.pref = 0, !.valid = 0] : a \in @}])

start_bound(w) ==
    IF w.client.active = None THEN {w}
    ELSE IF w.client.state \notin {"SELECTING", "REBOOTING", "RENEWING", "REBINDING"}
    THEN Fatal(w)
    ELSE LET v == [w EXCEPT !.client.state = "BOUND", !.client.handler = "bound_handler"]
         IN dhc6_check_times(Configured(write_client6_lease(v, FALSE),
                                        Live(v.client.active.addrs)))

(***************************************************************************)
(* Renewing, rebinding, confirming and releasing.                          *)
(***************************************************************************)
do_refresh6(w) ==
    LET c == w.client
        to == IF c.refresh = "RENEW" THEN {c.active.srv} ELSE Servers
    IN IF c.active = None THEN {w}
       ELSE IF Exceeded(c) THEN dhc6_check_times(w)
       ELSE Transmit(w, "do_refresh6", "REPLY", to)

\* A Renew lasts until rebinding starts, a Rebind until the last address
\* expires: the next_MRD of dhc6_check_times().
start_renew6(w) ==
    do_refresh6(dhc6_retrans_init(
        [w EXCEPT !.client.state = "RENEWING", !.client.refresh = "RENEW"],
        "reply_handler", 0, w.client.next_MRD))

start_rebind6(w) ==
    do_refresh6(dhc6_retrans_init(
        [w EXCEPT !.client.state = "REBINDING", !.client.refresh = "REBIND"],
        "reply_handler", 0, w.client.next_MRD))

do_confirm6(w) ==
    IF w.client.active = None THEN Fatal(w)
    ELSE IF Exceeded(w.client) THEN start_bound(w)
    ELSE Transmit(w, "do_confirm6", "REPLY", Servers)

start_confirm6(w) ==
    LET v == dhc6_retrans_init(w, "reply_handler", 0, CNF_MAX_RD)
        K == Kinds(w.client.active.addrs)
    IN IF "PD" \in Wanted \cup K \/ ~(Wanted \subseteq K)
       THEN add_timeout([v EXCEPT !.client.state = "REBINDING", !.client.refresh = "REBIND"],
                        "do_refresh6", 0)
       ELSE add_timeout([v EXCEPT !.client.state = "REBOOTING"], "do_confirm6", 0)

do_release6(w) ==
    IF w.client.active = None THEN {w}
    ELSE IF Exceeded(w.client) THEN {Finished(w)}
    ELSE Transmit(w, "do_release6", "REPLY", {w.client.active.srv})

start_release6(w) ==
    LET v == [cancel_timeout(w, Retransmissions) EXCEPT !.client.state = "STOPPED"]
    IN IF v.client.active = None THEN {Finished(v)}
       ELSE do_release6(dhc6_retrans_init(
                write_client6_lease(Removed(v, v.client.active.addrs), TRUE),
                "reply_handler", REQ_MAX_RC, 0))

(***************************************************************************)
(* Without addresses: Information-request.                                 *)
(***************************************************************************)
start_info_request6(w) ==
    add_timeout(dhc6_retrans_init([w EXCEPT !.client.state = "INIT"],
                                  "info_request_handler", 0, 0),
                "do_info_request6", 0)

do_info_request6(w) ==
    IF Exceeded(w.client) THEN {Finished(w)}
    ELSE Transmit(w, "do_info_request6", "REPLY", Servers)

refresh_info_request6(w) == {start_info_request6(w)}

\* start_informed() and dhc6_check_irt(): ask again after the refresh time,
\* which may be infinite.
start_informed(w) ==
    LET v == [cancel_timeout(w, {"refresh_info_request6"}) EXCEPT
                 !.client.state = "BOUND", !.client.handler = "informed_handler"]
    IN {v, add_timeout(v, "refresh_info_request6", T1)}

info_request_handler(w, m) ==
    IF m.type # "REPLY" \/ m.code # "Success" THEN {w}
    ELSE start_informed(cancel_timeout(w, {"do_info_request6"}))

(***************************************************************************)
(* What a Reply makes the client do.  An action takes the world to the     *)
(* worlds it leaves, or to none when it takes no action.                   *)
(***************************************************************************)
\* dhc6_init_action(): never anything.
dhc6_init_action(w, code) == {}

dhc6_select_action(w, code) ==
    LET c == w.client IN
    CASE code \in {"Success", "NoBinding", "UseMulticast"} -> {}
      [] code = "UnspecFail" ->
           IF c.advertised = {} THEN {}
           ELSE start_selecting6([w EXCEPT !.client.selected = None])
      [] code = "NoAddrsAvail" ->
           IF c.state = "REBOOTING" THEN {}
           ELSE IF c.selected = None THEN Fatal(w)
           ELSE NextServer(w)
      [] code = "NotOnLink" ->
           IF c.state = "REBOOTING" THEN {start_init6([w EXCEPT !.client.active = None])}
           ELSE IF c.selected = None THEN Fatal(w)
           ELSE {start_init6([w EXCEPT !.client.selected = None, !.client.advertised = {}])}

\* Mutant: going back to INIT cancels the timeouts of the bindings it keeps.
dhc6_reply_action_cancel(w, code) ==
    LET c == w.client IN
    CASE code \in {"Success", "UnspecFail", "UseMulticast"} -> {}
      [] code = "NotOnLink" -> dhc6_withdraw_lease(w)
      [] code = "NoAddrsAvail" ->
           {start_init6(cancel_timeout(w, {"start_renew6", "start_rebind6",
                                           "do_depref", "do_expire"}))}
      [] code = "NoBinding" ->
           IF c.advertised # {} \/ c.active = None THEN Fatal(w)
           ELSE start_selecting6([w EXCEPT !.client.advertised =
                    {[srv |-> c.active.srv, kinds |-> Kinds(c.active.addrs)]}])

dhc6_reply_action(w, code) ==
    LET c == w.client IN
    CASE code \in {"Success", "UnspecFail", "UseMulticast"} -> {}
      [] code = "NotOnLink" -> dhc6_withdraw_lease(w)
      [] code = "NoAddrsAvail" -> {start_init6(w)}
      [] code = "NoBinding" ->
           IF c.advertised # {} \/ c.active = None THEN Fatal(w)
           ELSE start_selecting6([w EXCEPT !.client.advertised =
                    {[srv |-> c.active.srv, kinds |-> Kinds(c.active.addrs)]}])

dhc6_stop_action(w, code) ==
    IF code \in {"NoAddrsAvail", "NotOnLink"} THEN {w} ELSE {}

Action(w, code) ==
    CASE w.client.state = "INIT" -> dhc6_init_action(w, code)
      [] w.client.state \in {"SELECTING", "REBOOTING"} -> dhc6_select_action(w, code)
      [] w.client.state \in {"RENEWING", "REBINDING"} -> dhc6_reply_action(w, code)
      [] w.client.state = "STOPPED" -> dhc6_stop_action(w, code)
      [] OTHER -> Fatal(w)

\* dhc6_check_reply(): the action taken, if any.  The status of the reply
\* comes first, then what it lacks, then how it compares with the selected
\* lease.
Lacking(m) == m.kinds = {} \/ (require_all_ias /\ m.kinds # Wanted)

dhc6_check_reply(w, m) ==
    LET first == Action(w, m.code)
        c == w.client
    IN IF first # {} THEN first
       ELSE IF c.state = "REBOOTING" THEN {}
       ELSE IF Lacking(m) /\ Action(w, "NoAddrsAvail") # {} THEN Action(w, "NoAddrsAvail")
       ELSE IF /\ c.state = "SELECTING" /\ c.advertised # {}
               /\ dhc6_score_lease(m.kinds) < dhc6_score_lease(c.selected.kinds) \div 2
       THEN start_selecting6([w EXCEPT !.client.selected = None])
       ELSE {}

Accepted(w, m) ==
    /\ m.code = "Success" \/ (m.code = "NoBinding" /\ w.client.state = "STOPPED")
    /\ w.client.state # "REBOOTING" => ~Lacking(m)

\* The lease of the reply takes over the addresses of the old one.
Take(w, m) ==
    start_bound([w EXCEPT
        !.client.active = dhc6_merge_lease(w.client.active, Lease(m.srv, m.kinds)),
        !.client.advertised = {}])

rapid_commit_handler(w, m) ==
    IF m.type = "ADVERTISE" THEN init_handler(w, m)
    ELSE IF m.type # "RAPID" \/ dhc6_check_reply(w, m) # {} \/ ~Accepted(w, m) THEN {w}
    ELSE Take([cancel_timeout(w, {"do_init6"}) EXCEPT !.client.state = "SELECTING"], m)

\* reply_handler(): when an action was taken, the retransmissions are
\* cancelled after it.
reply_handler(w, m) ==
    LET acted == dhc6_check_reply(w, m)
        v == cancel_timeout(w, Retransmissions)
    IN IF m.type = "ADVERTISE" \/ (acted = {} /\ ~Accepted(w, m)) THEN {w}
       ELSE IF w.client.state = "STOPPED" THEN {Finished(v)}
       ELSE IF acted # {} THEN {cancel_timeout(u, Retransmissions) : u \in acted}
       ELSE IF w.client.state = "REBOOTING"
       THEN start_bound([v EXCEPT !.client.selected = None])
       ELSE Take([v EXCEPT !.client.selected = None], m)

(***************************************************************************)
(* Steps.                                                                  *)
(***************************************************************************)
\* Replies to a client that ignores packets are as good as lost, and the
\* counters of an exchange that is over are not read again.
Becomes(w) ==
    LET c == w.client
        idle == /\ c.state \in {"BOUND", "EXIT", "FATAL"}
                /\ \A f \in Retransmissions \cup {"do_init6"} : c.timer[f] = Off
    IN /\ client' = IF idle THEN [c EXCEPT !.txcount = 0, !.age = 0, !.mrc = 0, !.mrd = 0]
                    ELSE c
       /\ net' = IF c.handler \in {"bound_handler", "informed_handler", "none"} THEN {}
                 ELSE w.net
       /\ conf' = w.conf
       /\ file' = w.file
       /\ grant' = w.grant

Handler(w, f) ==
    CASE f = "do_init6" -> do_init6(w)
      [] f = "do_confirm6" -> do_confirm6(w)
      [] f = "do_select6" -> do_select6(w)
      [] f = "do_refresh6" -> do_refresh6(w)
      [] f = "do_release6" -> do_release6(w)
      [] f = "start_renew6" -> start_renew6(w)
      [] f = "start_rebind6" -> start_rebind6(w)
      [] f = "do_depref" -> do_depref(w)
      [] f = "do_expire" -> do_expire(w)
      [] f = "do_info_request6" -> do_info_request6(w)
      [] f = "refresh_info_request6" -> refresh_info_request6(w)

\* The timeouts of the lease are set to a whole second, so that they are due
\* before anything else happens in it; the others fall within a second.
WholeSecond == {"start_renew6", "start_rebind6", "do_depref", "do_expire"}
LeaseTimesServed == \A f \in WholeSecond : client.timer[f] > 0

\* dispatch(): the timeouts that are due, the earliest first.
Fire ==
    /\ \E f \in Timeouts :
         /\ client.timer[f] <= 0
         /\ IF f \in WholeSecond
            THEN \A g \in WholeSecond : client.timer[f] <= client.timer[g]
            ELSE LeaseTimesServed
         /\ \E w \in Handler(cancel_timeout(World, {f}), f) : Becomes(w)
    /\ UNCHANGED <<calm, events>>

\* dhcpv6(): a packet of the present transaction reaches the handler.
Received(w, m) ==
    CASE client.handler = "init_handler" -> init_handler(w, m)
      [] client.handler = "rapid_commit_handler" -> rapid_commit_handler(w, m)
      [] client.handler = "reply_handler" -> reply_handler(w, m)
      [] client.handler = "info_request_handler" -> info_request_handler(w, m)
      [] OTHER -> {w}

Receive ==
    /\ LeaseTimesServed
    /\ \E m \in net : \E w \in Received([World EXCEPT !.net = @ \ {m}], m) : Becomes(w)
    /\ UNCHANGED <<calm, events>>

\* A lease ages until its last address has expired; what matters from then on
\* is only the order of its times.
Aged(lease) ==
    IF lease = None \/ {a \in lease.addrs : a.valid > 0} = {} THEN lease
    ELSE [lease EXCEPT !.age = @ + 1,
                       !.addrs = {[a EXCEPT !.pref = @ - 1, !.valid = @ - 1] : a \in @}]

\* A second passes.  Timeouts fire on time; a reply is delivered within
\* MaxDelay or lost.
Tick ==
    /\ \A f \in Timeouts : client.timer[f] > 0
    /\ calm => net = {}
    /\ client' = [client EXCEPT
          !.timer = [f \in Timeouts |-> IF @[f] = Off THEN Off ELSE @[f] - 1],
          !.active = Aged(@),
          !.next_MRD = IF @ > -1 THEN @ - 1 ELSE @,
          !.age = IF @ < Max({Valid[k] : k \in Wanted} \cup {CNF_MAX_RD}) THEN @ + 1 ELSE @]
    /\ net' = {[m EXCEPT !.age = @ + 1] : m \in {n \in net : n.age < MaxDelay}}
    /\ file' = [file EXCEPT !.lease = Aged(@)]
    /\ grant' = [k \in Wanted |-> [s \in Servers |->
                   IF grant[k][s] > -MaxDelay THEN grant[k][s] - 1 ELSE grant[k][s]]]
    /\ UNCHANGED <<conf, calm, events>>

\* main(): what a new process does with the lease it has read.
NewClient ==
    [state |-> "INIT", handler |-> "none", active |-> file.lease, selected |-> None,
     advertised |-> {}, timer |-> [f \in Timeouts |-> Off], txcount |-> 0, age |-> 0,
     mrc |-> 0, mrd |-> 0, next_MRD |-> 0, refresh |-> "RENEW"]

Started(w) ==
    IF Wanted = {} THEN start_info_request6(w)
    ELSE IF w.client.active # None /\ ~w.file.released THEN start_confirm6(w)
    ELSE start_init6(w)

\* The PREINIT6 script flushes the addresses of the interface.
Restart ==
    /\ ~calm /\ events < MaxEvents
    /\ Becomes(Started([World EXCEPT !.client = NewClient, !.net = {}, !.conf = {}]))
    /\ events' = events + 1
    /\ UNCHANGED calm

\* dhclient -r: a new process takes the place of the old and releases.
Release ==
    /\ ~calm /\ events < MaxEvents /\ Wanted # {}
    /\ \E w \in start_release6([World EXCEPT !.client = NewClient, !.net = {}]) : Becomes(w)
    /\ events' = events + 1
    /\ UNCHANGED calm

\* From now on servers answer in full, nothing is lost or late and nobody
\* restarts the client.
Calm ==
    /\ ~calm /\ calm' = TRUE
    /\ client.state \notin {"STOPPED", "EXIT", "FATAL"}
    /\ UNCHANGED <<client, net, conf, file, grant, events>>

Init ==
    /\ file = [lease |-> None, released |-> FALSE]
    /\ net = {}
    /\ conf = {}
    /\ grant = [k \in Wanted |-> [s \in Servers |-> -MaxDelay]]
    /\ client = Started([client |-> [NewClient EXCEPT !.active = None], net |-> net,
                         conf |-> conf, file |-> file, grant |-> grant]).client
    /\ calm = FALSE
    /\ events = 0

Next == Fire \/ Receive \/ Tick \/ Restart \/ Release \/ Calm

Spec == Init /\ [][Next]_vars
LiveSpec == Spec /\ WF_vars(calm /\ Next)

(***************************************************************************)
(* Properties.                                                             *)
(***************************************************************************)
\* Whatever the client is doing (renewing, or soliciting again while it keeps
\* its bindings), an address that dhclient-script configured is removed by the
\* time the server that granted it may give it to someone else: do_expire() is
\* pending for it in every state.
LeaseHonoured6 ==
    client.state \notin {"EXIT", "FATAL"} =>
        \A k \in Wanted, s \in Servers :
            <<k, s>> \in conf => grant[k][s] > -MaxDelay \/ client.timer["do_expire"] <= 0

\* "We should never wait for nothing!?" (reply_handler()): a client that has
\* neither finished nor been informed for good has a timeout pending, so that
\* no lost message can hold it up.
NeverStuck ==
    client.state \notin {"EXIT", "FATAL"} /\ client.handler # "informed_handler" =>
        \E f \in Timeouts : client.timer[f] # Off

\* The client reaches none of its log_fatal("Impossible condition"): replies and
\* lease timeouts never find it in a state their handlers do not expect.
NotFatal == client.state # "FATAL"

\* Once servers answer in full and in time, the client gets (back) to BOUND,
\* from whatever exchange, half finished selection or stale lease file.
Recovers6 == calm ~> client.state = "BOUND"
=============================================================================
