------------------------------ MODULE Dhclient ------------------------------
(***************************************************************************)
(* The DHCPv4 client of client/dhclient.c: the state machine of one        *)
(* struct client_state, the timeouts that drive it, the lease file it      *)
(* writes (client/clparse.c reads it back), the interface that its script  *)
(* configures, and the servers that answer it.                             *)
(*                                                                         *)
(* All times are relative to cur_time and age with it: a timeout counts    *)
(* down to 0, when it is due, and the times of a lease go down to Past.    *)
(* The transaction id is drawn anew by state_init(), state_reboot() and    *)
(* do_release(), and a reply with another id is dropped, so that the       *)
(* network holds only replies to the present id.  The handlers call each   *)
(* other: each is an operator from a client to the set of clients it may   *)
(* leave, over the random intervals, the result of the script and the      *)
(* servers' answers.  Servers are named by the address each one leases.    *)
(***************************************************************************)
EXTENDS Integers, Sequences, FiniteSetsExt

CONSTANTS
    Servers,         \* the servers of the network
    Broken,          \* the servers whose DHCPACK carries no lease time
    None,            \* no lease, no address
    LeaseTime, T1, T2,   \* lease, renewal and rebinding time that servers grant
    select_interval, timeout, reboot_timeout, retry_interval,
    MaxInterval,     \* bound of the backoff
    MIN_LEASE_WRITE, \* a lease is not written sooner after the last one
    MaxLog,          \* writes before the lease file is rewritten
    MaxDelay,        \* ticks a reply may be under way
    Commands,        \* the control commands the operator may give
    MaxEvents        \* commands and restarts

\* struct client_lease: an address and the times it is to be renewed, rebound
\* and given up.
Leases == [addr : Servers, renewal : Int, rebind : Int, expiry : Int]

ASSUME DhclientAssumption ==
    /\ Broken \subseteq Servers
    /\ None \notin Servers /\ None \notin Leases
    /\ {LeaseTime, T1, T2, MaxInterval, retry_interval} \subseteq Nat \ {0}
    /\ {select_interval, timeout, reboot_timeout, MaxDelay, MIN_LEASE_WRITE} \subseteq Nat
    /\ T1 <= T2 /\ T2 <= LeaseTime

VARIABLES
    client,     \* the struct client_state and its timeouts
    net,        \* replies under way, [type, srv, age, seen]
    conf,       \* the address that the script configured, or None
    file,       \* the lease file, a sequence of leases
    written,    \* time since last_write
    grant,      \* the time each server's lease to this client has left
    calm,       \* no fault happens any more
    commands,   \* number of commands given
    restarts,   \* number of restarts of the host
    stopped     \* told to stop, and not yet told otherwise

vars == <<client, net, conf, file, written, grant, calm, commands, restarts, stopped>>

Timeouts == {"state_reboot", "state_init", "send_discover", "state_selecting",
             "send_request", "state_bound"}
Off == -1
Past == -1
GrantPast == -(MaxDelay + 3)
AgeCap == (IF timeout > reboot_timeout THEN timeout ELSE reboot_timeout)
          + select_interval + 1

Lease(a) == [addr |-> a, renewal |-> T1, rebind |-> T2, expiry |-> LeaseTime]

\* The state of the world that a handler changes.
World == [client |-> client, net |-> net, conf |-> conf, file |-> file,
          written |-> written, grant |-> grant]

add_timeout(w, f, t) == [w EXCEPT !.client.timer[f] = t]

cancel_timeout(w, F) ==
    [w EXCEPT !.client.timer = [f \in Timeouts |-> IF f \in F THEN Off ELSE @[f]]]

(***************************************************************************)
(* The servers.  A reply is under way from the moment the client sends     *)
(* what it answers.  A server that acknowledges holds the lease from then. *)
(***************************************************************************)
Reply(type, s) == [type |-> type, srv |-> s, age |-> 0, seen |-> FALSE]

Acknowledge(s) == Reply(IF s \in Broken THEN "ACK0" ELSE "ACK", s)

\* What the servers may send: once no fault happens any more, all they can.
Answers(must, may) == IF calm THEN {must} ELSE SUBSET (must \cup may)

Answered(w, R) ==
    [w EXCEPT !.net = {m \in @ : \A r \in R : r.type # m.type \/ r.srv # m.srv} \cup R,
              !.grant = [s \in Servers |->
                           IF Reply("ACK", s) \in R THEN LeaseTime ELSE @[s]]]

NewXid(w) == [w EXCEPT !.net = {}]

Offers(w) ==
    {Answered(w, R) : R \in Answers({Reply("OFFER", s) : s \in Servers}, {})}

\* A DHCPREQUEST for the address of s.  It names the server that it selects;
\* when it names none, and is broadcast, every server may refuse it.
Acks(w, s, anyone) ==
    {Answered(w, R) :
       R \in Answers({Acknowledge(s)},
                     {Reply("NAK", t) : t \in IF anyone THEN Servers ELSE {s}})}

(***************************************************************************)
(* The script: a non-zero exit of BOUND, RENEW, REBOOT, REBIND (another    *)
(* machine uses the address) and of TIMEOUT (the routers do not answer)    *)
(* leaves no address; EXPIRE, RELEASE and STOP remove it; FAIL is given    *)
(* no address to remove.                                                   *)
(***************************************************************************)
script_go(w, a) ==
    {[ok |-> TRUE, w |-> [w EXCEPT !.conf = a]]}
    \cup (IF calm THEN {} ELSE {[ok |-> FALSE, w |-> [w EXCEPT !.conf = None]]})

Unconfigure(w) == [w EXCEPT !.conf = None]

(***************************************************************************)
(* The lease file.                                                         *)
(***************************************************************************)
\* The first recorded lease of an address is tossed.
Tossed(leases, a) ==
    LET at == {i \in DOMAIN leases : leases[i].addr = a} IN
    IF at = {} THEN leases
    ELSE SubSeq(leases, 1, Min(at) - 1) \o SubSeq(leases, Min(at) + 1, Len(leases))

\* parse_client_lease_statement(): the last lease of the file is the active one.
parse_client_lease_statement(db, l) ==
    LET rest == Tossed(db.leases, l.addr) IN
    [active |-> l,
     leases |-> IF \/ db.active = None
                   \/ db.active.expiry < 0
                   \/ db.active.addr = l.addr
                THEN rest
                ELSE <<db.active>> \o rest]

\* What has been read after each lease of the file.
ReadUpTo(log) ==
    LET db[i \in 0..Len(log)] ==
            IF i = 0 THEN [active |-> None, leases |-> <<>>]
            ELSE parse_client_lease_statement(db[i - 1], log[i])
    IN db

read_client_leases(log) == ReadUpTo(log)[Len(log)]

rewrite_client_leases(c) ==
    c.leases \o (IF c.active = None THEN <<>> ELSE <<c.active>>)

write_client_lease(w, l) ==
    [w EXCEPT !.file = Append(IF Len(w.file) >= MaxLog
                              THEN rewrite_client_leases(w.client) ELSE @, l),
              !.written = 0]

(***************************************************************************)
(* The handlers.                                                           *)
(***************************************************************************)
\* The interval to the next transmission; past the limit it ends just after it.
Interval(limit) ==
    {IF i > limit THEN limit + 1 ELSE i : i \in 1..MaxInterval}

\* send_discover() short of the panic timeout.
SendDiscover(w) ==
    UNION {{add_timeout(v, "send_discover", i) : v \in Offers(w)} :
             i \in Interval(timeout - w.client.age)}

state_init(w) ==
    SendDiscover(NewXid([w EXCEPT !.client.state = "SELECTING", !.client.age = 0,
                           !.client.asked = IF w.client.active = None THEN None
                                            ELSE w.client.active.addr]))

\* The backoff runs past the expiry.
SendRequest_unbounded(w) ==
    LET c == w.client
        anyone == /\ c.state # "REQUESTING"
                  /\ c.state = "REBOOTING" \/ c.active.rebind < 0
    IN UNION {{add_timeout(v, "send_request", i) : v \in Acks(w, c.asked, anyone)} :
                i \in {MaxInterval + 3}}

\* send_request() to the address that the packet asks for.
SendRequest(w) ==
    LET c == w.client
        limit == IF c.state = "REQUESTING" THEN MaxInterval ELSE c.active.expiry
        anyone == /\ c.state # "REQUESTING"
                  /\ c.state = "REBOOTING" \/ c.active.rebind < 0
    IN UNION {{add_timeout(v, "send_request", i) : v \in Acks(w, c.asked, anyone)} :
                i \in Interval(limit)}

\* A dereference of client->active when there is none.
Crashed(w) ==
    {[w EXCEPT !.client.state = "CRASHED", !.client.timer = [f \in Timeouts |-> Off]]}

send_request(w) ==
    LET c == w.client IN
    IF c.state \in {"REBOOTING", "REQUESTING"} /\ c.age > reboot_timeout
    THEN state_init(cancel_timeout(w, {"send_request"}))
    ELSE IF c.state # "REQUESTING" /\ c.active = None
    THEN Crashed(w)
    ELSE IF c.state # "REQUESTING" /\ c.active.expiry < 0
    THEN state_init(Unconfigure(w))
    ELSE SendRequest(w)

state_reboot(w) ==
    IF w.client.active = None \/ w.client.active.expiry <= 0
    THEN state_init(w)
    ELSE send_request(NewXid([w EXCEPT !.client.state = "REBOOTING", !.client.age = 0,
                                       !.client.asked = w.client.active.addr]))

state_bound(w) ==
    IF w.client.active = None THEN Crashed(w) ELSE
    send_request([w EXCEPT !.client.state = "RENEWING", !.client.age = 0,
                           !.client.asked = w.client.active.addr])

\* state_selecting(): the first offer is taken, the others are dropped.
state_selecting(w) ==
    LET v == cancel_timeout([w EXCEPT !.client.offered = <<>>],
                            {"state_selecting", "send_discover"})
    IN IF w.client.offered = <<>>
       THEN state_init(v)
       ELSE send_request([v EXCEPT !.client.state = "REQUESTING", !.client.age = 0,
                                   !.client.asked = Head(w.client.offered)])

dhcpoffer(w, m) ==
    LET c == w.client
        offers == IF m.srv = c.asked THEN <<m.srv>> \o c.offered ELSE Append(c.offered, m.srv)
        v == [w EXCEPT !.client.offered = offers]
    IN IF c.state # "SELECTING" \/ (\E i \in DOMAIN c.offered : c.offered[i] = m.srv) THEN {w}
       ELSE IF c.age >= select_interval THEN state_selecting(v)
       ELSE {cancel_timeout(add_timeout(v, "state_selecting", select_interval - c.age),
                            {"send_discover"})}

\* bind_lease() once the script has agreed.
Bound(w, l) ==
    LET v == IF w.written >= MIN_LEASE_WRITE THEN write_client_lease(w, l) ELSE w
    IN add_timeout([v EXCEPT !.client.active = l, !.client.state = "BOUND"],
                   "state_bound", l.renewal)

\* bind_lease(): a lease that the script refuses is declined.
bind_lease(w, l) ==
    UNION {IF r.ok THEN {Bound(r.w, l)} ELSE state_init(r.w) : r \in script_go(w, l.addr)}

Receptive == {"REBOOTING", "REQUESTING", "RENEWING"}

\* The new lease is bound while the request is still being repeated.
dhcpack_repeating(w, m) ==
    IF w.client.state \notin Receptive THEN {w}
    ELSE IF m.type = "ACK0"
    THEN {add_timeout([w EXCEPT !.client.reject = @ \cup {m.srv}], "state_init", 1)}
    ELSE bind_lease(w, Lease(m.srv))

\* dhcpack(): an acknowledgement without a lease time makes the client reject
\* the server and start again half a second later.
dhcpack(w, m) ==
    LET v == cancel_timeout(w, {"send_request"}) IN
    IF w.client.state \notin Receptive THEN {w}
    ELSE IF m.type = "ACK0"
    THEN {add_timeout([v EXCEPT !.client.reject = @ \cup {m.srv}], "state_init", 1)}
    ELSE bind_lease(v, Lease(m.srv))

dhcpnak(w) ==
    IF w.client.state \notin Receptive \/ w.client.active = None THEN {w}
    ELSE state_init(cancel_timeout(Unconfigure([w EXCEPT !.client.active = None]),
                                   {"send_request"}))

\* A server once found broken is listened to again.
dhcp_unquenched(w, m) ==
    CASE m.type = "OFFER" -> dhcpoffer(w, m)
      [] m.type = "NAK" -> dhcpnak(w)
      [] OTHER -> dhcpack(w, m)

\* dhcp(): packets of a rejected server are dropped, the others dispatched by type.
dhcp(w, m) ==
    IF m.srv \in w.client.reject THEN {w}
    ELSE CASE m.type = "OFFER" -> dhcpoffer(w, m)
           [] m.type = "NAK" -> dhcpnak(w)
           [] OTHER -> dhcpack(w, m)
Rotated(all, i) == SubSeq(all, i + 1, Len(all)) \o SubSeq(all, 1, i - 1)

\* state_panic(): no lease of the client works.  A single lease goes back to
\* the list of recorded ones, several end where they began.
GiveUp(w, all) ==
    LET single == Len(all) <= 1
        v == [w EXCEPT !.client.active = IF single THEN None ELSE Head(all),
                       !.client.leases = IF single THEN all ELSE Tail(all),
                       !.conf = IF \E i \in DOMAIN all : all[i].expiry > 0 THEN None ELSE @,
                       !.client.state = "INIT"]
        first == (retry_interval + 1) \div 2
    IN {add_timeout(v, "state_init", i) : i \in first..(first + retry_interval - 1)}

\* state_panic(): the first unexpired lease that the script accepts is used.
Recall(w, all, i) ==
    LET v == [w EXCEPT !.client.active = all[i], !.client.leases = Rotated(all, i),
                       !.client.state = "BOUND", !.conf = all[i].addr]
    IN IF all[i].renewal > 0 THEN {add_timeout(v, "state_bound", all[i].renewal)}
                             ELSE state_bound(v)

state_panic(w) ==
    LET c == w.client
        all == (IF c.active = None THEN <<>> ELSE <<c.active>>) \o c.leases
        good == {i \in DOMAIN all : all[i].expiry > 0}
        tried == IF calm THEN {i \in good : \A j \in good : i <= j} ELSE good
    IN (UNION {Recall(w, all, i) : i \in tried})
       \cup (IF calm /\ good # {} THEN {} ELSE GiveUp(w, all))

send_discover(w) ==
    IF w.client.age > timeout THEN state_panic(w) ELSE SendDiscover(w)

(***************************************************************************)
(* The operator's commands, through the control object, and what the       *)
(* operating system reports of the interface.                              *)
(***************************************************************************)
\* state_stop(), for a client told to hibernate.
state_stop(w) ==
    LET v == cancel_timeout(w, {"state_selecting", "send_discover", "send_request",
                                "state_bound"})
    IN {IF w.client.active = None THEN v ELSE Unconfigure(v)}

\* do_release(): the server takes the lease back.
do_release(w) ==
    LET c == w.client
        v == IF c.active = None THEN w
             ELSE Unconfigure([w EXCEPT !.grant[c.active.addr] = GrantPast])
    IN {cancel_timeout(NewXid([v EXCEPT !.client.state = "STOPPED"]),
                       {"state_bound", "send_discover", "state_init", "send_request",
                        "state_reboot"})}

client_location_changed(w) ==
    LET c == w.client
        own == CASE c.state = "SELECTING" -> {"send_discover"}
                 [] c.state = "BOUND" -> {"state_bound"}
                 [] c.state \in Receptive -> {"send_request"}
                 [] OTHER -> {}
    IN state_reboot(cancel_timeout([w EXCEPT !.client.state = "INIT"], own))

(***************************************************************************)
(* The actions.                                                            *)
(***************************************************************************)
\* first_sending is not read while nothing is being sent, and an offer that
\* comes when the client no longer selects is dropped: it draws a new
\* transaction id before it selects again.
Still(c) == c.state \in {"BOUND", "INIT"} /\ c.timer["send_discover"] = Off
                                        /\ c.timer["send_request"] = Off

Becomes(w) ==
    /\ client' = IF Still(w.client) THEN [w.client EXCEPT !.age = 0] ELSE w.client
    /\ net' = {m \in w.net : m.type = "OFFER" => w.client.state = "SELECTING"}
    /\ conf' = w.conf
    /\ file' = w.file
    /\ written' = w.written
    /\ grant' = w.grant

Handler(f, w) ==
    CASE f = "state_reboot" -> state_reboot(w)
      [] f = "state_init" -> state_init(w)
      [] f = "send_discover" -> send_discover(w)
      [] f = "state_selecting" -> state_selecting(w)
      [] f = "send_request" -> send_request(w)
      [] OTHER -> state_bound(w)

\* dispatch(): a timeout that is due runs its handler.
Fire(f) ==
    /\ client.timer[f] = 0
    /\ \E w \in Handler(f, add_timeout(World, f, Off)) : Becomes(w)
    /\ UNCHANGED <<calm, commands, restarts, stopped>>

\* A reply arrives, perhaps not for the first time.
Receive(m) ==
    /\ ~m.seen \/ ~calm
    /\ \E w \in dhcp([World EXCEPT !.net = (@ \ {m}) \cup {[m EXCEPT !.seen = TRUE]}], m) :
          Becomes(w)
    /\ UNCHANGED <<calm, commands, restarts, stopped>>

Down(x, floor) == IF x > floor THEN x - 1 ELSE floor

Aged(l) ==
    IF l = None THEN None
    ELSE [l EXCEPT !.renewal = Down(@, Past), !.rebind = Down(@, Past),
                   !.expiry = Down(@, Past)]

AgedLog(log) == [i \in DOMAIN log |-> Aged(log[i])]

\* Time passes when no timeout is due; replies get lost when they are too old.
Tick ==
    /\ \A f \in Timeouts : client.timer[f] # 0
    /\ calm => \A m \in net : m.seen
    /\ client' = [client EXCEPT
                    !.timer = [f \in Timeouts |-> Down(@[f], Off)],
                    !.age = IF Still(client) \/ @ = AgeCap THEN @ ELSE @ + 1,
                    !.active = Aged(@), !.leases = AgedLog(@)]
    /\ net' = {[m EXCEPT !.age = @ + 1] : m \in {x \in net : x.age < MaxDelay}}
    /\ file' = AgedLog(file)
    /\ written' = IF written < MIN_LEASE_WRITE THEN written + 1 ELSE written
    /\ grant' = [s \in Servers |-> Down(grant[s], GrantPast)]
    /\ UNCHANGED <<conf, calm, commands, restarts, stopped>>

\* main(): the lease file is read and rewritten, and the client starts.
Started(log) ==
    LET db == read_client_leases(log)
        c == [state |-> "INIT", active |-> db.active, leases |-> db.leases,
              offered |-> <<>>, reject |-> {}, asked |-> None, age |-> 0,
              timer |-> [f \in Timeouts |-> Off]]
    IN state_reboot([client |-> c, net |-> {}, conf |-> None,
                     file |-> rewrite_client_leases(c),
                     written |-> MIN_LEASE_WRITE, grant |-> grant])

\* The host goes down and starts again.
Restart ==
    /\ ~calm /\ commands + restarts < MaxEvents
    /\ \E w \in Started(file) : Becomes(w)
    /\ restarts' = restarts + 1
    /\ stopped' = FALSE
    /\ UNCHANGED <<calm, commands>>

Command(name, W, stop) ==
    /\ name \in Commands /\ commands + restarts < MaxEvents /\ ~calm
    /\ \E w \in W : Becomes(w)
    /\ commands' = commands + 1
    /\ stopped' = stop
    /\ UNCHANGED <<calm, restarts>>

Hibernate == Command("hibernate", state_stop(World), TRUE)
Awaken == Command("awaken", state_reboot(World), FALSE)
Release == Command("release", do_release(World), TRUE)
LocationChanged == Command("location", client_location_changed(World), FALSE)

\* From some time on, no reply is lost, late or a refusal, no script fails and
\* no command is given.
Calm ==
    /\ ~calm /\ commands = 0
    /\ calm' = TRUE
    /\ UNCHANGED <<client, net, conf, file, written, grant, commands, restarts, stopped>>

Init ==
    /\ calm = FALSE /\ commands = 0 /\ restarts = 0 /\ stopped = FALSE
    /\ grant = [s \in Servers |-> GrantPast]
    /\ conf = None
    /\ written = MIN_LEASE_WRITE
    /\ file = <<>>
    /\ net = {}
    /\ client = [state |-> "INIT", active |-> None, leases |-> <<>>, offered |-> <<>>,
                  reject |-> {}, asked |-> None, age |-> 0,
                  timer |-> [f \in Timeouts |-> IF f = "state_reboot" THEN 0 ELSE Off]]

Next ==
    \/ \E f \in Timeouts : Fire(f)
    \/ \E m \in net : Receive(m)
    \/ Tick
    \/ Restart
    \/ Hibernate
    \/ Awaken
    \/ Release
    \/ LocationChanged
    \/ Calm

Spec == Init /\ [][Next]_vars

\* When calm, every step is one of the client, of a reply on its way or of time,
\* and none of them can be put off for ever.
Fairness == WF_vars(calm /\ Next)

LiveSpec == Spec /\ Fairness
(***************************************************************************)
(* Properties.                                                             *)
(***************************************************************************)
Pending == {f \in Timeouts : client.timer[f] # Off}

\* Every handler leaves exactly the timeout that its state waits for, so that
\* no timeout of a state that the client has left fires in another one (as
\* the ASSERT_STATE of the handlers demand), and the client never waits for
\* nothing: a discovering client retransmits or selects, one that has asked
\* retransmits (or restarts, after an acknowledgement without a lease time)
\* and a bound one has its renewal ahead.
TimeoutOfState ==
    commands = 0 =>
        Pending \in CASE client.state = "INIT" -> {{"state_init"}, {"state_reboot"}}
                     [] client.state = "SELECTING" -> {{"send_discover"}, {"state_selecting"}}
                     [] client.state = "BOUND" -> {{"state_bound"}}
                     [] OTHER -> {{"send_request"}, {"state_init"}}

\* The interface has an address only while its server leases it to the
\* client: send_request() gives it up one second after its expiry, which
\* dhcpack() counts from the arrival of the reply, so that a reply that was
\* under way for MaxDelay makes the client overrun by as much.  This covers
\* leases recalled by state_panic() from a lease file that
\* MIN_LEASE_WRITE let fall behind.
LeaseHonoured ==
    conf # None /\ commands = 0 => grant[conf] >= -(MaxDelay + 1)

\* Whatever the operator asks for, a client that has not been told to stop
\* has a timeout pending, which will make it try again.
NeverIdle == stopped \/ client.state = "CRASHED" \/ Pending # {}

\* Once replies come, no script fails and the operator leaves it alone, the
\* client gets an address again: from a server that offers a usable lease,
\* the broken one having been rejected.
Recovers == calm ~> (client.state = "BOUND")

\* A client told to stop by state_stop() or do_release() has no address until
\* told otherwise.
StaysStopped == stopped => conf = None
=============================================================================
