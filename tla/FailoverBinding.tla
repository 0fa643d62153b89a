--------------------------- MODULE FailoverBinding ---------------------------
(***************************************************************************)
(* One address shared by two failover servers: the binding each of them    *)
(* records, the updates and acknowledgements they exchange (BNDUPD and     *)
(* BNDACK of server/failover.c), and the clients that are given the        *)
(* address by either of them.                                              *)
(*                                                                         *)
(* Of the server states of module FailoverState only those in which a      *)
(* server answers clients are kept: normal, communications_interrupted and *)
(* partner_down, the last one entered when the partner is stopped for good.*)
(* A server that is stopped comes back in communications_interrupted.      *)
(* The leases of a pool meet only in the number of unacknowledged updates  *)
(* and in the shares of the pool, so one lease is modelled: "others" says  *)
(* whether updates of other leases wait for an ack (cur_unacked_updates),  *)
(* up to the limit when "full", and "give" what their shares ask for.  A   *)
(* client is one identity, no lease is reserved or given by BOOTP, and the *)
(* clocks agree.                                                           *)
(*                                                                         *)
(* Definitions called X_y are deliberately wrong variants of X: they exist *)
(* to confirm that the properties notice.                                  *)
(***************************************************************************)
EXTENDS Binding, Sequences

CONSTANTS
    Clients,
    NoClient,
    LeaseTime,     \* the lease time the configuration asks for
    MCLT,          \* the maximum client lead time of the pair
    AbandonTime,   \* abandon-lease-time
    Fudge,         \* clock skew allowed for (65 s)
    AckBatch,      \* half the partner's max-unacked-updates
    Releases,      \* do clients give the address back or decline it?
    QuickReconnect,\* may a connection come back within the 2 s an ack may wait?
    PartnerDowns,  \* may an operator declare a stopped partner down?
    MaxMishaps,    \* bound: connections lost, servers stopped, full queues,
                   \* releases and declines
    MaxXid,        \* bound on the updates the servers send over one connection,
                   \* less the mishaps so far
    MaxTime        \* bound on the clock

ASSUME FailoverBindingAssumption ==
    /\ LeaseTime \in Nat /\ MCLT \in Nat /\ AbandonTime \in Nat
    /\ AckBatch \in Nat \ {0}
    /\ NoClient \notin Clients

VARIABLES
    srv,     \* each server: its lease, its file, its queues, its state
    chan,    \* messages on their way to each server
    joined,  \* does the TCP connection still join the two?
    holds,   \* until when each client uses the address, or DECLINED
    clock,
    mishaps

vars == <<srv, chan, joined, holds, clock, mishaps>>

Servers == {"primary", "secondary"}
Peer(s) == IF s = "primary" THEN "secondary" ELSE "primary"

(* The state in which a lease is the server's own to give.                 *)
Own(s) == IF s = "primary" THEN FREE ELSE BACKUP

(* A client that has declined the address does not ask for it again.       *)
DECLINED == -1

Later(s, t) == IF s < t THEN t ELSE s

(* A lease as the configuration declares it; "queue" is the failover queue *)
(* it is on and "xid" its last_xid.                                        *)
NewLease == [state |-> FREE, next |-> FREE, desired |-> FREE, rewind |-> FREE,
             ends |-> MIN_TIME, tstp |-> MIN_TIME, tsfp |-> MIN_TIME,
             atsfp |-> MIN_TIME, cltt |-> MIN_TIME, client |-> NoClient,
             queue |-> "none", xid |-> 0]

(* What the lease file keeps of a lease.                                   *)
Record(l) == [l EXCEPT !.queue = "none", !.xid = 0, !.desired = l.state]

PeerState == [type |-> "state"]
BNDACK(x, rejected) == [type |-> "bndack", xid |-> x, rejected |-> rejected]

Cooperating(r) == r.state = "normal"
NotCooperating(r) == r.state = "communications_interrupted"
PartnerDown(r) == r.state = "partner_down"

-----------------------------------------------------------------------------
(***************************************************************************)
(* The lease file, and the queues.  Operators take a server r and return   *)
(* it changed; r.out collects the messages it sends on the way.            *)
(***************************************************************************)
Write(r) == [r EXCEPT !.written = Record(r.lease)]
Commit(r) == [r EXCEPT !.disk = r.written]
CommitIf(b, r) == IF b THEN Commit(r) ELSE r
Send(r, m) == [r EXCEPT !.out = Append(@, m)]

send_acks_unflushed(r) ==
    [r EXCEPT !.out = @ \o [i \in DOMAIN r.toack |-> BNDACK(r.toack[i], FALSE)],
              !.toack = << >>]

(* dhcp_failover_send_acks: without a connection the acks are just dropped. *)
send_acks(r) ==
    [Commit(r) EXCEPT !.out = @ \o [i \in DOMAIN r.toack |-> BNDACK(r.toack[i], FALSE)],
                      !.toack = << >>]

BNDUPD(x, l) == [type |-> "bndupd", xid |-> x, status |-> l.desired, client |-> l.client,
                 ends |-> l.ends, tstp |-> l.tstp, cltt |-> l.cltt]

(* The rewind state is brought up to date first, and committed.            *)
Unwindable(r) ==
    IF r.lease.rewind = r.lease.state THEN r
    ELSE Commit(Write([r EXCEPT !.lease.rewind = r.lease.state]))

send_bind_update(r) ==
    Send([Unwindable(r) EXCEPT !.xid = r.xid + 1, !.lease.xid = r.xid + 1],
         BNDUPD(r.xid + 1, r.lease))

Sent(r) ==
    IF r.others # "full" /\ r.lease.queue = "update"
    THEN [send_bind_update(r) EXCEPT !.lease.queue = "ack"] ELSE r

send_updates(r) ==
    IF r.link THEN Sent(IF r.toack = << >> THEN r ELSE send_acks(r)) ELSE r

(* The commit is left out while updates of other leases are unacknowledged. *)
ack_queue_remove(r) ==
    IF r.lease.queue # "ack" THEN r
    ELSE [CommitIf(r.others = "none", r) EXCEPT !.lease.queue = "none", !.lease.xid = 0]

SendIf(immediate, r) == IF immediate THEN send_updates(r) ELSE r

queue_update(r, immediate) ==
    IF r.lease.queue = "update" THEN r
    ELSE SendIf(immediate, [ack_queue_remove(r) EXCEPT !.lease.queue = "update"])

Flushed(r) == IF Len(r.toack) >= AckBatch THEN send_acks(r) ELSE r
queue_ack(r, x) == Flushed([r EXCEPT !.toack = Append(@, x)])

rescind_updates(r) ==
    IF r.lease.queue = "ack" THEN [r EXCEPT !.lease.queue = "update"] ELSE r

-----------------------------------------------------------------------------
(***************************************************************************)
(* supersede_lease and make_binding_state_transition with a failover peer. *)
(* "commit", "propagate" and "immediate" are the code's arguments.         *)
(***************************************************************************)
Stamped(r, m) ==
    [r EXCEPT !.lease =
        [m EXCEPT !.tstp = IF /\ r.lease.state \in {EXPIRED, ACTIVE, RELEASED}
                              /\ r.lease.next \in {FREE, BACKUP}
                           THEN r.lease.ends ELSE @,
                  !.tsfp = IF PartnerDown(r) /\ m.state \in {EXPIRED, RELEASED, ABANDONED, RESET}
                           THEN r.stos + MCLT ELSE @]]

Transition(r) == Stamped(r, make_binding_state_transition(r.lease, TRUE))

Recorded(r, commit, propagate) ==
    IF ~ commit THEN r
    ELSE Commit(Write(IF propagate /\ Cooperating(r)
                      THEN [r EXCEPT !.lease.rewind = r.lease.state] ELSE r))

Propagated(r, immediate) ==
    queue_update([r EXCEPT !.lease.desired = r.lease.state], immediate)

Superseded(r, commit, propagate, immediate) ==
    IF propagate
    THEN Propagated(Recorded(Transition([r EXCEPT !.lease.atsfp = MIN_TIME]), commit, TRUE),
                    immediate)
    ELSE Recorded(Transition(r), commit, FALSE)

(* lease_enqueue: the time of the lease's next event.                      *)
SortTime(r) ==
    IF PartnerDown(r) /\ r.lease.state \in {EXPIRED, RELEASED, RESET}
    THEN Later(r.lease.tsfp, r.lease.ends)
    ELSE r.lease.ends

(* Does pool_timer look at the queue the lease is on?                      *)
Timed_all(s, r) == TRUE

Timed(s, r) ==
    \/ PartnerDown(r)
    \/ r.lease.state = ACTIVE /\ ~ (s = "secondary" /\ r.state = "normal")
    \/ r.lease.state \in {FREE, BACKUP, ABANDONED}

Due(s, r) == Timed(s, r) /\ SortTime(r) <= clock /\ r.lease.next # r.lease.state

(* Out of contact, a lease the partner never heard of is rewound.          *)
Rewound(s, r) == NotCooperating(r) /\ r.lease.rewind = Own(s)

Expired(s, r) ==
    Superseded(IF r.lease.next = EXPIRED /\ Rewound(s, r)
               THEN [r EXCEPT !.lease.next = r.lease.rewind] ELSE r,
               TRUE, TRUE, TRUE)

(* A lease whose event is already past is moved on at once.                *)
MovedOn(s, r) == IF SortTime(r) < clock /\ Due(s, r) THEN Expired(s, r) ELSE r

supersede_lease(s, r, commit, propagate, immediate) ==
    MovedOn(s, Superseded(r, commit, propagate, immediate))

-----------------------------------------------------------------------------
(***************************************************************************)
(* May the server give the lease to a new client?                          *)
(***************************************************************************)
Waited(r) == Later(r.lease.tsfp, r.stos) + MCLT < clock

lease_mine_to_reallocate(s, r) ==
    \/ r.lease.state = Own(s)
    \/ r.lease.state = ABANDONED /\ s = "primary"
    \/ r.lease.state \in {FREE, BACKUP, ABANDONED} /\ PartnerDown(r) /\ Waited(r)
    \/ r.lease.state \in {RELEASED, EXPIRED} /\ r.lease.rewind = Own(s)
    \/ /\ r.lease.state \in {RELEASED, EXPIRED, RESET}
       /\ PartnerDown(r) /\ r.lease.tsfp < clock

(* find_lease and the failover part of dhcprequest.                        *)
Grantable(s, r, c) ==
    /\ r.lease.client = c \/ r.lease.state \in {FREE, BACKUP}
    /\ r.lease.state \in {FREE, BACKUP, RESET} => lease_mine_to_reallocate(s, r)
    /\ r.lease.state \in {RELEASED, EXPIRED} =>
           r.lease.rewind = ACTIVE \/ lease_mine_to_reallocate(s, r)

(* ack_lease: no server gives more than MCLT beyond what its partner knows. *)
GrantedTime(l) ==
    CASE LeaseTime <= MCLT -> LeaseTime
      [] LeaseTime > MCLT /\ l.tsfp <= clock -> MCLT
      [] OTHER -> IF clock + LeaseTime > l.tsfp + MCLT
                  THEN (l.tsfp - clock) + MCLT ELSE LeaseTime

ack_lease(l, c) ==
    LET given == GrantedTime(l)
        until == clock + LeaseTime + (given \div 2)
    IN  [l EXCEPT !.next = ACTIVE, !.client = c, !.cltt = clock,
                  !.ends = clock + given, !.tstp = until,
                  !.tsfp = IF until < @ THEN until ELSE @]

-----------------------------------------------------------------------------
(***************************************************************************)
(* What a server makes of the partner's update.                            *)
(***************************************************************************)
failover_lease_is_better(s, l, m) ==
    CASE l.desired = ACTIVE /\ m.status = ACTIVE ->
             m.cltt < l.cltt \/ (m.cltt = l.cltt /\ s = "primary")
      [] l.desired = ACTIVE /\ m.status = EXPIRED -> FALSE
      [] OTHER -> m.status # ACTIVE /\ s = "primary"

normal_binding_state_transition_check(s, l, m) ==
    CASE m.status = l.state -> TRUE
      [] l.state \in {FREE, ABANDONED, RELEASED, BACKUP} -> TRUE
      [] l.state = ACTIVE /\ s = "primary" -> m.status \in {RELEASED, ABANDONED}
      [] l.state = ACTIVE /\ s = "secondary" /\ m.status = EXPIRED ->
             l.ends - Fudge <= clock
      [] OTHER -> m.status \in {FREE, BACKUP} => m.tstp <= clock

conflict_binding_state_transition_check(s, l, m) ==
    l.state = ACTIVE => /\ m.status \notin {FREE, BACKUP}
                        /\ m.status = EXPIRED => l.ends - Fudge <= clock

TransitionAllowed(s, r, m) ==
    IF r.state = "normal" THEN normal_binding_state_transition_check(s, r.lease, m)
                          ELSE conflict_binding_state_transition_check(s, r.lease, m)

(* The client affinity of the primary: the lease is given to the secondary. *)
GiveAway(s, r) ==
    Write(supersede_lease(s, [r EXCEPT !.lease.next = Own(Peer(s)), !.lease.tstp = clock],
                          FALSE, TRUE, FALSE))

Marked(l, m) ==
    LET next == IF m.status \in {EXPIRED, RELEASED, RESET} THEN FREE ELSE m.status
    IN  [l EXCEPT !.next = next, !.rewind = next, !.ends = m.ends,
                  !.tsfp = m.tstp, !.atsfp = m.tstp,
                  !.client = CASE m.client # NoClient -> m.client
                               [] m.client = NoClient /\ m.status = ABANDONED -> NoClient
                               [] OTHER -> l.client]

(* An update that wins over the server's own, which q no longer waits for. *)
Accepted(s, q, m) ==
    queue_ack(Write(supersede_lease(s, [q EXCEPT !.lease = Marked(@, m)],
                                    FALSE, FALSE, FALSE)), m.xid)

Considered(s, q, m, give) ==
    IF ~ TransitionAllowed(s, q, m) THEN Send(q, BNDACK(m.xid, TRUE))
    ELSE IF give /\ s = "primary" /\ m.status \in {EXPIRED, RELEASED, RESET}
         THEN send_updates(GiveAway(s, Accepted(s, q, m)))
         ELSE Accepted(s, q, m)

process_bind_update(s, r, m, give) ==
    IF r.lease.queue = "ack" /\ failover_lease_is_better(s, r.lease, m)
    THEN Send(r, BNDACK(m.xid, TRUE))
    ELSE Considered(s, ack_queue_remove(r), m, give)

-----------------------------------------------------------------------------
(***************************************************************************)
(* What it makes of the answer to its own update.  The answer carries no   *)
(* potential expiry, so the time that was sent is taken to be known.       *)
(***************************************************************************)
Gone(l) == l.desired \in {EXPIRED, RESET, RELEASED}
Informed(l) == [l EXCEPT !.atsfp = l.tstp, !.tsfp = l.tstp]
Agreed(l) ==
    IF Gone(l) THEN [Informed(l) EXCEPT !.next = FREE, !.desired = FREE, !.rewind = FREE]
               ELSE [Informed(l) EXCEPT !.next = l.desired]

Acknowledged(s, r) ==
    Write(IF Gone(r.lease) \/ r.lease.desired # r.lease.state
          THEN supersede_lease(s, [r EXCEPT !.lease = Agreed(@)], FALSE, FALSE, FALSE)
          ELSE [r EXCEPT !.lease = Informed(@)])

process_bind_ack(s, r, m, give) ==
    CASE m.rejected \/ r.lease.xid = 0 -> send_updates(ack_queue_remove(r))
      [] ~ m.rejected /\ r.lease.xid \notin {0, m.xid} -> r
      [] OTHER ->
           send_updates(
               IF give /\ Gone(r.lease) /\ s = "primary"
               THEN CommitIf(r.state = "normal",
                             GiveAway(s, ack_queue_remove(Acknowledged(s, r))))
               ELSE ack_queue_remove(CommitIf(Gone(r.lease) /\ r.state = "normal",
                                              Acknowledged(s, r))))

-----------------------------------------------------------------------------
(***************************************************************************)
(* Into the normal state, which is recorded: the pool is balanced, what    *)
(* the partner has not acknowledged is queued, and all is sent.            *)
(***************************************************************************)
generate_update_queue(r) ==
    IF /\ r.lease.queue = "none"
       /\ r.lease.tstp > r.lease.atsfp \/ r.lease.state \in {EXPIRED, RELEASED, RESET}
    THEN queue_update([r EXCEPT !.lease.desired = r.lease.state], FALSE)
    ELSE r

(* dhcp_failover_pool_dobalance gives away some of the leases of its own.  *)
pool_dobalance(s, r, give) ==
    IF give /\ r.lease.state = Own(s) THEN Commit(GiveAway(s, r)) ELSE r

enter_normal(s, r, give) ==
    send_updates(generate_update_queue(
        pool_dobalance(s, Commit([r EXCEPT !.state = "normal", !.stos = clock]), give)))

(* Into partner_down: the expired leases are given a time to become free.  *)
enter_partner_down(r) ==
    [r EXCEPT !.state = "partner_down", !.stos = clock,
              !.lease.tsfp = IF r.lease.state \in {EXPIRED, RELEASED, RESET}
                             THEN clock + MCLT ELSE @]

-----------------------------------------------------------------------------
(* The address is in use, given by the primary and known to both.          *)
Known(s, c) ==
    [NewLease EXCEPT !.state = ACTIVE, !.next = EXPIRED, !.desired = ACTIVE, !.rewind = ACTIVE,
                     !.client = c, !.ends = 1 + MCLT,
                     !.tstp = IF s = "primary" THEN 1 + LeaseTime ELSE MIN_TIME,
                     !.tsfp = 1 + LeaseTime, !.atsfp = 1 + LeaseTime,
                     !.cltt = IF s = "primary" THEN 1 ELSE MIN_TIME]

Init ==
    /\ \E c \in Clients :
          /\ srv = [s \in Servers |->
                      [lease |-> Known(s, c), written |-> Record(Known(s, c)),
                       disk |-> Record(Known(s, c)), toack |-> << >>, out |-> << >>,
                       xid |-> 0, link |-> TRUE, others |-> "none",
                       state |-> "normal", stos |-> MIN_TIME]]
          /\ holds = [d \in Clients |-> IF d = c THEN 1 + MCLT ELSE MIN_TIME]
    /\ chan = [s \in Servers |-> << >>]
    /\ joined = TRUE
    /\ clock = 1
    /\ mishaps = 0

Up(s) == srv[s].state # "stopped"

(* Server s becomes r, and its messages go out; q is what is left of chan. *)
Becomes(s, r, q) ==
    /\ r.xid <= srv[s].xid \/ r.xid + srv[Peer(s)].xid + mishaps <= MaxXid
    /\ srv' = [srv EXCEPT ![s] = [r EXCEPT !.out = << >>]]
    /\ chan' = IF joined THEN [q EXCEPT ![Peer(s)] = @ \o r.out] ELSE q

(* dhcprequest: an address that is granted is used until its lease ends.   *)
Request(s, c) ==
    /\ Up(s)
    /\ holds[c] # DECLINED
    /\ Grantable(s, srv[s], c)
    /\ LET r == supersede_lease(s, [srv[s] EXCEPT !.lease = ack_lease(@, c)],
                                TRUE, TRUE, TRUE)
       IN  /\ Becomes(s, r, chan)
           /\ holds' = [holds EXCEPT ![c] = r.lease.ends]
    /\ UNCHANGED <<joined, clock, mishaps>>

(* dhcprelease: release_lease of mdb.c.                                    *)
Release(s, c) ==
    /\ Releases
    /\ Up(s)
    /\ holds[c] > clock
    /\ mishaps < MaxMishaps
    /\ mishaps' = mishaps + 1
    /\ holds' = [holds EXCEPT ![c] = MIN_TIME]
    /\ LET r == srv[s]
           l == [r.lease EXCEPT !.ends = clock, !.tstp = clock,
                                !.next = IF Rewound(s, r) THEN r.lease.rewind ELSE RELEASED]
       IN  IF r.lease.client = c /\ r.lease.ends > clock /\ r.lease.state = ACTIVE
           THEN Becomes(s, supersede_lease(s, [r EXCEPT !.lease = l], TRUE, TRUE, TRUE), chan)
           ELSE UNCHANGED <<srv, chan>>
    /\ UNCHANGED <<joined, clock>>

(* dhcpdecline: abandon_lease of mdb.c.                                    *)
Decline(s, c) ==
    /\ Releases
    /\ Up(s)
    /\ holds[c] > clock
    /\ mishaps < MaxMishaps
    /\ mishaps' = mishaps + 1
    /\ holds' = [holds EXCEPT ![c] = DECLINED]
    /\ LET l == [srv[s].lease EXCEPT !.ends = clock + AbandonTime, !.next = ABANDONED,
                                     !.client = NoClient]
       IN  Becomes(s, supersede_lease(s, [srv[s] EXCEPT !.lease = l], TRUE, TRUE, TRUE), chan)
    /\ UNCHANGED <<joined, clock>>

pool_timer(s) ==
    /\ Up(s)
    /\ Due(s, srv[s])
    /\ Becomes(s, Expired(s, srv[s]), chan)
    /\ UNCHANGED <<joined, holds, clock, mishaps>>

pool_rebalance(s) ==
    /\ srv[s].state = "normal"
    /\ srv[s].lease.state = Own(s)
    /\ Becomes(s, send_updates(pool_dobalance(s, srv[s], TRUE)), chan)
    /\ UNCHANGED <<joined, holds, clock, mishaps>>

toack_queue_timeout(s) ==
    /\ Up(s)
    /\ srv[s].toack # << >>
    /\ LET r == send_acks(srv[s])
       IN  Becomes(s, IF r.link THEN r ELSE [r EXCEPT !.out = << >>], chan)
    /\ UNCHANGED <<joined, holds, clock, mishaps>>

(* Updates of other leases are sent, with the acks that wait (QueueFull),   *)
(* and are acknowledged; the last acknowledgement of all commits.           *)
QueueFull(s) ==
    /\ srv[s].link /\ srv[s].others # "full"
    /\ mishaps < MaxMishaps
    /\ mishaps' = mishaps + 1
    /\ \E o \in {"some", "full"} \ {srv[s].others} :
           Becomes(s, send_updates([srv[s] EXCEPT !.others = o]), chan)
    /\ UNCHANGED <<joined, holds, clock>>

OtherAck(s) ==
    /\ srv[s].link
    /\ \E o \in {"none", "some"} :
           /\ srv[s].others \notin {"none", o}
           /\ LET r == [srv[s] EXCEPT !.others = o]
              IN  Becomes(s, send_updates(CommitIf(o = "none" /\ r.lease.queue # "ack", r)), chan)
    /\ UNCHANGED <<joined, holds, clock, mishaps>>

Receive(s, give) ==
    /\ Up(s) /\ srv[s].link
    /\ chan[s] # << >>
    /\ LET m == Head(chan[s])
           q == [chan EXCEPT ![s] = Tail(@)]
           r == srv[s]
       IN  Becomes(s, CASE m.type = "bndupd" -> process_bind_update(s, r, m, give)
                        [] m.type = "bndack" -> process_bind_ack(s, r, m, give)
                        [] m.type = "state" ->
                             IF NotCooperating(r) THEN enter_normal(s, r, give) ELSE r,
                   q)
    /\ UNCHANGED <<joined, holds, clock, mishaps>>

-----------------------------------------------------------------------------
(* The connection is lost, with what was on its way.                       *)
Disconnect ==
    /\ joined
    /\ mishaps < MaxMishaps
    /\ mishaps' = mishaps + 1
    /\ joined' = FALSE
    /\ chan' = [s \in Servers |-> << >>]
    /\ UNCHANGED <<srv, holds, clock>>

(* A server notices; the acknowledgements it has still to send are kept.    *)
(* Before the partner's state has come it is not yet normal again: it stays *)
(* in communications_interrupted, and keeps the updates it waits for.       *)
Interrupted(r) ==
    IF r.state # "normal" THEN [r EXCEPT !.link = FALSE]
    ELSE Commit([rescind_updates(r) EXCEPT !.link = FALSE, !.others = "none", !.stos = clock,
                                           !.state = "communications_interrupted"])

LinkLost(s) ==
    /\ Up(s) /\ ~ joined /\ srv[s].link
    /\ srv' = [srv EXCEPT ![s] = Interrupted(@)]
    /\ UNCHANGED <<chan, joined, holds, clock, mishaps>>

(* The transaction numbers of a connection start anew.                     *)
Connect ==
    /\ \A s \in Servers : NotCooperating(srv[s]) /\ ~ srv[s].link
    /\ ~ joined
    /\ QuickReconnect \/ \A s \in Servers : srv[s].toack = << >>
    /\ joined' = TRUE
    /\ srv' = [s \in Servers |-> [srv[s] EXCEPT !.link = TRUE, !.xid = 0]]
    /\ chan' = [s \in Servers |-> <<PeerState>>]
    /\ UNCHANGED <<holds, clock, mishaps>>

(* A server stops; a record that was not committed may be lost.            *)
Stop(s) ==
    /\ \A t \in Servers : Up(t) /\ ~ PartnerDown(srv[t])
    /\ mishaps < MaxMishaps
    /\ mishaps' = mishaps + 1
    /\ joined' = FALSE
    /\ chan' = [t \in Servers |-> << >>]
    /\ \E kept \in {srv[s].disk, srv[s].written} :
           srv' = [srv EXCEPT ![s] = [@ EXCEPT !.state = "stopped", !.link = FALSE,
                                               !.lease = kept, !.written = kept, !.disk = kept,
                                               !.toack = << >>, !.xid = 0, !.others = "none"]]
    /\ UNCHANGED <<holds, clock>>

Restart(s) ==
    /\ ~ Up(s)
    /\ ~ PartnerDown(srv[Peer(s)])
    /\ LET r == [srv[s] EXCEPT !.state = "communications_interrupted", !.stos = clock]
       IN  srv' = [srv EXCEPT ![s] = r]
    /\ UNCHANGED <<chan, joined, holds, clock, mishaps>>

OperatorPartnerDown(s) ==
    /\ PartnerDowns
    /\ NotCooperating(srv[s]) /\ ~ Up(Peer(s))
    /\ srv' = [srv EXCEPT ![s] = Commit(enter_partner_down(@))]
    /\ UNCHANGED <<chan, joined, holds, clock, mishaps>>

Tick ==
    /\ clock < MaxTime
    /\ clock' = clock + 1
    /\ holds' = [c \in Clients |-> IF holds[c] \in 1..clock' THEN MIN_TIME ELSE holds[c]]
    /\ UNCHANGED <<srv, chan, joined, mishaps>>

-----------------------------------------------------------------------------
Serve(s) ==
    \/ \E c \in Clients : Request(s, c) \/ Release(s, c) \/ Decline(s, c)
    \/ pool_timer(s)
    \/ pool_rebalance(s)
    \/ \E give \in BOOLEAN : Receive(s, give)

Next ==
    \/ \E s \in Servers : \/ Serve(s)
                          \/ toack_queue_timeout(s)
                          \/ QueueFull(s) \/ OtherAck(s)
                          \/ LinkLost(s) \/ Stop(s) \/ Restart(s)
                          \/ OperatorPartnerDown(s)
    \/ Disconnect
    \/ Connect
    \/ Tick

Spec == Init /\ [][Next]_vars

-----------------------------------------------------------------------------
(* The records have their types.                                           *)
LeaseRecords ==
    [state : BindingStates, next : BindingStates, desired : BindingStates,
     rewind : BindingStates, ends : Nat, tstp : Nat, tsfp : Nat, atsfp : Nat,
     cltt : Nat, client : Clients \cup {NoClient},
     queue : {"none", "update", "ack"}, xid : 0..MaxXid]

TypeOK ==
    /\ \A s \in Servers :
          LET r == srv[s]
          IN  /\ {r.lease, r.written, r.disk} \subseteq LeaseRecords
              /\ r.toack \in Seq(1..MaxXid) /\ Len(r.toack) < AckBatch
              /\ r.out = << >>
              /\ r.state \in {"normal", "communications_interrupted", "partner_down", "stopped"}
              /\ r.state = "normal" => r.link
    /\ ~ joined => \A s \in Servers : chan[s] = << >>
    /\ \A c \in Clients : holds[c] \in 0..(MaxTime + LeaseTime) \cup {DECLINED}

(***************************************************************************)
(* Left alone, the two servers never give the address to two clients, and  *)
(* never both hold it as their own to give, however renewals, expiries,    *)
(* rebalancing and updates cross: lease_mine_to_reallocate(), the MCLT of  *)
(* ack_lease(), failover_lease_is_better().                                *)
(***************************************************************************)
NoDoubleBinding ==
    \A c, d \in Clients : holds[c] > clock /\ holds[d] > clock => c = d

Exclusive == \E s \in Servers : ~ (Up(s) /\ lease_mine_to_reallocate(s, srv[s]))

UndisturbedSafe == mishaps = 0 => NoDoubleBinding /\ Exclusive

(* What a crash could lose of an update is still to be settled: a record    *)
(* not committed belongs to an ack still to be sent, or to an update still  *)
(* to be sent or acknowledged, or the last ack of the others commits it     *)
(* (dhcp_failover_send_acks: "Must commit all leases prior to acking";      *)
(* dhcp_failover_ack_queue_remove: "When there are no more acks pending, do *)
(* a commit").                                                              *)
Bound(l) == <<l.state, l.client, l.ends>>

UncommittedUnacked ==
    \A s \in Servers :
        Bound(srv[s].disk) # Bound(srv[s].written) =>
            srv[s].toack # << >> \/ srv[s].lease.queue # "none" \/ srv[s].others # "none"

(* normal_binding_state_transition_check: "Can't set a lease to free or     *)
(* backup until the peer agrees that it's expired."  A lease its client     *)
(* still uses does not become free or backup by the partner's update.       *)
UsedNotFreed ==
    [][\A s \in Servers :
         LET l == srv[s].lease
         IN  /\ srv[s].state = "normal" /\ srv'[s].state = "normal"
             /\ l.state = ACTIVE /\ l.ends > clock /\ l.client # NoClient
             /\ holds'[l.client] > clock
             => srv'[s].lease.state \notin {FREE, BACKUP}]_vars

=============================================================================
