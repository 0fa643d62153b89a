------------------------------ MODULE LeasePool ------------------------------
(***************************************************************************)
(* One pool of addresses of a DHCPv4 server that has no failover peer, the *)
(* clients that are given addresses from it, and the lease file.           *)
(*                                                                         *)
(* server/mdb.c keeps one struct lease per address, on a queue chosen by   *)
(* its binding state and sorted by the time of its next event; pool_timer()*)
(* makes the transitions that are due, and a single timeout per pool calls *)
(* it.  server/dhcp.c answers DHCPDISCOVER with a soft promise that is kept*)
(* in memory only, DHCPREQUEST with a binding that is written to the lease *)
(* file first, DHCPRELEASE and DHCPDECLINE by giving the lease back.  The  *)
(* server may stop at any moment and start again from the lease file.      *)
(*                                                                         *)
(* A client is one identity: the client identifier and the hardware        *)
(* address of the code are not told apart.  Every client uses the protocol *)
(* as RFC 2131 has it: it gives up its address before it sends a           *)
(* DHCPDISCOVER or a DHCPREQUEST with no ciaddr, and stops using an address*)
(* when its lease ends.  A message is handled when it is sent or is lost.  *)
(*                                                                         *)
(* Definitions called X_y are deliberately wrong variants of X: they exist *)
(* to confirm that the properties notice.                                  *)
(***************************************************************************)
EXTENDS Binding, FiniteSets

CONSTANTS
    Leases,          \* the addresses of the pool
    Clients,
    NoClient,        \* a lease that carries no client identity
    NoLease,         \* a client that holds no address
    LeaseTimes,      \* the lease times a client can be given
    OfferTime,       \* how long an offered address is set aside (120 s)
    AbandonTime,     \* abandon-lease-time
    CacheThreshold,  \* dhcp-cache-threshold, in per cent; 0 turns it off
    CommitMayFail,   \* can writing or flushing the lease file fail?
    MaxUnflushed,    \* bound on the records of a lease not yet flushed
    MaxTime          \* bound on the clock

ASSUME PoolAssumption ==
    /\ IsFiniteSet(Leases)
    /\ NoClient \notin Clients
    /\ NoLease \notin Leases
    /\ LeaseTimes \subseteq Nat \ {0}
    /\ OfferTime \in Nat \ {0}
    /\ AbandonTime \in Nat \ {0}
    /\ CacheThreshold \in 0..99
    /\ CommitMayFail \in BOOLEAN
    /\ MaxUnflushed \in Nat
    /\ MaxTime \in Nat

VARIABLES
    lease,         \* the struct leases in memory
    cannot_reuse,  \* the leases whose cannot_reuse flag is set
    pinging,       \* the leases whose OFFER waits for a ping (lease->state)
    free_leases,   \* the pool's counter
    timer,         \* next_event_time, and the pool_timer timeout really set
    written,       \* the last record of each lease handed to write_lease()
    disk,          \* the records a restart may find for each lease
    up,            \* is the server running?
    held,          \* the address each client uses, and until when
    now            \* cur_time

mem == <<lease, cannot_reuse, pinging, free_leases, timer>>
file == <<written, disk>>
vars == <<lease, cannot_reuse, pinging, free_leases, timer,
          written, disk, up, held, now>>

Times == Nat

(* "young" is the time until which reuse_lease() would confirm the lease,   *)
(* which the code works out from "starts" and "ends".                       *)
Lease == [state  : {FREE, ACTIVE, ABANDONED},
          next   : {FREE},
          ends   : Times,
          young  : Times,
          client : Clients \cup {NoClient}]

(* A lease as the configuration file declares it.                          *)
NewLease == [state |-> FREE, next |-> FREE, ends |-> MIN_TIME,
             young |-> MIN_TIME, client |-> NoClient]

Unbound == [addr |-> NoLease, expiry |-> MIN_TIME]

Holds(c, l) == held[c].addr = l

Later(s, t) == IF s < t THEN t ELSE s

-----------------------------------------------------------------------------
(***************************************************************************)
(* The lease queues.  A queue is the set of leases in one state; its order *)
(* is that of "ends", ties broken by the order of insertion, which is not  *)
(* modelled: First(Q) is any lease the head of the queue can be.           *)
(***************************************************************************)
Queue(L, s) == {l \in Leases : L[l].state = s}

First(L, Q) == {l \in Q : \A m \in Q : L[l].ends <= L[m].ends}

(* free_leases after lease_enqueue() and the removals before it.           *)
CountFree_only_up(L) ==
    free_leases + Cardinality(Queue(L, FREE) \ Queue(lease, FREE))

CountFree(L) == free_leases + Cardinality(Queue(L, FREE))
                            - Cardinality(Queue(lease, FREE))

(* supersede_lease(): the timeout is moved up to the lease's next event.    *)
(* (It calls pool_timer() at once for a lease that is left with an event in *)
(* the past; the handlers modelled here never leave one.)                   *)
ArmTimer_if_idle(L, l) ==
    IF L[l].ends > now /\ timer.next = MIN_TIME
    THEN [next |-> L[l].ends, armed |-> L[l].ends]
    ELSE timer

ArmTimer(L, l) ==
    IF L[l].ends > now /\ (timer.next = MIN_TIME \/ L[l].ends < timer.next)
    THEN [next |-> L[l].ends, armed |-> L[l].ends]
    ELSE timer

(* pool_timer(): every transition that is due.                             *)
Due_early(L) == {l \in Leases : L[l].next # L[l].state}

Due(L) == {l \in Leases : L[l].ends <= now /\ L[l].next # L[l].state}

Expire(L) ==
    [l \in Leases |-> IF l \in Due(L)
                      THEN make_binding_state_transition(L[l], FALSE)
                      ELSE L[l]]

(* pool_timer(): the earliest event still to come sets the timeout; when   *)
(* there is none, or an earlier one is believed to be set, next_event_time *)
(* is cleared and the timeout, if any, is left.                            *)
Rearm_never(L, tm) == [tm EXCEPT !.next = MIN_TIME]

Rearm(L, tm) ==
    LET later == {l \in Leases : L[l].ends > now}
    IN  IF \E l \in First(L, later) : tm.next > L[l].ends \/ tm.next <= now
        THEN LET t == L[CHOOSE l \in First(L, later) : TRUE].ends
             IN  [next |-> t, armed |-> t]
        ELSE [tm EXCEPT !.next = MIN_TIME]

-----------------------------------------------------------------------------
(***************************************************************************)
(* The lease file.  write_lease() appends a record and commit_leases()     *)
(* flushes the file.  When either fails, a restart may or may not find the *)
(* records not flushed yet.  After a successful commit the file is now and *)
(* then rewritten from memory, without the leases that say nothing.        *)
(***************************************************************************)
FileForm(r) == IF r.state = FREE /\ r.client = NoClient THEN NewLease ELSE r

Persist_unflushed(S, L, ok) ==
    /\ written' = [l \in Leases |-> IF l \in S THEN L[l] ELSE written[l]]
    /\ disk' = [l \in Leases |-> disk[l] \cup {written'[l]}]

Persist(S, L, ok) ==
    LET new == [l \in Leases |-> IF l \in S THEN L[l] ELSE written[l]]
    IN  CASE S = {} -> UNCHANGED file
          [] S # {} /\ ok ->
                \E whole \in BOOLEAN :   \* is the file rewritten?
                    /\ written' = IF whole
                                  THEN [l \in Leases |-> FileForm(L[l])]
                                  ELSE new
                    /\ disk' = [l \in Leases |-> {written'[l]}]
          [] S # {} /\ ~ok ->
                /\ CommitMayFail
                /\ \A l \in S : Cardinality(disk[l]) <= MaxUnflushed
                /\ written' = new
                /\ disk' = [l \in Leases |-> IF l \in S
                                             THEN disk[l] \cup {new[l]}
                                             ELSE disk[l]]

-----------------------------------------------------------------------------
Init ==
    /\ lease = [l \in Leases |-> NewLease]
    /\ cannot_reuse = {}
    /\ pinging = {}
    /\ free_leases = Cardinality(Leases)
    /\ timer = [next |-> MIN_TIME, armed |-> MIN_TIME]
    /\ written = [l \in Leases |-> NewLease]
    /\ disk = [l \in Leases |-> {NewLease}]
    /\ up = TRUE
    /\ held = [c \in Clients |-> Unbound]
    /\ now = 1

-----------------------------------------------------------------------------
(***************************************************************************)
(* What the handlers do to a single lease.                                 *)
(***************************************************************************)
Move(r) == make_binding_state_transition(r, FALSE)

release_lease(r) ==
    IF r.state = FREE THEN r
                      ELSE Move([r EXCEPT !.ends = now, !.next = FREE])

abandon_lease_unmoved(r) ==
    [r EXCEPT !.ends = now + AbandonTime, !.next = ABANDONED,
              !.client = NoClient]

abandon_lease(r) ==
    Move([r EXCEPT !.ends = now + AbandonTime, !.next = ABANDONED,
                   !.client = NoClient])

(* A lease that starts now and ends at t counts as young for the share of  *)
(* its length that dhcp-cache-threshold gives.                              *)
YoungUntil(t) == IF CacheThreshold = 0 THEN MIN_TIME
                 ELSE now + (((t - now) * CacheThreshold) \div 100)

Lasting(r, t) == [r EXCEPT !.ends = t, !.young = YoungUntil(t)]

offer_lease(r, c) ==
    Move([Lasting(r, Later(now + OfferTime, r.ends))
             EXCEPT !.next = r.state, !.client = c])

ack_lease(r, c, t) ==
    Move([Lasting(r, now + t) EXCEPT !.next = ACTIVE, !.client = c])

Released(S) == [l \in Leases |-> IF l \in S THEN release_lease(lease[l])
                                             ELSE lease[l]]

(* ack_lease() drops a packet for a lease that has an answer under way.    *)
Acking(l) == l \in pinging

(***************************************************************************)
(* reuse_lease(): a young active lease is confirmed as it stands.  "moot"  *)
(* stands for a changed host name, host declaration or DNS update.         *)
(***************************************************************************)
reuse_lease(L, l, c, moot) ==
    /\ ~moot
    /\ CacheThreshold > 0
    /\ l \notin cannot_reuse
    /\ L[l].state = ACTIVE
    /\ L[l].client = c
    /\ now <= L[l].young

-----------------------------------------------------------------------------
(***************************************************************************)
(* find_lease().  The leases that carry the client's identity are tried in *)
(* an order that is not modelled until one is active or free; a client     *)
(* that gives no ciaddr loses the unsuitable ones on the way.              *)
(***************************************************************************)
Chain(c) == {l \in Leases : lease[l].client = c}

lease_mine_to_reallocate(r) == r.state = FREE

Suitable(c) == {l \in Chain(c) : \/ lease[l].state = ACTIVE
                                 \/ lease_mine_to_reallocate(lease[l])}

UidLease(c, u, A) ==
    IF Suitable(c) = {} THEN u = NoLease /\ A = Chain(c)
                        ELSE u \in Suitable(c) /\ A \subseteq Chain(c) \ Suitable(c)

(* May the client have the lease of the address it asks for?               *)
IpLease_unchecked(L, c, r) == L[r].state \in {FREE, ACTIVE}

IpLease(L, c, r) == L[r].client = c \/ L[r].state = FREE

(* allocate_lease(): the oldest free lease, or else the oldest abandoned   *)
(* one; a free lease that is set aside for an offer is not given.          *)
allocate_lease(L) ==
    LET Q == IF Queue(L, FREE) # {} THEN Queue(L, FREE) ELSE Queue(L, ABANDONED)
    IN  {l \in First(L, Q) : L[l].state = ABANDONED \/ L[l].ends <= now}

(* The lease a DHCPDISCOVER for address r (or none) leads to.              *)
Offered(L, c, u, r) ==
    IF r # NoLease /\ IpLease(L, c, r) /\ L[r].state # ABANDONED THEN {r}
    ELSE IF u # NoLease THEN {u}
    ELSE allocate_lease(L)

-----------------------------------------------------------------------------
(***************************************************************************)
(* dhcpdiscover().  The offer is recorded in memory only; it may have to   *)
(* wait for the address to be pinged.  While a lease has an answer under   *)
(* way, ack_lease() drops the request.                                     *)
(***************************************************************************)
Offer_forgets(L, l, c, moot, ping) ==
    /\ ~Acking(l)
    /\ pinging' = IF ping THEN pinging \cup {l} ELSE pinging
    /\ lease' = [L EXCEPT ![l] = offer_lease(L[l], c)]
    /\ timer' = ArmTimer(lease', l)
    /\ UNCHANGED cannot_reuse

Offer(L, l, c, moot, ping) ==
    IF Acking(l)
    THEN /\ lease' = L
         /\ UNCHANGED <<cannot_reuse, pinging, timer>>
    ELSE /\ pinging' = IF ping THEN pinging \cup {l} ELSE pinging
         /\ IF reuse_lease(L, l, c, moot)
            THEN /\ lease' = L
                 /\ cannot_reuse' = cannot_reuse \ {l}
                 /\ UNCHANGED timer
            ELSE /\ lease' = [L EXCEPT ![l] = offer_lease(L[l], c)]
                 /\ cannot_reuse' = cannot_reuse \cup {l}
                 /\ timer' = ArmTimer(lease', l)

NoOffer(L) ==
    /\ lease' = L
    /\ UNCHANGED <<cannot_reuse, pinging, timer>>

dhcpdiscover(c, u, A, r, moot, ping, ok) ==
    /\ up
    /\ held[c] = Unbound
    /\ UidLease(c, u, A)
    /\ LET L == Released(A)
       IN  /\ IF Offered(L, c, u, r) = {}
              THEN NoOffer(L)
              ELSE \E l \in Offered(L, c, u, r) : Offer(L, l, c, moot, ping)
           /\ Persist(A, L, ok)
    /\ free_leases' = CountFree(lease')
    /\ UNCHANGED <<up, held, now>>

(***************************************************************************)
(* dhcprequest().  A client that gives no ciaddr has no address, so any    *)
(* other active lease it has is released.  The binding is acknowledged     *)
(* when it is on disk, or at once when the old one is confirmed.  The      *)
(* acknowledgement may be lost.                                            *)
(***************************************************************************)
Ack(c, l, delivered) ==
    held' = [held EXCEPT ![c] = IF delivered
                                THEN [addr |-> l, expiry |-> lease'[l].ends]
                                ELSE @]

Bind(L, B, c, l, t, moot, ok, delivered) ==
    CASE Acking(l) ->
           /\ lease' = L
           /\ Persist(B, L, ok)
           /\ UNCHANGED <<cannot_reuse, timer, held>>
      [] ~Acking(l) /\ reuse_lease(L, l, c, moot) ->
           /\ lease' = L
           /\ Persist(B, L, ok)
           /\ cannot_reuse' = cannot_reuse \ {l}
           /\ Ack(c, l, delivered)
           /\ UNCHANGED timer
      [] ~Acking(l) /\ ~reuse_lease(L, l, c, moot) ->
           /\ lease' = [L EXCEPT ![l] = ack_lease(L[l], c, t)]
           /\ Persist(B \cup {l}, lease', ok)
           /\ cannot_reuse' = cannot_reuse \ {l}
           /\ timer' = ArmTimer(lease', l)
           /\ Ack(c, l, ok /\ delivered)

Selecting(c, l, u, A, t, moot, ok, delivered) ==
    /\ up
    /\ held[c] = Unbound
    /\ UidLease(c, u, A)
    /\ LET B == IF u # NoLease /\ u # l /\ lease[u].state = ACTIVE
                THEN A \cup {u} ELSE A
       IN  IF IpLease(Released(A), c, l)
           THEN Bind(Released(B), B, c, l, t, moot, ok, delivered)
           ELSE /\ lease' = Released(A)
                /\ Persist(A, Released(A), ok)
                /\ UNCHANGED <<cannot_reuse, timer, held>>
    /\ free_leases' = CountFree(lease')
    /\ UNCHANGED <<pinging, up, now>>

(* A client that holds l asks for more time.  When it is refused, it must  *)
(* stop using the address (the DHCPNAK may be lost).                       *)
Renewing(c, l, t, moot, ok, delivered) ==
    /\ up
    /\ Holds(c, l)
    /\ IF IpLease(lease, c, l)
       THEN Bind(lease, {}, c, l, t, moot, ok, delivered)
       ELSE /\ held' = [held EXCEPT ![c] = IF delivered THEN Unbound ELSE @]
            /\ UNCHANGED <<lease, cannot_reuse, timer, file>>
    /\ free_leases' = CountFree(lease')
    /\ UNCHANGED <<pinging, up, now>>

(***************************************************************************)
(* dhcprelease() and dhcpdecline(), from the client that holds l.  A       *)
(* release is honoured when the lease still carries the client and has not *)
(* ended; a decline looks at nothing but the address.                      *)
(***************************************************************************)
dhcprelease(c, l, ok) ==
    /\ up
    /\ Holds(c, l)
    /\ held' = [held EXCEPT ![c] = Unbound]
    /\ IF lease[l].client = c /\ lease[l].ends > now
       THEN /\ lease' = Released({l})
            /\ Persist({l}, lease', ok)
       ELSE UNCHANGED <<lease, file>>
    /\ free_leases' = CountFree(lease')
    /\ UNCHANGED <<cannot_reuse, pinging, timer, up, now>>

Abandon(l, ok) ==
    /\ lease' = [lease EXCEPT ![l] = abandon_lease(@)]
    /\ Persist({l}, lease', ok)
    /\ timer' = ArmTimer(lease', l)
    /\ free_leases' = CountFree(lease')

dhcpdecline(c, l, ok) ==
    /\ up
    /\ Holds(c, l)
    /\ held' = [held EXCEPT ![c] = Unbound]
    /\ Abandon(l, ok)
    /\ UNCHANGED <<cannot_reuse, pinging, up, now>>

(* An address that answers the ping before it is offered is in use.        *)
lease_pinged(l, ok) ==
    /\ up
    /\ l \in pinging
    /\ pinging' = pinging \ {l}
    /\ Abandon(l, ok)
    /\ UNCHANGED <<cannot_reuse, up, held, now>>

lease_ping_timeout(l) ==
    /\ up
    /\ l \in pinging
    /\ pinging' = pinging \ {l}
    /\ UNCHANGED <<lease, cannot_reuse, free_leases, timer, file, up, held, now>>

(***************************************************************************)
(* The timeout of the pool goes off: isclib_timer_callback() takes it off  *)
(* the list and calls pool_timer().  It may be late.                       *)
(***************************************************************************)
pool_timer(ok) ==
    /\ up
    /\ timer.armed # MIN_TIME /\ timer.armed <= now
    /\ lease' = Expire(lease)
    /\ timer' = Rearm(lease', [timer EXCEPT !.armed = MIN_TIME])
    /\ free_leases' = CountFree(lease')
    /\ Persist(Due(lease), lease', ok)
    /\ UNCHANGED <<cannot_reuse, pinging, up, held, now>>

(* The server stops; all it knew that is not on disk is gone.              *)
Crash ==
    /\ up
    /\ up' = FALSE
    /\ lease' = [l \in Leases |-> NewLease]
    /\ cannot_reuse' = {}
    /\ pinging' = {}
    /\ free_leases' = 0
    /\ timer' = [next |-> MIN_TIME, armed |-> MIN_TIME]
    /\ UNCHANGED <<file, held, now>>

(***************************************************************************)
(* db_startup(): read the lease file, run the events that are overdue,     *)
(* count the free leases (expire_all_pools() leaves out those whose "ends" *)
(* is still to come) and write a new lease file.                           *)
(***************************************************************************)
Restart(L) ==
    /\ ~up
    /\ up' = TRUE
    /\ lease' = Expire(L)
    /\ timer' = Rearm(lease', timer)
    /\ free_leases' =
           Cardinality({l \in Queue(lease', FREE) : lease'[l].ends <= now})
    /\ written' = [l \in Leases |-> FileForm(lease'[l])]
    /\ disk' = [l \in Leases |-> {written'[l]}]
    /\ UNCHANGED <<cannot_reuse, pinging, held, now>>

(* A client stops using its address: it reboots, or its release is lost.   *)
GiveUp(c) ==
    /\ held[c] # Unbound
    /\ held' = [held EXCEPT ![c] = Unbound]
    /\ UNCHANGED <<mem, file, up, now>>

(* Time passes; a client whose lease has ended stops using its address.    *)
Tick ==
    /\ now < MaxTime
    /\ now' = now + 1
    /\ held' = [c \in Clients |-> IF held[c].expiry <= now' THEN Unbound
                                                            ELSE held[c]]
    /\ UNCHANGED <<mem, file, up>>

-----------------------------------------------------------------------------
Serve(c) ==
    \/ \E u \in Leases \cup {NoLease}, A \in SUBSET Leases,
          r \in Leases \cup {NoLease}, moot, ping, ok \in BOOLEAN :
              dhcpdiscover(c, u, A, r, moot, ping, ok)
    \/ \E l \in Leases, u \in Leases \cup {NoLease}, A \in SUBSET Leases,
          t \in LeaseTimes, moot, ok, delivered \in BOOLEAN :
              Selecting(c, l, u, A, t, moot, ok, delivered)
    \/ \E l \in Leases, t \in LeaseTimes, moot, ok, delivered \in BOOLEAN :
              Renewing(c, l, t, moot, ok, delivered)
    \/ \E l \in Leases, ok \in BOOLEAN : dhcprelease(c, l, ok)
    \/ \E l \in Leases, ok \in BOOLEAN : dhcpdecline(c, l, ok)

PoolTimer == \E ok \in BOOLEAN : pool_timer(ok)

Start == \E L \in [Leases -> UNION {disk[l] : l \in Leases}] :
            (\A l \in Leases : L[l] \in disk[l]) /\ Restart(L)

Next ==
    \/ \E c \in Clients : Serve(c) \/ GiveUp(c)
    \/ \E l \in Leases : (\E ok \in BOOLEAN : lease_pinged(l, ok))
                         \/ lease_ping_timeout(l)
    \/ PoolTimer
    \/ Crash
    \/ Start
    \/ Tick

Spec == Init /\ [][Next]_vars

(***************************************************************************)
(* Under fairness a timeout that is due is served and a stopped server is  *)
(* started again: dispatch() waits on nothing but timeouts and sockets.    *)
(***************************************************************************)
FairSpec == Spec /\ WF_vars(PoolTimer) /\ WF_vars(Start)

-----------------------------------------------------------------------------
(* Types: of the leases in memory and on disk, of the timer, the clients.  *)
TypeOK ==
    /\ lease \in [Leases -> Lease]
    /\ cannot_reuse \subseteq Leases
    /\ pinging \subseteq Leases
    /\ free_leases \in Int
    /\ timer \in [next : Times, armed : Times]
    /\ written \in [Leases -> Lease]
    /\ disk \in [Leases -> SUBSET Lease]
    /\ up \in BOOLEAN
    /\ held \in [Clients -> [addr : Leases \cup {NoLease}, expiry : Times]]
    /\ now \in Times

(***************************************************************************)
(* No address is in use by two clients at once: find_lease() gives a lease *)
(* to a second client only when the first one's time is over, and neither  *)
(* a crash nor an expiry timer changes that.                               *)
(***************************************************************************)
NoDoubleBinding ==
    \A c, d \in Clients, l \in Leases : Holds(c, l) /\ Holds(d, l) => c = d

(***************************************************************************)
(* "Before dhcpd grants a lease to a host, it records the lease in this    *)
(* file and makes sure that the contents of the file are flushed to disk"  *)
(* (dhcpd.8): every record a restart can find for an address in use says   *)
(* that it is active, whose it is, and at least as long as the client      *)
(* believes; and so does the lease in memory.                              *)
(***************************************************************************)
Backs(r, c) == r.state = ACTIVE /\ r.client = c /\ r.ends >= held[c].expiry

Records(l) == disk[l] \cup {written[l]}

BindingOnDisk ==
    \A c \in Clients, l \in Leases :
        Holds(c, l) => \A r \in Records(l) : Backs(r, c)

BindingInMemory ==
    \A c \in Clients, l \in Leases : up /\ Holds(c, l) => Backs(lease[l], c)

(***************************************************************************)
(* No transition is forgotten: a lease that is to change state by itself   *)
(* has the pool's timeout set no later than its time (supersede_lease()    *)
(* and pool_timer() keep one timeout for all the leases of the pool).      *)
(***************************************************************************)
TimerCovers ==
    up => \A l \in Leases :
              lease[l].next # lease[l].state =>
                  timer.armed # MIN_TIME /\ timer.armed <= lease[l].ends

(***************************************************************************)
(* A lease that waits for a ping is in nobody's use: ack_lease() leaves a  *)
(* lease alone while it has an answer under way, so lease_pinged() never   *)
(* abandons an address that was acknowledged meanwhile.                    *)
(***************************************************************************)
PingedNotHeld ==
    \A c \in Clients, l \in pinging : ~Holds(c, l)

(***************************************************************************)
(* Why the bindings hold.  The client's idea, the memory, the last record  *)
(* and every record a restart can find agree because an active lease that  *)
(* reuse_lease() would confirm is on disk as it stands: cannot_reuse marks *)
(* the ones an offer has changed in memory alone.  No active lease runs    *)
(* longer than a new acknowledgement would give, so a renewal never takes  *)
(* back promised time, even if its acknowledgement is lost.                *)
(***************************************************************************)
ReuseOnDisk ==
    up /\ CacheThreshold > 0 =>
        \A l \in Leases :
            lease[l].state = ACTIVE /\ l \notin cannot_reuse =>
                \A r \in Records(l) : r = lease[l]

NotTooLong ==
    \A l \in Leases : \A r \in Records(l) \cup {lease[l]} :
        r.state = ACTIVE => /\ r.young < r.ends
                            /\ \A t \in LeaseTimes : r.ends <= now + t

HeldIsOpen ==
    \A c \in Clients : \/ held[c] = Unbound
                       \/ held[c].addr \in Leases /\ held[c].expiry > now

StoppedIsEmpty == up \/ (pinging = {} /\ cannot_reuse = {})

BindingInv ==
    /\ HeldIsOpen /\ BindingOnDisk /\ BindingInMemory
    /\ ReuseOnDisk /\ NotTooLong /\ StoppedIsEmpty
    /\ PingedNotHeld

(* free_leases never promises more free leases than there are.             *)
FreeLeasesNotOver == up => free_leases <= Cardinality(Queue(lease, FREE))

(***************************************************************************)
(* lease_enqueue() "keeps track of the number of FREE and BACKUP leases in *)
(* existence" (mdb.c): the counter is the length of the free queue.        *)
(***************************************************************************)
FreeLeasesExact == up => free_leases = Cardinality(Queue(lease, FREE))

(***************************************************************************)
(* supersede_lease() never has a "Lease conflict" to log: an active lease  *)
(* does not pass from one client to another without being given back.      *)
(***************************************************************************)
NoLeaseConflict ==
    [][\A l \in Leases :
          up /\ up' /\ lease[l].state = ACTIVE /\ lease'[l].state = ACTIVE
              => lease'[l].client = lease[l].client]_vars

(***************************************************************************)
(* A lease whose time is over does not stay active or abandoned for ever:  *)
(* pool_timer() moves it on, or the client is given more time.             *)
(***************************************************************************)
Overdue(l) == up /\ lease[l].next # lease[l].state /\ lease[l].ends <= now

OverdueMovesOn == \A l \in Leases : Overdue(l) ~> up /\ ~Overdue(l)

=============================================================================
