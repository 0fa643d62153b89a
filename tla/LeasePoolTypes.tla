--------------------------- MODULE LeasePoolTypes ---------------------------
(***************************************************************************)
(* Type correctness of LeasePool, for any pool, any clients and any lease  *)
(* times, and the lemmas on its operators: what the operations on a lease, *)
(* on the lease file and on the timeout return, and what the two handlers  *)
(* that search for a lease come down to.                                   *)
(***************************************************************************)
EXTENDS LeasePool, FiniteSetTheorems, WellFoundedInduction, TLAPS

USE DEF MIN_TIME, Times

-----------------------------------------------------------------------------
(***************************************************************************)
(* What the operations on a single lease return.                           *)
(***************************************************************************)

(* A lease on its way to another state.                                    *)
Moving == [state  : {FREE, ACTIVE, ABANDONED},
           next   : {FREE, ACTIVE, ABANDONED},
           ends   : Times,
           young  : Times,
           client : Clients \cup {NoClient}]

(* A lease handed to make_binding_state_transition() takes its next state, *)
(* and without a failover peer the state after that is FREE.               *)
LEMMA MoveType ==
    ASSUME NEW r \in Moving
    PROVE  /\ Move(r) \in Lease
           /\ Move(r).state = r.next
           /\ Move(r).ends = r.ends
           /\ Move(r).young = r.young
           /\ Move(r).client = r.client
           /\ Move(r).next = FREE
BY Zenon DEF Moving, Move, make_binding_state_transition, NextAfter, Lease,
       FREE, ACTIVE, ABANDONED, EXPIRED, RELEASED, RESET, BACKUP

(* release_lease() leaves a free lease that still carries its client.      *)
LEMMA ReleaseType ==
    ASSUME NEW r \in Lease, now \in Times
    PROVE  /\ release_lease(r) \in Lease
           /\ release_lease(r).state = FREE
           /\ release_lease(r).client = r.client
<1>1. CASE r.state = FREE
  BY <1>1 DEF release_lease
<1>2. CASE r.state # FREE
  <2> DEFINE q == [r EXCEPT !.ends = now, !.next = FREE]
  <2>1. /\ q \in Moving
        /\ q.next = FREE /\ q.client = r.client
    BY Zenon DEF Lease, Moving
  <2>2. release_lease(r) = Move(q)
    BY <1>2 DEF release_lease
  <2> HIDE DEF q
  <2>3. Move(q) \in Lease /\ Move(q).state = q.next /\ Move(q).client = q.client
    BY <2>1, MoveType
  <2> QED
    BY <2>1, <2>2, <2>3
<1> QED
  BY <1>1, <1>2

(* abandon_lease() leaves an abandoned lease with its time still to come.  *)
LEMMA AbandonType ==
    ASSUME NEW r \in Lease, now \in Times
    PROVE  /\ abandon_lease(r) \in Lease
           /\ abandon_lease(r).state = ABANDONED
           /\ abandon_lease(r).ends > now
<1> DEFINE q == [r EXCEPT !.ends = now + AbandonTime, !.next = ABANDONED,
                          !.client = NoClient]
<1>0. now + AbandonTime \in Times /\ now + AbandonTime > now
  BY PoolAssumption
<1>1. /\ q \in Moving
      /\ q.next = ABANDONED /\ q.ends > now
  BY Zenon, <1>0 DEF Lease, Moving
<1>2. abandon_lease(r) = Move(q)
  BY DEF abandon_lease
<1> HIDE DEF q
<1>3. Move(q) \in Lease /\ Move(q).state = q.next /\ Move(q).ends = q.ends
  BY <1>1, MoveType
<1> QED
  BY <1>1, <1>2, <1>3

LEMMA YoungType ==
    ASSUME now \in Times, NEW t \in Times, now <= t
    PROVE  YoungUntil(t) \in Times
<1>1. CASE CacheThreshold = 0
  BY <1>1 DEF YoungUntil
<1>2. CASE CacheThreshold # 0
  <2>1. /\ t - now \in Nat /\ CacheThreshold \in Nat
    BY PoolAssumption
  <2>2. (t - now) * CacheThreshold \in Nat
    BY <2>1
  <2>3. ASSUME NEW n \in Nat PROVE n \div 100 \in Nat
    OBVIOUS
  <2>4. ((t - now) * CacheThreshold) \div 100 \in Nat
    BY <2>2, <2>3
  <2> QED
    BY <2>4, <1>2 DEF YoungUntil
<1> QED
  BY <1>1, <1>2

(* A lease stops being young before it ends.                               *)
LEMMA YoungBefore ==
    ASSUME now \in Times, NEW t \in Times, now < t
    PROVE  YoungUntil(t) < t
<1>1. CASE CacheThreshold = 0
  BY <1>1 DEF YoungUntil
<1>2. CASE CacheThreshold # 0
  <2> DEFINE n == t - now
  <2>1. n \in Nat \ {0} /\ CacheThreshold \in 0..99
    BY PoolAssumption
  <2>2. ASSUME NEW x \in Nat, x <= n * 99 PROVE x \div 100 < n
    BY <2>1, <2>2
  <2>3. n * CacheThreshold \in Nat /\ n * CacheThreshold <= n * 99
    BY <2>1, SMTT(30)
  <2>4. (n * CacheThreshold) \div 100 < n
    BY <2>2, <2>3
  <2>5. YoungUntil(t) = now + ((n * CacheThreshold) \div 100)
    BY <1>2 DEF YoungUntil
  <2>6. (n * CacheThreshold) \div 100 \in Nat
    BY <2>3
  <2> HIDE DEF n
  <2>7. now + n = t
    BY DEF n
  <2> QED
    BY <2>1, <2>4, <2>5, <2>6, <2>7
<1> QED
  BY <1>1, <1>2

(* An offer keeps the lease in its state and sets it aside for the client; *)
(* its time grows to the offer's or stays.                                 *)
LEMMA OfferType ==
    ASSUME NEW r \in Lease, NEW c \in Clients, now \in Times
    PROVE  /\ offer_lease(r, c) \in Lease
           /\ offer_lease(r, c).state = r.state
           /\ offer_lease(r, c).client = c
           /\ offer_lease(r, c).ends \in {now + OfferTime, r.ends}
           /\ offer_lease(r, c).ends > now
           /\ offer_lease(r, c).young < offer_lease(r, c).ends
<1> DEFINE t == Later(now + OfferTime, r.ends)
<1>1. /\ t \in Times /\ t > now /\ t \in {now + OfferTime, r.ends}
  BY PoolAssumption DEF Later, Lease
<1>2. YoungUntil(t) \in Times /\ YoungUntil(t) < t
  BY <1>1, YoungType, YoungBefore
<1> DEFINE q == [Lasting(r, t) EXCEPT !.next = r.state, !.client = c]
<1> HIDE DEF t
<1>3. /\ q \in Moving
      /\ q.next = r.state /\ q.ends = t /\ q.client = c
      /\ q.young = YoungUntil(t)
  BY Zenon, <1>1, <1>2 DEF Lasting, Lease, Moving
<1>4. offer_lease(r, c) = Move(q)
  BY DEF offer_lease, t
<1> HIDE DEF q
<1>5. /\ Move(q) \in Lease /\ Move(q).state = q.next /\ Move(q).client = q.client
      /\ Move(q).ends = q.ends /\ Move(q).young = q.young
  BY <1>3, MoveType
<1>6. /\ offer_lease(r, c) \in Lease
      /\ offer_lease(r, c).state = r.state
      /\ offer_lease(r, c).client = c
      /\ offer_lease(r, c).ends = t
      /\ offer_lease(r, c).young = YoungUntil(t)
  BY <1>3, <1>4, <1>5
<1> QED
  BY <1>1, <1>2, <1>6

(* An acknowledgement makes the lease active, the client's, for t from now. *)
LEMMA AckType ==
    ASSUME NEW r \in Lease, NEW c \in Clients, NEW t \in LeaseTimes,
           now \in Times
    PROVE  /\ ack_lease(r, c, t) \in Lease
           /\ ack_lease(r, c, t).state = ACTIVE
           /\ ack_lease(r, c, t).client = c
           /\ ack_lease(r, c, t).ends = now + t
           /\ ack_lease(r, c, t).young < now + t
           /\ now + t > now
<1> DEFINE e == now + t
<1>1. e \in Times /\ e > now
  BY PoolAssumption
<1> HIDE DEF e
<1>2. YoungUntil(e) \in Times /\ YoungUntil(e) < e
  BY <1>1, YoungType, YoungBefore
<1> DEFINE q == [Lasting(r, e) EXCEPT !.next = ACTIVE, !.client = c]
<1>3. /\ q \in Moving
      /\ q.next = ACTIVE /\ q.ends = e /\ q.client = c
      /\ q.young = YoungUntil(e)
  BY Zenon, <1>1, <1>2 DEF Lasting, Lease, Moving
<1>4. ack_lease(r, c, t) = Move(q)
  BY DEF ack_lease, e
<1> HIDE DEF q
<1>5. /\ Move(q) \in Lease /\ Move(q).state = ACTIVE /\ Move(q).client = c
      /\ Move(q).ends = e /\ Move(q).young < e
  BY <1>2, <1>3, MoveType
<1> QED
  BY <1>1, <1>4, <1>5 DEF e

-----------------------------------------------------------------------------
(***************************************************************************)
(* What the operations on the whole pool return.                           *)
(***************************************************************************)
LEMMA NewLeaseType == NewLease \in Lease
BY DEF NewLease, Lease, FREE

(* release_lease() on the leases of S, the others as they are.             *)
LEMMA ReleasedType ==
    ASSUME lease \in [Leases -> Lease], now \in Times, NEW S
    PROVE  /\ Released(S) \in [Leases -> Lease]
           /\ \A l \in Leases :
                /\ Released(S)[l].client = lease[l].client
                /\ l \in S => Released(S)[l].state = FREE
                /\ l \notin S => Released(S)[l] = lease[l]
<1>1. \A l \in Leases : /\ release_lease(lease[l]) \in Lease
                        /\ release_lease(lease[l]).state = FREE
                        /\ release_lease(lease[l]).client = lease[l].client
  BY ReleaseType
<1> QED
  BY <1>1 DEF Released

(* pool_timer() makes free the leases that are due and no others.          *)
LEMMA ExpireType ==
    ASSUME NEW L \in [Leases -> Lease], now \in Times
    PROVE  /\ Expire(L) \in [Leases -> Lease]
           /\ \A l \in Leases :
                 \/ l \in Due(L) /\ Expire(L)[l].state = FREE
                 \/ l \notin Due(L) /\ Expire(L)[l] = L[l]
<1>1. ASSUME NEW l \in Leases
      PROVE  /\ make_binding_state_transition(L[l], FALSE) \in Lease
             /\ make_binding_state_transition(L[l], FALSE).state = FREE
  <2>1. L[l] \in Moving /\ L[l].next = FREE
    BY DEF Lease, Moving
  <2>2. Move(L[l]) \in Lease /\ Move(L[l]).state = FREE
    BY <2>1, MoveType
  <2> QED
    BY Zenon, <2>2 DEF Move
<1> QED
  BY Zenon, <1>1 DEF Expire

(***************************************************************************)
(* What the lease file can say of a lease after write_lease() and          *)
(* commit_leases(): what it said before, the lease in memory, or that lease*)
(* as a rewritten file shows it.  A flush that succeeds leaves no old      *)
(* record of the leases that were written.                                 *)
(***************************************************************************)
LEMMA FileFormIs ==
    ASSUME NEW r
    PROVE  FileForm(r) = r \/ (r.state = FREE /\ FileForm(r) = NewLease)
BY DEF FileForm

LEMMA PersistRecords ==
    ASSUME NEW S \in SUBSET Leases, NEW L, NEW ok,
           disk \in [Leases -> SUBSET Lease],
           written \in [Leases -> Lease], L \in [Leases -> Lease],
           Persist(S, L, ok)
    PROVE  /\ written' \in [Leases -> Lease]
           /\ disk' \in [Leases -> SUBSET Lease]
           /\ \A l \in Leases :
                /\ l \in S => Records(l)' \subseteq
                               Records(l) \cup {L[l], FileForm(L[l])}
                /\ l \notin S => Records(l)' \subseteq
                                  Records(l) \cup {FileForm(L[l])}
                /\ l \in S /\ (ok \/ ~CommitMayFail) =>
                        Records(l)' \subseteq {L[l], FileForm(L[l])}
<1> DEFINE new == [l \in Leases |-> IF l \in S THEN L[l] ELSE written[l]]
<1>1. new \in [Leases -> Lease]
  OBVIOUS
<1>2. \A l \in Leases : FileForm(L[l]) \in Lease
  BY FileFormIs, NewLeaseType
<1>3. CASE S = {}
  <2>1. written' = written /\ disk' = disk
    BY <1>3 DEF Persist, file
  <2> QED
    BY <2>1, <1>3 DEF Records
<1>4. CASE S # {} /\ ok
  <2>1. PICK whole \in BOOLEAN :
            /\ written' = IF whole THEN [l \in Leases |-> FileForm(L[l])]
                                   ELSE new
            /\ disk' = [l \in Leases |-> {written'[l]}]
    BY <1>4 DEF Persist
  <2>2. written' \in [Leases -> Lease]
    BY <2>1, <1>1, <1>2
  <2>3. ASSUME NEW l \in Leases
        PROVE  /\ Records(l)' = {written'[l]}
               /\ l \in S => written'[l] \in {L[l], FileForm(L[l])}
               /\ l \notin S => written'[l] \in {written[l], FileForm(L[l])}
    BY <2>1 DEF Records
  <2>4. disk' \in [Leases -> SUBSET Lease]
    BY <2>1, <2>2
  <2> QED
    BY <2>2, <2>3, <2>4 DEF Records
<1>5. CASE S # {} /\ ~ok
  <2>1. /\ CommitMayFail
        /\ written' = new
        /\ disk' = [l \in Leases |-> IF l \in S THEN disk[l] \cup {new[l]}
                                                 ELSE disk[l]]
    BY Zenon, <1>5 DEF Persist
  <2>2. disk' \in [Leases -> SUBSET Lease]
    BY <2>1, <1>1
  <2>3. ASSUME NEW l \in Leases
        PROVE  /\ l \in S => Records(l)' = disk[l] \cup {L[l]}
               /\ l \notin S => Records(l)' = Records(l)
    BY <2>1 DEF Records
  <2> QED
    BY <1>1, <1>5, <2>1, <2>2, <2>3 DEF Records
<1> QED
  BY <1>3, <1>4, <1>5

-----------------------------------------------------------------------------
(***************************************************************************)
(* The pool's counter and its timeout.                                     *)
(***************************************************************************)
LEMMA QueueFinite ==
    ASSUME NEW L, NEW s
    PROVE  /\ IsFiniteSet(Queue(L, s))
           /\ Cardinality(Queue(L, s)) \in Nat
<1>1. Queue(L, s) \in SUBSET Leases
  BY DEF Queue
<1>2. IsFiniteSet(Leases)
  BY PoolAssumption
<1>3. IsFiniteSet(Queue(L, s))
  BY <1>1, <1>2, FS_Subset
<1> QED
  BY <1>3, FS_CardinalityType

LEMMA CountFreeType ==
    ASSUME NEW L, free_leases \in Int
    PROVE  CountFree(L) \in Int
BY QueueFinite DEF CountFree

(* A set of times has an earliest one.                                     *)
LEMMA EarliestTime ==
    ASSUME NEW T \in SUBSET Nat, T # {}
    PROVE  \E t \in T : \A s \in T : t <= s
<1>1. \E t \in T : \A s \in T : ~ (<<s, t>> \in OpToRel(<, Nat))
  BY Zenon, NatLessThanWellFounded, WFMin
<1>2. PICK t \in T : \A s \in T : ~ (<<s, t>> \in OpToRel(<, Nat))
  BY Zenon, <1>1
<1>3. \A s \in T : ~ (s < t)
  BY Zenon, <1>2 DEF OpToRel
<1> QED
  BY <1>3

(* A queue that is not empty has a head, the lease of its earliest event.  *)
LEMMA FirstExists ==
    ASSUME NEW L \in [Leases -> Lease], NEW Q \in SUBSET Leases, Q # {}
    PROVE  First(L, Q) # {}
<1> DEFINE T == {L[l].ends : l \in Q}
<1>1. T \in SUBSET Nat /\ T # {}
  BY DEF Lease
<1>2. PICK t \in T : \A s \in T : t <= s
  BY Zenon, <1>1, EarliestTime
<1>3. PICK l \in Q : L[l].ends = t
  BY <1>2
<1>4. \A m \in Q : L[l].ends <= L[m].ends
  BY <1>2, <1>3
<1> QED
  BY <1>4 DEF First

LEMMA ArmTimerType ==
    ASSUME NEW L \in [Leases -> Lease], NEW l \in Leases,
           timer \in [next : Times, armed : Times]
    PROVE  ArmTimer(L, l) \in [next : Times, armed : Times]
BY DEF ArmTimer, Lease

(* pool_timer() sets the timeout to the earliest event still to come, when *)
(* there is one and no earlier timeout is believed to be set.              *)
LEMMA RearmIs ==
    ASSUME NEW L \in [Leases -> Lease], now \in Times,
           NEW tm \in [next : Times, armed : Times]
    PROVE  \/ /\ Rearm(L, tm) = [tm EXCEPT !.next = MIN_TIME]
              /\ \/ \A l \in Leases : L[l].ends <= now
                 \/ tm.next > now
           \/ \E l \in Leases :
                 /\ L[l].ends > now
                 /\ \A m \in Leases : L[m].ends > now => L[l].ends <= L[m].ends
                 /\ Rearm(L, tm) = [next |-> L[l].ends, armed |-> L[l].ends]
<1> DEFINE later == {l \in Leases : L[l].ends > now}
           C == \E l \in First(L, later) : tm.next > L[l].ends \/ tm.next <= now
           f == CHOOSE l \in First(L, later) : TRUE
<1>0. \A l \in Leases : L[l].ends \in Nat
  BY DEF Lease
<1>1. CASE C
  <2>1. f \in First(L, later)
    BY Zenon, <1>1
  <2>2. /\ f \in Leases /\ L[f].ends > now
        /\ \A m \in Leases : L[m].ends > now => L[f].ends <= L[m].ends
    BY <2>1 DEF First
  <2>3. Rearm(L, tm) = [next |-> L[f].ends, armed |-> L[f].ends]
    BY Zenon, <1>1 DEF Rearm
  <2> QED
    BY Zenon, <2>2, <2>3
<1>2. CASE ~C
  <2>1. Rearm(L, tm) = [tm EXCEPT !.next = MIN_TIME]
    BY <1>2 DEF Rearm
  <2>2. CASE later = {}
    <3>1. \A l \in Leases : L[l].ends <= now
      BY <2>2, <1>0
    <3> QED
      BY <2>1, <3>1
  <2>3. CASE later # {}
    <3>1. First(L, later) # {}
      BY Zenon, <2>3, FirstExists
    <3>2. ~ (tm.next <= now)
      BY <3>1, <1>2
    <3>3. tm.next > now
      BY <3>2
    <3> QED
      BY <2>1, <3>3
  <2> QED
    BY <2>2, <2>3
<1> QED
  BY <1>1, <1>2

LEMMA RearmType ==
    ASSUME NEW L \in [Leases -> Lease], now \in Times,
           NEW tm \in [next : Times, armed : Times]
    PROVE  Rearm(L, tm) \in [next : Times, armed : Times]
<1>1. \A l \in Leases : L[l].ends \in Times
  BY DEF Lease
<1> QED
  BY <1>1, RearmIs

-----------------------------------------------------------------------------
(***************************************************************************)
(* What the two handlers that search for a lease come down to.             *)
(***************************************************************************)

(* No lease that find_lease() releases on the way is active.               *)
LEMMA UidLeaseIs ==
    ASSUME NEW c \in Clients, NEW u, NEW A \in SUBSET Leases,
           UidLease(c, u, A)
    PROVE  /\ u = NoLease \/ (u \in Leases /\ lease[u].client = c)
           /\ \A m \in A : lease[m].client = c /\ lease[m].state # ACTIVE
BY DEF UidLease, Suitable, Chain

(* dhcpdiscover() offers a lease that is the client's own or not active.   *)
DiscoverEffect(c, A, ok) ==
    /\ up /\ held[c] = Unbound
    /\ \A m \in A : lease[m].client = c /\ lease[m].state # ACTIVE
    /\ Persist(A, Released(A), ok)
    /\ free_leases' = CountFree(lease')
    /\ UNCHANGED <<up, held, now>>
    /\ \/ /\ lease' = Released(A)
          /\ UNCHANGED <<cannot_reuse, pinging, timer>>
       \/ \E l \in Leases :
             /\ \/ Released(A)[l].client = c
                \/ Released(A)[l].state # ACTIVE
             /\ pinging' \in {pinging, pinging \cup {l}}
             /\ \/ /\ lease' = Released(A)
                   /\ cannot_reuse' = cannot_reuse \ {l}
                   /\ l \notin cannot_reuse
                   /\ timer' = timer
                \/ /\ lease' = [Released(A) EXCEPT
                                   ![l] = offer_lease(Released(A)[l], c)]
                   /\ cannot_reuse' = cannot_reuse \cup {l}
                   /\ timer' = ArmTimer(lease', l)

LEMMA DiscoverIs ==
    ASSUME TypeOK, NEW c \in Clients, NEW u \in Leases \cup {NoLease},
           NEW A \in SUBSET Leases, NEW r \in Leases \cup {NoLease},
           NEW moot, NEW ping, NEW ok,
           dhcpdiscover(c, u, A, r, moot, ping, ok)
    PROVE  DiscoverEffect(c, A, ok)
<1> USE DEF DiscoverEffect
<1> DEFINE L == Released(A)
<1>1. /\ up /\ held[c] = Unbound /\ UidLease(c, u, A)
      /\ Persist(A, L, ok)
      /\ free_leases' = CountFree(lease')
      /\ UNCHANGED <<up, held, now>>
  BY DEF dhcpdiscover
<1>2. /\ L \in [Leases -> Lease]
      /\ \A l \in Leases : L[l].client = lease[l].client
  BY ReleasedType DEF TypeOK
<1>3. /\ u = NoLease \/ (u \in Leases /\ lease[u].client = c)
      /\ \A m \in A : lease[m].client = c /\ lease[m].state # ACTIVE
  BY <1>1, UidLeaseIs
<1>4. CASE Offered(L, c, u, r) = {}
  <2>1. NoOffer(L)
    BY <1>4 DEF dhcpdiscover
  <2> QED
    BY <1>1, <1>3, <2>1 DEF NoOffer
<1>5. CASE Offered(L, c, u, r) # {}
  <2>1. PICK l \in Offered(L, c, u, r) : Offer(L, l, c, moot, ping)
    BY <1>5 DEF dhcpdiscover
  <2>2. l \in Leases /\ (L[l].client = c \/ L[l].state # ACTIVE)
    <3>1. ASSUME NEW m \in allocate_lease(L)
          PROVE  m \in Leases /\ L[m].state # ACTIVE
      BY DEF allocate_lease, First, Queue, FREE, ACTIVE, ABANDONED
    <3> QED
      BY <2>1, <1>2, <1>3, <3>1 DEF Offered, IpLease, FREE, ACTIVE
  <2> HIDE DEF L
  <2>3. CASE Acking(l)
    BY <2>1, <2>3, <1>1, <1>3 DEF Offer, L
  <2>4. CASE ~Acking(l) /\ reuse_lease(L, l, c, moot)
    <3>1. /\ pinging' \in {pinging, pinging \cup {l}}
          /\ lease' = L
          /\ cannot_reuse' = cannot_reuse \ {l}
          /\ timer' = timer
      BY <2>1, <2>4 DEF Offer
    <3>2. l \notin cannot_reuse
      BY <2>4 DEF reuse_lease
    <3> QED
      BY <1>1, <1>3, <2>2, <3>1, <3>2 DEF L
  <2>5. CASE ~Acking(l) /\ ~reuse_lease(L, l, c, moot)
    <3>1. /\ pinging' \in {pinging, pinging \cup {l}}
          /\ lease' = [L EXCEPT ![l] = offer_lease(L[l], c)]
          /\ cannot_reuse' = cannot_reuse \cup {l}
          /\ timer' = ArmTimer(lease', l)
      BY <2>1, <2>5 DEF Offer
    <3> QED
      BY Zenon, <1>1, <1>3, <2>2, <3>1 DEF L
  <2> QED
    BY <2>3, <2>4, <2>5
<1> QED
  BY <1>4, <1>5

(* A DHCPREQUEST with no ciaddr first releases leases of the client other  *)
(* than an active l; then it is refused, or l is bound.                    *)
SelectingEffect(c, l, B, t, moot, ok, delivered) ==
    /\ \A m \in B : /\ lease[m].client = c
                    /\ m # l \/ lease[m].state # ACTIVE
    /\ \/ /\ lease' = Released(B)
          /\ Persist(B, Released(B), ok)
          /\ UNCHANGED <<cannot_reuse, timer, held>>
       \/ /\ IpLease(Released(B), c, l)
          /\ Bind(Released(B), B, c, l, t, moot, ok, delivered)

LEMMA SelectingIs ==
    ASSUME TypeOK, NEW c \in Clients, NEW l \in Leases,
           NEW u \in Leases \cup {NoLease}, NEW A \in SUBSET Leases,
           NEW t \in LeaseTimes, NEW moot, NEW ok,
           NEW delivered,
           Selecting(c, l, u, A, t, moot, ok, delivered)
    PROVE  /\ up /\ held[c] = Unbound
           /\ free_leases' = CountFree(lease')
           /\ UNCHANGED <<pinging, up, now>>
           /\ \E B \in SUBSET Leases :
                 SelectingEffect(c, l, B, t, moot, ok, delivered)
<1> USE DEF SelectingEffect
<1> DEFINE B == IF u # NoLease /\ u # l /\ lease[u].state = ACTIVE
                THEN A \cup {u} ELSE A
<1>1. /\ up /\ held[c] = Unbound /\ UidLease(c, u, A)
      /\ free_leases' = CountFree(lease')
      /\ UNCHANGED <<pinging, up, now>>
  BY DEF Selecting
<1>2. /\ A \subseteq B /\ B \in SUBSET Leases
      /\ \A m \in B : /\ lease[m].client = c
                      /\ m # l \/ lease[m].state # ACTIVE
      /\ \A m \in A : /\ lease[m].client = c
                      /\ m # l \/ lease[m].state # ACTIVE
  <2>1. \A m \in A : lease[m].client = c /\ lease[m].state # ACTIVE
    BY <1>1, UidLeaseIs
  <2>2. u = NoLease \/ (u \in Leases /\ lease[u].client = c)
    BY <1>1, UidLeaseIs
  <2>3. B = A \/ (B = A \cup {u} /\ u # NoLease /\ u # l)
    OBVIOUS
  <2> HIDE DEF B
  <2>4. A \subseteq B /\ B \in SUBSET Leases
    BY <2>2, <2>3
  <2>5. \A m \in B : lease[m].client = c /\ (m # l \/ lease[m].state # ACTIVE)
    BY <2>1, <2>2, <2>3
  <2> QED
    BY <2>1, <2>4, <2>5
<1>3. CASE IpLease(Released(A), c, l)
  <2>1. Bind(Released(B), B, c, l, t, moot, ok, delivered)
    BY <1>3 DEF Selecting
  <2>2. IpLease(Released(B), c, l)
    BY <1>2, <1>3, ReleasedType DEF IpLease, TypeOK
  <2> QED
    BY <1>1, <1>2, <2>1, <2>2
<1>4. CASE ~IpLease(Released(A), c, l)
  <2>1. /\ lease' = Released(A)
        /\ Persist(A, Released(A), ok)
        /\ UNCHANGED <<cannot_reuse, timer, held>>
    BY <1>4 DEF Selecting
  <2> QED
    BY <1>1, <1>2, <2>1
<1> QED
  BY <1>3, <1>4

-----------------------------------------------------------------------------
(***************************************************************************)
(* Type correctness.                                                       *)
(***************************************************************************)
BoundTypes ==
    /\ lease' \in [Leases -> Lease]
    /\ cannot_reuse' \subseteq Leases
    /\ timer' \in [next : Times, armed : Times]
    /\ written' \in [Leases -> Lease]
    /\ disk' \in [Leases -> SUBSET Lease]
    /\ held' \in [Clients -> [addr : Leases \cup {NoLease}, expiry : Times]]

LEMMA BindType ==
    ASSUME TypeOK, NEW L \in [Leases -> Lease], NEW B \in SUBSET Leases,
           NEW c \in Clients, NEW l \in Leases, NEW t \in LeaseTimes,
           NEW moot, NEW ok, NEW delivered,
           Bind(L, B, c, l, t, moot, ok, delivered)
    PROVE  BoundTypes
<1> USE DEF BoundTypes
<1>0. /\ written \in [Leases -> Lease] /\ disk \in [Leases -> SUBSET Lease]
      /\ held \in [Clients -> [addr : Leases \cup {NoLease}, expiry : Times]]
      /\ timer \in [next : Times, armed : Times]
      /\ cannot_reuse \subseteq Leases /\ now \in Times
  BY DEF TypeOK
<1>1. ASSUME NEW d, Ack(c, l, d), lease' \in [Leases -> Lease]
      PROVE  held' \in [Clients -> [addr : Leases \cup {NoLease},
                                    expiry : Times]]
  <2>1. lease'[l].ends \in Times
    BY <1>1 DEF Lease
  <2> QED
    BY <1>0, <1>1, <2>1 DEF Ack
<1>2. CASE Acking(l)
  <2>1. lease' = L /\ Persist(B, L, ok) /\ UNCHANGED <<cannot_reuse, timer, held>>
    BY <1>2 DEF Bind
  <2>2. written' \in [Leases -> Lease] /\ disk' \in [Leases -> SUBSET Lease]
    BY Zenon, <1>0, <2>1, PersistRecords
  <2> QED
    BY <1>0, <2>1, <2>2
<1>3. CASE ~Acking(l) /\ reuse_lease(L, l, c, moot)
  <2>1. /\ lease' = L /\ Persist(B, L, ok) /\ Ack(c, l, delivered)
        /\ cannot_reuse' = cannot_reuse \ {l} /\ timer' = timer
    BY <1>3 DEF Bind
  <2>2. written' \in [Leases -> Lease] /\ disk' \in [Leases -> SUBSET Lease]
    BY Zenon, <1>0, <2>1, PersistRecords
  <2> QED
    BY <1>0, <1>1, <2>1, <2>2
<1>4. CASE ~Acking(l) /\ ~reuse_lease(L, l, c, moot)
  <2>1. /\ lease' = [L EXCEPT ![l] = ack_lease(L[l], c, t)]
        /\ Persist(B \cup {l}, lease', ok) /\ Ack(c, l, ok /\ delivered)
        /\ cannot_reuse' = cannot_reuse \ {l} /\ timer' = ArmTimer(lease', l)
    BY <1>4 DEF Bind
  <2>2. lease' \in [Leases -> Lease]
    BY <1>0, <2>1, AckType
  <2>3. timer' \in [next : Times, armed : Times]
    BY Zenon, <1>0, <2>1, <2>2, ArmTimerType
  <2>4. B \cup {l} \in SUBSET Leases
    OBVIOUS
  <2>5. written' \in [Leases -> Lease] /\ disk' \in [Leases -> SUBSET Lease]
    BY Zenon, <1>0, <2>1, <2>2, <2>4, PersistRecords
  <2> QED
    BY <1>0, <2>1, <2>2, <2>3, <2>4, <2>5, <1>1
<1> QED
  BY <1>2, <1>3, <1>4

(* Abandon(l, ok) is what dhcpdecline() and lease_pinged() do to the pool.  *)
LEMMA AbandonIs ==
    ASSUME TypeOK, NEW l \in Leases, NEW ok, Abandon(l, ok)
    PROVE  /\ lease' = [lease EXCEPT ![l] = abandon_lease(lease[l])]
           /\ lease' \in [Leases -> Lease]
           /\ timer' = ArmTimer(lease', l)
           /\ timer' \in [next : Times, armed : Times]
           /\ written' \in [Leases -> Lease]
           /\ disk' \in [Leases -> SUBSET Lease]
           /\ free_leases' = CountFree(lease')
           /\ Persist({l}, lease', ok)
<1>0. /\ written \in [Leases -> Lease] /\ disk \in [Leases -> SUBSET Lease]
      /\ lease \in [Leases -> Lease]
      /\ timer \in [next : Times, armed : Times] /\ now \in Times
  BY DEF TypeOK
<1>1. lease' = [lease EXCEPT ![l] = abandon_lease(lease[l])]
  BY DEF Abandon
<1>2. lease' \in [Leases -> Lease]
  BY <1>0, <1>1, AbandonType
<1>3. timer' = ArmTimer(lease', l) /\ timer' \in [next : Times, armed : Times]
  BY Zenon, <1>0, <1>2, ArmTimerType DEF Abandon
<1>4. Persist({l}, lease', ok) /\ {l} \in SUBSET Leases
  BY DEF Abandon
<1>5. written' \in [Leases -> Lease] /\ disk' \in [Leases -> SUBSET Lease]
  BY Zenon, <1>0, <1>2, <1>4, PersistRecords
<1> QED
  BY <1>1, <1>2, <1>3, <1>4, <1>5 DEF Abandon

LEMMA InitType == Init => TypeOK
<1> SUFFICES ASSUME Init PROVE TypeOK
  OBVIOUS
<1>1. Cardinality(Leases) \in Int
  BY PoolAssumption, FS_CardinalityType
<1>2. \A c \in Clients : Unbound \in [addr : Leases \cup {NoLease}, expiry : Times]
  BY DEF Unbound
<1> QED
  BY <1>1, <1>2, NewLeaseType DEF Init, TypeOK

LEMMA NextType == TypeOK /\ [Next]_vars => TypeOK'
<1> SUFFICES ASSUME TypeOK, [Next]_vars PROVE TypeOK'
  OBVIOUS
<1>0. /\ lease \in [Leases -> Lease] /\ cannot_reuse \subseteq Leases
      /\ pinging \subseteq Leases /\ free_leases \in Int
      /\ timer \in [next : Times, armed : Times]
      /\ written \in [Leases -> Lease] /\ disk \in [Leases -> SUBSET Lease]
      /\ up \in BOOLEAN /\ now \in Times
      /\ held \in [Clients -> [addr : Leases \cup {NoLease}, expiry : Times]]
  BY DEF TypeOK
<1>u. Unbound \in [addr : Leases \cup {NoLease}, expiry : Times]
  BY DEF Unbound
<1>f. CountFree(lease') \in Int
  BY <1>0, CountFreeType
<1>r. ASSUME NEW S PROVE Released(S) \in [Leases -> Lease]
  BY <1>0, ReleasedType
<1>1. ASSUME NEW c \in Clients, NEW u \in Leases \cup {NoLease},
             NEW A \in SUBSET Leases, NEW r \in Leases \cup {NoLease},
             NEW moot, NEW ping, NEW ok,
             dhcpdiscover(c, u, A, r, moot, ping, ok)
      PROVE  TypeOK'
  <2> DEFINE L == Released(A)
  <2>1. /\ Persist(A, L, ok) /\ free_leases' = CountFree(lease')
        /\ UNCHANGED <<up, held, now>>
        /\ \/ lease' = L /\ UNCHANGED <<cannot_reuse, pinging, timer>>
           \/ \E l \in Leases :
                 /\ pinging' \in {pinging, pinging \cup {l}}
                 /\ \/ /\ lease' = L /\ timer' = timer
                       /\ cannot_reuse' = cannot_reuse \ {l}
                    \/ /\ lease' = [L EXCEPT ![l] = offer_lease(L[l], c)]
                       /\ cannot_reuse' = cannot_reuse \cup {l}
                       /\ timer' = ArmTimer(lease', l)
    <3>1. DiscoverEffect(c, A, ok)
      BY <1>1, DiscoverIs
    <3> QED
      BY <3>1 DEF DiscoverEffect
  <2>2. L \in [Leases -> Lease]
    BY <1>r
  <2> HIDE DEF L
  <2>3. /\ written' \in [Leases -> Lease] /\ disk' \in [Leases -> SUBSET Lease]
    BY Zenon, <1>0, <2>1, <2>2, PersistRecords
  <2>4. \A l \in Leases : offer_lease(L[l], c) \in Lease
    BY <1>0, <2>2, OfferType
  <2>5. lease' \in [Leases -> Lease]
    BY <2>1, <2>2, <2>4
  <2>6. timer' \in [next : Times, armed : Times]
    BY <1>0, <2>1, <2>5, ArmTimerType
  <2>7. pinging' \subseteq Leases /\ cannot_reuse' \subseteq Leases
    BY <1>0, <2>1
  <2> QED
    BY <1>0, <1>f, <2>1, <2>3, <2>5, <2>6, <2>7 DEF TypeOK
<1>2. ASSUME NEW c \in Clients, NEW l \in Leases,
             NEW u \in Leases \cup {NoLease}, NEW A \in SUBSET Leases,
             NEW t \in LeaseTimes, NEW moot, NEW ok,
             NEW delivered,
             Selecting(c, l, u, A, t, moot, ok, delivered)
      PROVE  TypeOK'
  <2>0. /\ free_leases' = CountFree(lease')
        /\ UNCHANGED <<pinging, up, now>>
    BY <1>2 DEF Selecting
  <2>1. PICK B \in SUBSET Leases :
            SelectingEffect(c, l, B, t, moot, ok, delivered)
    BY <1>2, SelectingIs
  <2>2. CASE /\ lease' = Released(B)
             /\ Persist(B, Released(B), ok)
             /\ UNCHANGED <<cannot_reuse, timer, held>>
    <3>1. written' \in [Leases -> Lease] /\ disk' \in [Leases -> SUBSET Lease]
      BY Zenon, <1>0, <1>r, <2>2, PersistRecords
    <3> QED
      BY <1>0, <1>f, <1>r, <2>0, <2>2, <3>1 DEF TypeOK
  <2>3. CASE Bind(Released(B), B, c, l, t, moot, ok, delivered)
    <3>1. Released(B) \in [Leases -> Lease]
      BY <1>r
    <3>2. BoundTypes
      BY <2>3, <3>1, BindType
    <3> QED
      BY <1>0, <1>f, <3>2, <2>0 DEF TypeOK, BoundTypes
  <2> QED
    BY <2>1, <2>2, <2>3 DEF SelectingEffect
<1>3. ASSUME NEW c \in Clients, NEW l \in Leases, NEW t \in LeaseTimes,
             NEW moot, NEW ok, NEW delivered,
             Renewing(c, l, t, moot, ok, delivered)
      PROVE  TypeOK'
  <2>0. /\ free_leases' = CountFree(lease')
        /\ UNCHANGED <<pinging, up, now>>
    BY <1>3 DEF Renewing
  <2>1. CASE IpLease(lease, c, l)
    <3>1. Bind(lease, {}, c, l, t, moot, ok, delivered)
      BY <1>3, <2>1 DEF Renewing
    <3>2. {} \in SUBSET Leases
      OBVIOUS
    <3>3. BoundTypes
      BY <1>0, <3>1, <3>2, BindType
    <3> QED
      BY <1>0, <1>f, <3>3, <2>0 DEF TypeOK, BoundTypes
  <2>2. CASE ~IpLease(lease, c, l)
    <3>1. /\ held' = [held EXCEPT ![c] = IF delivered THEN Unbound ELSE held[c]]
          /\ UNCHANGED <<lease, cannot_reuse, timer, file>>
      BY <1>3, <2>2 DEF Renewing
    <3>2. held' \in [Clients -> [addr : Leases \cup {NoLease}, expiry : Times]]
      BY <1>0, <1>u, <3>1
    <3> QED
      BY <1>0, <1>f, <2>0, <3>1, <3>2 DEF TypeOK, file
  <2> QED
    BY <2>1, <2>2
<1>4. ASSUME NEW c \in Clients, NEW l \in Leases, NEW ok,
             dhcprelease(c, l, ok)
      PROVE  TypeOK'
  <2>0. /\ free_leases' = CountFree(lease')
        /\ held' = [held EXCEPT ![c] = Unbound]
        /\ UNCHANGED <<cannot_reuse, pinging, timer, up, now>>
        /\ \/ lease' = Released({l}) /\ Persist({l}, lease', ok)
           \/ UNCHANGED <<lease, file>>
    BY <1>4 DEF dhcprelease
  <2>1. lease' \in [Leases -> Lease] /\ {l} \in SUBSET Leases
    BY <1>0, <1>r, <2>0
  <2>2. written' \in [Leases -> Lease] /\ disk' \in [Leases -> SUBSET Lease]
    BY Zenon, <1>0, <2>0, <2>1, PersistRecords DEF file
  <2>3. held' \in [Clients -> [addr : Leases \cup {NoLease}, expiry : Times]]
    BY <1>0, <1>u, <2>0
  <2> QED
    BY <1>0, <1>f, <2>0, <2>1, <2>2, <2>3 DEF TypeOK
<1>5. ASSUME NEW c \in Clients, NEW l \in Leases, NEW ok,
             dhcpdecline(c, l, ok)
      PROVE  TypeOK'
  <2>1. /\ held' = [held EXCEPT ![c] = Unbound] /\ Abandon(l, ok)
        /\ UNCHANGED <<cannot_reuse, pinging, up, now>>
    BY <1>5 DEF dhcpdecline
  <2>2. held' \in [Clients -> [addr : Leases \cup {NoLease}, expiry : Times]]
    BY <1>0, <1>u, <2>1
  <2> QED
    BY Zenon, <1>0, <1>f, <2>1, <2>2, AbandonIs DEF TypeOK
<1>6. ASSUME NEW l \in Leases, NEW ok, lease_pinged(l, ok)
      PROVE  TypeOK'
  <2>1. /\ pinging' = pinging \ {l} /\ Abandon(l, ok)
        /\ UNCHANGED <<cannot_reuse, up, held, now>>
    BY <1>6 DEF lease_pinged
  <2> QED
    BY Zenon, <1>0, <1>f, <2>1, AbandonIs DEF TypeOK
<1>7. ASSUME NEW l \in Leases, lease_ping_timeout(l)
      PROVE  TypeOK'
  BY <1>0, <1>7 DEF lease_ping_timeout, TypeOK, file
<1>8. ASSUME NEW ok, pool_timer(ok)
      PROVE  TypeOK'
  <2>1. /\ lease' = Expire(lease)
        /\ timer' = Rearm(lease', [timer EXCEPT !.armed = MIN_TIME])
        /\ free_leases' = CountFree(lease')
        /\ Persist(Due(lease), lease', ok)
        /\ UNCHANGED <<cannot_reuse, pinging, up, held, now>>
    BY <1>8 DEF pool_timer
  <2>2. lease' \in [Leases -> Lease] /\ Due(lease) \in SUBSET Leases
    BY <1>0, <2>1, ExpireType DEF Due
  <2>3. [timer EXCEPT !.armed = MIN_TIME] \in [next : Times, armed : Times]
    BY <1>0
  <2>4. timer' \in [next : Times, armed : Times]
    BY <1>0, <2>1, <2>2, <2>3, RearmType
  <2>5. written' \in [Leases -> Lease] /\ disk' \in [Leases -> SUBSET Lease]
    BY Zenon, <1>0, <2>1, <2>2, PersistRecords
  <2> QED
    BY <1>0, <1>f, <2>1, <2>2, <2>4, <2>5 DEF TypeOK
<1>9. CASE Crash
  <2>1. /\ lease' = [l \in Leases |-> NewLease]
        /\ cannot_reuse' = {} /\ pinging' = {} /\ free_leases' = 0
        /\ timer' = [next |-> MIN_TIME, armed |-> MIN_TIME]
        /\ up' = FALSE
        /\ UNCHANGED <<written, disk, held, now>>
    BY <1>9 DEF Crash, file
  <2>2. lease' \in [Leases -> Lease]
    BY <2>1, NewLeaseType
  <2>3. timer' \in [next : Times, armed : Times]
    BY <2>1
  <2>4. /\ cannot_reuse' \subseteq Leases /\ pinging' \subseteq Leases
        /\ free_leases' \in Int
    BY <2>1
  <2>5. up' \in BOOLEAN
    BY Zenon, <2>1
  <2>6. /\ written' \in [Leases -> Lease] /\ disk' \in [Leases -> SUBSET Lease]
        /\ held' \in [Clients -> [addr : Leases \cup {NoLease}, expiry : Times]]
        /\ now' \in Times
    BY <1>0, <2>1
  <2> QED
    BY <2>2, <2>3, <2>4, <2>5, <2>6 DEF TypeOK
<1>10. CASE Start
  <2>1. PICK L \in [Leases -> UNION {disk[l] : l \in Leases}] :
            (\A l \in Leases : L[l] \in disk[l]) /\ Restart(L)
    BY <1>10 DEF Start
  <2>2. L \in [Leases -> Lease]
    BY <1>0, <2>1
  <2>3. /\ lease' = Expire(L) /\ timer' = Rearm(lease', timer) /\ up' = TRUE
        /\ free_leases' =
              Cardinality({l \in Queue(lease', FREE) : lease'[l].ends <= now})
        /\ written' = [l \in Leases |-> FileForm(lease'[l])]
        /\ disk' = [l \in Leases |-> {written'[l]}]
        /\ UNCHANGED <<cannot_reuse, pinging, held, now>>
    BY <2>1 DEF Restart
  <2>4. lease' \in [Leases -> Lease]
    BY <1>0, <2>2, <2>3, ExpireType
  <2>5. timer' \in [next : Times, armed : Times]
    BY <1>0, <2>3, <2>4, RearmType
  <2>6. free_leases' \in Int
    <3> DEFINE F == {l \in Queue(lease', FREE) : lease'[l].ends <= now}
    <3>1. F \in SUBSET Leases
      BY DEF Queue
    <3>2. IsFiniteSet(F)
      BY <3>1, PoolAssumption, FS_Subset
    <3> QED
      BY <2>3, <3>2, FS_CardinalityType
  <2>7. \A l \in Leases : FileForm(lease'[l]) \in Lease
    BY <2>4, FileFormIs, NewLeaseType
  <2>8. written' \in [Leases -> Lease] /\ disk' \in [Leases -> SUBSET Lease]
    BY <2>3, <2>7
  <2> QED
    BY <1>0, <2>3, <2>4, <2>5, <2>6, <2>8 DEF TypeOK
<1>11. ASSUME NEW c \in Clients, GiveUp(c)
       PROVE  TypeOK'
  BY <1>0, <1>u, <1>11 DEF GiveUp, TypeOK, mem, file
<1>12. CASE Tick
  BY <1>0, <1>u, <1>12 DEF Tick, TypeOK, mem, file
<1>13. CASE UNCHANGED vars
  BY <1>0, <1>13 DEF vars, TypeOK
<1> QED
  BY Zenon, <1>1, <1>2, <1>3, <1>4, <1>5, <1>6, <1>7, <1>8, <1>9, <1>10, <1>11,
     <1>12, <1>13 DEF Next, Serve, PoolTimer

(* The leases in memory and on disk, the counter, the timeout and the      *)
(* clients keep their types whatever the server does: in particular a      *)
(* lease is only ever free, active or abandoned and becomes free next.     *)
THEOREM TypeCorrect == Spec => []TypeOK
BY InitType, NextType, PTL DEF Spec


=============================================================================
