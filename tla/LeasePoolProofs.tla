-------------------------- MODULE LeasePoolProofs ---------------------------
(***************************************************************************)
(* The bindings of LeasePool are safe, for any pool and any clients.       *)
(*                                                                         *)
(* The binding a client relies on is safe because four copies of it agree: *)
(* what the client believes, the lease in memory, the last record written  *)
(* and every record a restart can find.  BindingInv says so, and adds what *)
(* keeps them in agreement: an active lease that reuse_lease() would       *)
(* confirm is on disk as it stands (ReuseOnDisk), and no active lease runs *)
(* past what a new acknowledgement would give (NotTooLong), so that a      *)
(* renewal never takes back time the client was promised.                  *)
(*                                                                         *)
(* The one timeout of a pool covers every lease of it, its counter of free *)
(* leases never promises too many, and an active lease does not pass from  *)
(* one client to another.                                                  *)
(***************************************************************************)
EXTENDS LeasePoolTypes

USE DEF MIN_TIME, Times

-----------------------------------------------------------------------------
(***************************************************************************)
(* The bindings.  They are proved for a server whose lease times do not    *)
(* vary and are no shorter than an offer, so that no renewal shortens a    *)
(* lease, and that does not combine dhcp-cache-threshold with a lease file *)
(* that can fail (a lease confirmed from memory may then not be on disk).  *)
(***************************************************************************)
SteadyTimes == \A s, t \in LeaseTimes : s = t /\ OfferTime <= s

NoBlindReuse == CommitMayFail => CacheThreshold = 0

(***************************************************************************)
(* A record that backs client d until time e, and one that lasts no longer *)
(* than a lease given at time n would.                                     *)
(***************************************************************************)
Bound(r, d, e) == r.state = ACTIVE /\ r.client = d /\ r.ends >= e

Short(r, n) ==
    r.state = ACTIVE => /\ r.young < r.ends
                        /\ \A t \in LeaseTimes : r.ends <= n + t

(* The invariant, in these words.                                          *)
LEMMA HeldFacts ==
    ASSUME TypeOK, BindingInv, NEW d \in Clients, NEW m \in Leases,
           held[d].addr = m
    PROVE  /\ m \notin pinging /\ held[d].expiry > now
           /\ \A r \in Records(m) : Bound(r, d, held[d].expiry)
           /\ up => Bound(lease[m], d, held[d].expiry)
<1>1. m \notin pinging
  BY DEF BindingInv, PingedNotHeld, Holds
<1>2. held[d] # Unbound
  BY PoolAssumption DEF Unbound
<1>3. held[d].expiry > now
  BY <1>2 DEF BindingInv, HeldIsOpen
<1>4. \A r \in Records(m) : Bound(r, d, held[d].expiry)
  BY DEF BindingInv, BindingOnDisk, Holds, Backs, Bound
<1>5. up => Bound(lease[m], d, held[d].expiry)
  BY DEF BindingInv, BindingInMemory, Holds, Backs, Bound
<1> QED
  BY <1>1, <1>3, <1>4, <1>5

LEMMA ShortFacts ==
    ASSUME BindingInv, NEW m \in Leases, NEW r \in Records(m) \cup {lease[m]}
    PROVE  Short(r, now)
BY DEF BindingInv, NotTooLong, Short

(* No two clients hold one address.                                        *)
LEMMA HeldByOne ==
    ASSUME TypeOK, BindingInv, NEW c \in Clients, NEW d \in Clients,
           NEW m \in Leases, held[c].addr = m, held[d].addr = m
    PROVE  c = d
<1>1. written[m] \in Records(m)
  BY DEF Records
<1>2. /\ Bound(written[m], c, held[c].expiry)
      /\ Bound(written[m], d, held[d].expiry)
  BY <1>1, HeldFacts
<1> QED
  BY <1>2 DEF Bound

(***************************************************************************)
(* What a running server must observe in a step that writes the leases of S*)
(* as they are in L: L is what is handed to write_lease().                 *)
(***************************************************************************)
HeldKept(S, L, ok) ==
    \A d \in Clients, m \in Leases :
        held'[d].addr = m =>
            /\ m \notin pinging'
            /\ Bound(L[m], d, held'[d].expiry)
            /\ Bound(lease'[m], d, held'[d].expiry)
            /\ \/ held'[d] = held[d]
               \/ m \in S /\ (ok \/ ~CommitMayFail)
               \/ \A r \in Records(m) : r = L[m]

ShortKept(L) == \A m \in Leases : Short(L[m], now) /\ Short(lease'[m], now)

ReuseKept(S, L) ==
    \A m \in Leases :
        lease'[m].state = ACTIVE /\ m \notin cannot_reuse' =>
            /\ lease'[m] = L[m]
            /\ m \in S \/ (L[m] = lease[m] /\ m \notin cannot_reuse)

OpenKept ==
    \A d \in Clients :
        \/ held'[d] \in {held[d], Unbound}
        \/ held'[d].addr \in Leases /\ held'[d].expiry > now

(* What the lease file says afterwards of a lease, active or not.          *)
LEMMA RecordsAfter ==
    ASSUME TypeOK, NEW S \in SUBSET Leases, NEW L \in [Leases -> Lease], NEW ok,
           Persist(S, L, ok), NEW m \in Leases, NEW r \in Records(m)'
    PROVE  /\ r \in Records(m) \/ r = L[m] \/ r.state # ACTIVE
           /\ L[m].state = ACTIVE => r \in Records(m) \/ r = L[m]
           /\ L[m].state = ACTIVE /\ m \in S /\ (ok \/ ~CommitMayFail) => r = L[m]
<1>1. /\ m \in S => Records(m)' \subseteq Records(m) \cup {L[m], FileForm(L[m])}
      /\ m \notin S => Records(m)' \subseteq Records(m) \cup {FileForm(L[m])}
      /\ m \in S /\ (ok \/ ~CommitMayFail) =>
            Records(m)' \subseteq {L[m], FileForm(L[m])}
  BY PersistRecords, ZenonT(30) DEF TypeOK
<1>2. \/ FileForm(L[m]) = L[m]
      \/ L[m].state = FREE /\ FileForm(L[m]) = NewLease
  BY FileFormIs
<1>3. \/ FileForm(L[m]) = L[m]
      \/ L[m].state # ACTIVE /\ FileForm(L[m]).state # ACTIVE
  BY <1>2 DEF NewLease, FREE, ACTIVE
<1> QED
  BY <1>1, <1>3

LEMMA StepKeepsBindings ==
    ASSUME NoBlindReuse, TypeOK, TypeOK', BindingInv, up, up', now' = now,
           NEW S \in SUBSET Leases, NEW L \in [Leases -> Lease], NEW ok,
           Persist(S, L, ok),
           HeldKept(S, L, ok), ShortKept(L), ReuseKept(S, L), OpenKept
    PROVE  BindingInv'
<1>1. HeldIsOpen'
  BY DEF BindingInv, HeldIsOpen, OpenKept, Unbound
<1>2. ASSUME NEW d \in Clients, NEW m \in Leases, held'[d].addr = m
      PROVE  /\ m \notin pinging'
             /\ Bound(lease'[m], d, held'[d].expiry)
             /\ \A r \in Records(m)' : Bound(r, d, held'[d].expiry)
  <2>1. /\ m \notin pinging'
        /\ Bound(L[m], d, held'[d].expiry)
        /\ Bound(lease'[m], d, held'[d].expiry)
        /\ \/ held'[d] = held[d]
           \/ m \in S /\ (ok \/ ~CommitMayFail)
           \/ \A r \in Records(m) : r = L[m]
    BY <1>2 DEF HeldKept
  <2>2. L[m].state = ACTIVE
    BY <2>1 DEF Bound
  <2> SUFFICES ASSUME NEW r \in Records(m)' PROVE Bound(r, d, held'[d].expiry)
    BY <2>1
  <2>3. r \in Records(m) \/ r = L[m]
    BY <2>2, RecordsAfter, ZenonT(30)
  <2>4. CASE r \in Records(m) /\ held'[d] = held[d]
    <3>1. held[d].addr = m
      BY <1>2, <2>4
    <3> QED
      BY <2>4, <3>1, HeldFacts
  <2>5. CASE m \in S /\ (ok \/ ~CommitMayFail)
    <3>1. r = L[m]
      BY <2>2, <2>5, RecordsAfter
    <3> QED
      BY <2>1, <3>1
  <2>6. CASE r = L[m]
    BY <2>1, <2>6
  <2>7. CASE \A q \in Records(m) : q = L[m]
    BY <2>3, <2>6, <2>7
  <2> QED
    BY <2>1, <2>3, <2>4, <2>5, <2>6, <2>7
<1>3. BindingOnDisk'
  BY <1>2 DEF BindingOnDisk, Holds, Backs, Bound
<1>4. BindingInMemory'
  BY <1>2 DEF BindingInMemory, Holds, Backs, Bound
<1>5. PingedNotHeld' /\ StoppedIsEmpty'
  <2>1. pinging' \subseteq Leases
    BY DEF TypeOK
  <2> QED
    BY <1>2, <2>1 DEF PingedNotHeld, StoppedIsEmpty, Holds
<1>6. ReuseOnDisk'
  <2> SUFFICES ASSUME CacheThreshold > 0, NEW m \in Leases,
                      lease'[m].state = ACTIVE, m \notin cannot_reuse',
                      NEW r \in Records(m)'
               PROVE  r = lease'[m]
    BY DEF ReuseOnDisk
  <2>1. /\ ~CommitMayFail /\ lease'[m] = L[m] /\ L[m].state = ACTIVE
        /\ m \in S \/ (L[m] = lease[m] /\ m \notin cannot_reuse)
    BY DEF NoBlindReuse, ReuseKept
  <2>2. CASE m \in S
    BY <2>1, <2>2, RecordsAfter
  <2>3. CASE L[m] = lease[m] /\ m \notin cannot_reuse
    <3>1. \A q \in Records(m) : q = lease[m]
      BY <2>1, <2>3 DEF BindingInv, ReuseOnDisk
    <3>2. r \in Records(m) \/ r = L[m]
      BY <2>1, RecordsAfter
    <3> QED
      BY <2>1, <2>3, <3>1, <3>2, Zenon
  <2> QED
    BY <2>1, <2>2, <2>3
<1>7. NotTooLong'
  <2> SUFFICES ASSUME NEW m \in Leases, NEW r \in Records(m)' \cup {lease'[m]}
               PROVE  Short(r, now)
    BY DEF NotTooLong, Short
  <2>1. Short(L[m], now) /\ Short(lease'[m], now)
    BY DEF ShortKept
  <2>2. CASE r \in Records(m)
    BY <2>2, ShortFacts
  <2>3. CASE r.state # ACTIVE
    BY <2>3 DEF Short
  <2>4. CASE r \in Records(m)'
    <3>1. r \in Records(m) \/ r = L[m] \/ r.state # ACTIVE
      BY <2>4, RecordsAfter, ZenonT(30)
    <3> QED
      BY <2>1, <2>2, <2>3, <3>1
  <2> QED
    BY <2>1, <2>4
<1> QED
  BY <1>1, <1>3, <1>4, <1>5, <1>6, <1>7 DEF BindingInv

(* A step that leaves the bindings of the leases it does not write, and    *)
(* writes only leases that nobody holds and that are not active then.      *)
LEMMA QuietStep ==
    ASSUME NoBlindReuse, TypeOK, TypeOK', BindingInv, up, up', now' = now,
           NEW S \in SUBSET Leases, NEW ok, Persist(S, lease', ok),
           cannot_reuse' = cannot_reuse, pinging' \subseteq pinging,
           \A m \in S : lease'[m].state # ACTIVE,
           \A m \in Leases \ S : lease'[m] = lease[m],
           \A d \in Clients : /\ held'[d] \in {held[d], Unbound}
                              /\ held'[d].addr \notin S
    PROVE  BindingInv'
<1>0. lease' \in [Leases -> Lease] /\ NoLease \notin Leases
  BY PoolAssumption DEF TypeOK
<1>1. HeldKept(S, lease', ok)
  <2> SUFFICES ASSUME NEW d \in Clients, NEW m \in Leases, held'[d].addr = m
               PROVE  /\ m \notin pinging' /\ held'[d] = held[d]
                      /\ Bound(lease'[m], d, held'[d].expiry)
    BY DEF HeldKept
  <2>1. held'[d] = held[d] /\ held[d].addr = m /\ lease'[m] = lease[m]
    BY <1>0 DEF Unbound
  <2>2. m \notin pinging /\ Bound(lease[m], d, held[d].expiry)
    BY <2>1, HeldFacts
  <2> QED
    BY <2>1, <2>2
<1>2. ShortKept(lease')
  <2> SUFFICES ASSUME NEW m \in Leases PROVE Short(lease'[m], now)
    BY DEF ShortKept
  <2>1. CASE m \in S
    BY <2>1 DEF Short
  <2>2. CASE m \notin S
    <3>1. lease'[m] = lease[m]
      BY <2>2
    <3>2. Short(lease[m], now)
      BY ShortFacts
    <3> QED
      BY <3>1, <3>2
  <2> QED
    BY <2>1, <2>2
<1>3. ReuseKept(S, lease')
  BY DEF ReuseKept
<1>4. OpenKept
  BY DEF OpenKept
<1> QED
  BY <1>0, <1>1, <1>2, <1>3, <1>4, StepKeepsBindings, Zenon

(***************************************************************************)
(* Leases of a client that holds none of them are released without         *)
(* touching anyone's binding.                                              *)
(***************************************************************************)
LEMMA ReleasedHeld ==
    ASSUME TypeOK, BindingInv, up, NEW c \in Clients, NEW B \in SUBSET Leases,
           \A m \in B : lease[m].client = c, held[c].addr \notin B,
           NEW d \in Clients, NEW m \in Leases, held[d].addr = m
    PROVE  /\ m \notin B /\ Released(B)[m] = lease[m] /\ m \notin pinging
           /\ Bound(Released(B)[m], d, held[d].expiry)
<1>1. m \notin pinging /\ Bound(lease[m], d, held[d].expiry)
  BY HeldFacts
<1>2. m \notin B
  BY <1>1 DEF Bound
<1>3. Released(B)[m] = lease[m]
  BY <1>2, ReleasedType DEF TypeOK
<1> QED
  BY <1>1, <1>2, <1>3

LEMMA ReleasedActive ==
    ASSUME TypeOK, BindingInv, NEW B \in SUBSET Leases, NEW m \in Leases
    PROVE  /\ Released(B) \in [Leases -> Lease]
           /\ Short(Released(B)[m], now)
           /\ Released(B)[m].state = ACTIVE =>
                  m \notin B /\ Released(B)[m] = lease[m]
<1>1. /\ Released(B) \in [Leases -> Lease]
      /\ m \in B => Released(B)[m].state = FREE
      /\ m \notin B => Released(B)[m] = lease[m]
  BY ReleasedType DEF TypeOK
<1>2. Short(lease[m], now)
  BY ShortFacts
<1>3. CASE m \in B
  BY <1>1, <1>3 DEF Short, FREE, ACTIVE
<1>4. CASE m \notin B
  BY <1>1, <1>2, <1>4
<1> QED
  BY <1>3, <1>4

(* Nothing but the leases of B changes.                                    *)
LEMMA OnlyReleased ==
    ASSUME NoBlindReuse, TypeOK, TypeOK', BindingInv, up, up', now' = now,
           NEW c \in Clients, NEW B \in SUBSET Leases, NEW ok,
           \A m \in B : lease[m].client = c, held[c].addr \notin B,
           lease' = Released(B), Persist(B, Released(B), ok),
           held' = held, cannot_reuse' = cannot_reuse, pinging' = pinging
    PROVE  BindingInv'
<1>1. \A m \in B : lease'[m].state # ACTIVE
  BY ReleasedActive
<1>2. \A m \in Leases \ B : lease'[m] = lease[m]
  BY ReleasedType DEF TypeOK
<1>3. \A d \in Clients : held'[d].addr \notin B
  <2> SUFFICES ASSUME NEW d \in Clients, held[d].addr \in B PROVE FALSE
    OBVIOUS
  <2>1. PICK m \in B : held[d].addr = m
    OBVIOUS
  <2> QED
    BY <2>1, ReleasedHeld
<1> QED
  BY <1>1, <1>2, <1>3, QuietStep

(***************************************************************************)
(* The acknowledgement of l to c, after the leases of B were released: c   *)
(* holds nothing, or holds l and B is empty.                               *)
(***************************************************************************)
BindBefore(c, l, B) ==
    /\ \A m \in B : lease[m].client = c
    /\ held[c] = Unbound \/ (held[c].addr = l /\ B = {})
    /\ IpLease(Released(B), c, l)

(* What c holds is not among the leases that are given up for l.           *)
LEMMA BindOutside ==
    ASSUME NEW c \in Clients, NEW l \in Leases, NEW B \in SUBSET Leases,
           BindBefore(c, l, B)
    PROVE  held[c].addr \notin B
<1>1. CASE held[c] = Unbound
  <2>1. held[c].addr = NoLease
    BY <1>1 DEF Unbound
  <2> QED
    BY <2>1, PoolAssumption
<1>2. CASE held[c].addr = l /\ B = {}
  BY <1>2
<1> QED
  BY <1>1, <1>2, Zenon DEF BindBefore

LEMMA BindHeld ==
    ASSUME TypeOK, BindingInv, up, NEW c \in Clients, NEW l \in Leases,
           NEW B \in SUBSET Leases, BindBefore(c, l, B),
           NEW d \in Clients, NEW m \in Leases, held[d].addr = m
    PROVE  /\ m \notin B /\ Released(B)[m] = lease[m] /\ m \notin pinging
           /\ Bound(Released(B)[m], d, held[d].expiry)
           /\ d = c <=> m = l
<1>1. held[c].addr \notin B /\ (d = c => m = l)
  BY PoolAssumption DEF BindBefore, Unbound
<1>2. /\ m \notin B /\ Released(B)[m] = lease[m] /\ m \notin pinging
      /\ Bound(Released(B)[m], d, held[d].expiry)
  BY <1>1, ReleasedHeld DEF BindBefore
<1>3. m = l => d = c
  BY <1>2 DEF BindBefore, IpLease, Bound, FREE, ACTIVE
<1> QED
  BY <1>1, <1>2, <1>3

(* A young lease is confirmed as it stands.                                *)
LEMMA ReuseKeepsBindings ==
    ASSUME NoBlindReuse, TypeOK, TypeOK', BindingInv, up, up' = up, now' = now,
           pinging' = pinging, NEW c \in Clients, NEW l \in Leases,
           NEW B \in SUBSET Leases, BindBefore(c, l, B),
           NEW moot, NEW ok, NEW delivered,
           ~Acking(l), reuse_lease(Released(B), l, c, moot),
           lease' = Released(B), Persist(B, Released(B), ok),
           cannot_reuse' = cannot_reuse \ {l}, Ack(c, l, delivered)
    PROVE  BindingInv'
<1> DEFINE L == Released(B)
<1>0. /\ L \in [Leases -> Lease]
      /\ held \in [Clients -> [addr : Leases \cup {NoLease}, expiry : Times]]
      /\ now \in Times
  BY ReleasedActive DEF TypeOK
<1>1. held' = [held EXCEPT ![c] = IF delivered
                                  THEN [addr |-> l, expiry |-> L[l].ends]
                                  ELSE held[c]]
  BY DEF Ack
<1>2. /\ CacheThreshold > 0 /\ l \notin cannot_reuse /\ l \notin pinging
      /\ L[l].state = ACTIVE /\ L[l].client = c /\ now <= L[l].young
  BY DEF reuse_lease, Acking
<1>3. l \notin B /\ L[l] = lease[l] /\ Short(L[l], now)
  BY <1>2, ReleasedActive
<1>4. \A r \in Records(l) : r = L[l]
  BY <1>2, <1>3 DEF BindingInv, ReuseOnDisk
<1>5. L[l].young \in Nat /\ L[l].ends \in Nat
  BY <1>0 DEF Lease
<1>6. L[l].ends > now /\ Bound(L[l], c, L[l].ends)
  BY <1>0, <1>2, <1>3, <1>5 DEF Short, Bound
<1> HIDE DEF L
<1>7. \A d \in Clients : \/ held'[d] = held[d]
                         \/ /\ d = c
                            /\ held'[d] = [addr |-> l, expiry |-> L[l].ends]
  BY <1>0, <1>1
<1>8. HeldKept(B, L, ok)
  <2> SUFFICES ASSUME NEW d \in Clients, NEW m \in Leases, held'[d].addr = m
               PROVE  /\ m \notin pinging /\ Bound(L[m], d, held'[d].expiry)
                      /\ held'[d] = held[d] \/ \A r \in Records(m) : r = L[m]
    BY DEF HeldKept, L
  <2>1. CASE held'[d] = held[d]
    BY <2>1, BindHeld DEF L
  <2>2. CASE d = c /\ held'[d] = [addr |-> l, expiry |-> L[l].ends]
    <3>1. m = l /\ held'[d].expiry = L[l].ends
      BY <2>2
    <3> QED
      BY <1>2, <1>4, <1>6, <2>2, <3>1
  <2> QED
    BY <1>7, <2>1, <2>2
<1>9. ShortKept(L)
  BY ReleasedActive DEF ShortKept, L
<1>10. ReuseKept(B, L)
  <2>1. \A m \in Leases : L[m].state = ACTIVE => L[m] = lease[m]
    BY ReleasedActive DEF L
  <2>2. lease' = L
    BY DEF L
  <2> QED
    BY <1>2, <2>1, <2>2 DEF ReuseKept
<1>11. OpenKept
  BY <1>6, <1>7 DEF OpenKept
<1>12. Persist(B, L, ok)
  BY DEF L
<1> QED
  BY <1>0, <1>8, <1>9, <1>10, <1>11, <1>12, StepKeepsBindings

(* The lease is given for time t and written.                              *)
LEMMA AckKeepsBindings ==
    ASSUME SteadyTimes, NoBlindReuse, TypeOK, TypeOK', BindingInv,
           up, up' = up, now' = now, pinging' = pinging,
           NEW c \in Clients, NEW l \in Leases, NEW B \in SUBSET Leases,
           BindBefore(c, l, B), NEW t \in LeaseTimes, NEW ok, NEW delivered,
           ~Acking(l),
           lease' = [Released(B) EXCEPT ![l] = ack_lease(Released(B)[l], c, t)],
           Persist(B \cup {l}, lease', ok),
           cannot_reuse' = cannot_reuse \ {l}, Ack(c, l, ok /\ delivered)
    PROVE  BindingInv'
<1> DEFINE L == Released(B)
           a == ack_lease(L[l], c, t)
           S == B \cup {l}
<1>0. /\ L \in [Leases -> Lease] /\ now \in Times /\ l \notin pinging
      /\ held \in [Clients -> [addr : Leases \cup {NoLease}, expiry : Times]]
  BY ReleasedActive DEF TypeOK, Acking
<1>1. L[l] \in Lease
  BY <1>0
<1>2. /\ a \in Lease /\ a.state = ACTIVE /\ a.client = c
      /\ a.ends = now + t /\ a.young < a.ends /\ a.ends > now
  BY <1>0, <1>1, AckType
<1> HIDE DEF a
<1>3. lease'[l] = a /\ \A m \in Leases : m # l => lease'[m] = L[m]
  BY <1>0 DEF a
<1>4. held' = [held EXCEPT ![c] = IF ok /\ delivered
                                  THEN [addr |-> l, expiry |-> a.ends]
                                  ELSE held[c]]
  BY <1>3, ZenonT(30) DEF Ack
<1>5. \A d \in Clients : \/ held'[d] = held[d]
                         \/ /\ d = c /\ ok
                            /\ held'[d] = [addr |-> l, expiry |-> a.ends]
  BY <1>0, <1>4
<1>6. Short(a, now)
  <2>1. \A s \in LeaseTimes : s = t /\ s \in Nat
    BY PoolAssumption DEF SteadyTimes
  <2> QED
    BY <1>0, <1>2, <2>1 DEF Short
<1>7. a.ends \in Nat /\ L[l].ends \in Nat /\ \A d \in Clients : held[d].expiry \in Nat
  BY <1>0, <1>1, <1>2 DEF Lease
<1>8. ASSUME held[c].addr = l PROVE Bound(a, c, held[c].expiry)
  <2>1. Bound(L[l], c, held[c].expiry)
    BY <1>8, BindHeld
  <2>2. Short(L[l], now)
    BY ReleasedActive, Zenon
  <2>3. L[l].ends >= held[c].expiry /\ L[l].ends <= now + t
    BY <2>1, <2>2 DEF Bound, Short
  <2> QED
    BY <1>2, <1>7, <2>3 DEF Bound
<1>9. Bound(a, c, a.ends)
  BY <1>2, <1>7 DEF Bound
<1>10. \A m \in Leases : Short(L[m], now)
                         /\ (L[m].state = ACTIVE => L[m] = lease[m])
  BY ReleasedActive
<1>11. ASSUME NEW d \in Clients, NEW m \in Leases, held[d].addr = m
       PROVE  Bound(L[m], d, held[d].expiry) /\ m \notin pinging /\ (d = c <=> m = l)
  BY <1>11, BindHeld
<1> HIDE DEF L
<1>12. HeldKept(S, lease', ok)
  <2> SUFFICES ASSUME NEW d \in Clients, NEW m \in Leases, held'[d].addr = m
               PROVE  /\ m \notin pinging /\ Bound(lease'[m], d, held'[d].expiry)
                      /\ held'[d] = held[d] \/ (m \in S /\ ok)
    BY DEF HeldKept
  <2>1. CASE held'[d] = held[d] /\ m # l
    <3>1. Bound(L[m], d, held[d].expiry) /\ m \notin pinging
      BY <2>1, <1>11
    <3> QED
      BY <1>3, <2>1, <3>1
  <2>2. CASE held'[d] = held[d] /\ m = l
    <3>1. d = c /\ held[c].addr = l
      BY <1>11, <2>2
    <3> QED
      BY <1>0, <1>3, <1>8, <2>2, <3>1
  <2>3. CASE d = c /\ ok /\ held'[d] = [addr |-> l, expiry |-> a.ends]
    <3>1. m = l /\ held'[d].expiry = a.ends
      BY <2>3
    <3> QED
      BY <1>0, <1>3, <1>9, <2>3, <3>1
  <2> QED
    BY <1>5, <2>1, <2>2, <2>3
<1>13. ShortKept(lease')
  BY <1>3, <1>6, <1>10 DEF ShortKept
<1>14. ReuseKept(S, lease')
  BY <1>3, <1>10 DEF ReuseKept
<1>15. OpenKept
  BY <1>2, <1>5 DEF OpenKept
<1>16. Persist(S, lease', ok) /\ S \in SUBSET Leases /\ lease' \in [Leases -> Lease]
  BY DEF TypeOK
<1> HIDE DEF S
<1> QED
  BY <1>12, <1>13, <1>14, <1>15, <1>16, StepKeepsBindings, ZenonT(30)

LEMMA BindKeepsBindings ==
    ASSUME SteadyTimes, NoBlindReuse, TypeOK, TypeOK', BindingInv,
           up, up' = up, now' = now, pinging' = pinging,
           NEW c \in Clients, NEW l \in Leases, NEW B \in SUBSET Leases,
           NEW t \in LeaseTimes, NEW moot, NEW ok, NEW delivered,
           BindBefore(c, l, B),
           Bind(Released(B), B, c, l, t, moot, ok, delivered)
    PROVE  BindingInv'
<1>1. CASE Acking(l)
  <2>1. /\ lease' = Released(B) /\ Persist(B, Released(B), ok)
        /\ held' = held /\ cannot_reuse' = cannot_reuse
    BY <1>1 DEF Bind
  <2>2. held[c].addr \notin B
    BY BindOutside, Zenon
  <2>3. \A m \in B : lease[m].client = c
    BY Zenon DEF BindBefore
  <2> QED
    BY <2>1, <2>2, <2>3, OnlyReleased
<1>2. CASE ~Acking(l) /\ reuse_lease(Released(B), l, c, moot)
  <2>1. /\ lease' = Released(B) /\ Persist(B, Released(B), ok)
        /\ cannot_reuse' = cannot_reuse \ {l} /\ Ack(c, l, delivered)
    BY <1>2 DEF Bind
  <2> QED
    BY <1>2, <2>1, ReuseKeepsBindings
<1>3. CASE ~Acking(l) /\ ~reuse_lease(Released(B), l, c, moot)
  <2>1. /\ lease' = [Released(B) EXCEPT ![l] = ack_lease(Released(B)[l], c, t)]
        /\ Persist(B \cup {l}, lease', ok)
        /\ cannot_reuse' = cannot_reuse \ {l} /\ Ack(c, l, ok /\ delivered)
    BY <1>3 DEF Bind
  <2> QED
    BY <1>3, <2>1, AckKeepsBindings, ZenonT(60)
<1> QED
  BY <1>1, <1>2, <1>3

-----------------------------------------------------------------------------
(***************************************************************************)
(* The initial states, and one lemma for each kind of step.                *)
(***************************************************************************)
LEMMA InitBindings == Init => BindingInv
<1> SUFFICES ASSUME Init PROVE BindingInv
  OBVIOUS
<1>1. \A c \in Clients, l \in Leases : ~Holds(c, l)
  BY PoolAssumption DEF Init, Holds, Unbound
<1>2. \A l \in Leases : \A r \in Records(l) \cup {lease[l]} : r.state # ACTIVE
  BY DEF Init, Records, NewLease, FREE, ACTIVE
<1>3. /\ \A c \in Clients : held[c] = Unbound
      /\ pinging = {} /\ cannot_reuse = {}
  BY DEF Init
<1>4. HeldIsOpen /\ BindingOnDisk /\ BindingInMemory /\ StoppedIsEmpty
      /\ PingedNotHeld
  BY <1>1, <1>3 DEF HeldIsOpen, BindingOnDisk, BindingInMemory, StoppedIsEmpty,
                    PingedNotHeld
<1>5. ReuseOnDisk /\ NotTooLong
  BY <1>2 DEF ReuseOnDisk, NotTooLong
<1> QED
  BY <1>4, <1>5 DEF BindingInv

(* An offer for l, which nobody else holds, to a client that holds nothing.*)
LEMMA OfferKeeps ==
    ASSUME SteadyTimes, NoBlindReuse, TypeOK, TypeOK', BindingInv,
           up, up', now' = now, held' = held,
           NEW c \in Clients, NEW A \in SUBSET Leases, NEW ok,
           held[c] = Unbound, \A m \in A : lease[m].client = c,
           Persist(A, Released(A), ok), NEW l \in Leases,
           Released(A)[l].client = c \/ Released(A)[l].state # ACTIVE,
           pinging' \in {pinging, pinging \cup {l}},
           \/ /\ lease' = Released(A)
              /\ cannot_reuse' = cannot_reuse \ {l} /\ l \notin cannot_reuse
           \/ /\ lease' = [Released(A) EXCEPT
                              ![l] = offer_lease(Released(A)[l], c)]
              /\ cannot_reuse' = cannot_reuse \cup {l}
    PROVE  BindingInv'
<1> DEFINE L == Released(A)
           o == offer_lease(L[l], c)
<1>0. L \in [Leases -> Lease] /\ now \in Times /\ held[c].addr \notin Leases
  BY ReleasedActive, PoolAssumption DEF TypeOK, Unbound
<1>1. L[l] \in Lease
  BY <1>0
<1>2. /\ o.state = L[l].state /\ o.young < o.ends
      /\ o.ends \in {now + OfferTime, L[l].ends}
  BY <1>0, <1>1, OfferType
<1>3. /\ lease'[l] = L[l] \/ (lease'[l] = o /\ l \in cannot_reuse')
      /\ \A m \in Leases : m # l => lease'[m] = L[m]
  BY <1>0
<1> HIDE DEF o
<1>4. \A m \in Leases : Short(L[m], now)
                        /\ (L[m].state = ACTIVE => L[m] = lease[m])
  BY ReleasedActive
<1>5. ASSUME NEW d \in Clients, NEW m \in Leases, held[d].addr = m
      PROVE  Bound(L[m], d, held[d].expiry) /\ m \notin pinging
  <2>1. held[c].addr \notin A
    BY <1>0
  <2> QED
    BY <1>5, <2>1, ReleasedHeld
<1> HIDE DEF L
<1>6. Short(o, now)
  <2>1. \A t \in LeaseTimes : OfferTime <= t /\ t \in Nat /\ OfferTime \in Nat
    BY PoolAssumption DEF SteadyTimes
  <2>2. \A t \in LeaseTimes : now + OfferTime <= now + t
    BY <1>0, <2>1
  <2> QED
    BY <1>2, <1>4, <2>2, ZenonT(30) DEF Short
<1>7. \A d \in Clients, m \in Leases : held[d].addr = m => m # l
  <2> SUFFICES ASSUME NEW d \in Clients, held[d].addr = l PROVE FALSE
    OBVIOUS
  <2>1. L[l].state = ACTIVE /\ L[l].client = d
    BY <1>5 DEF Bound
  <2>2. d = c
    BY <2>1 DEF L
  <2> QED
    BY <1>0, <2>2
<1>8. HeldKept(A, L, ok)
  BY <1>3, <1>5, <1>7 DEF HeldKept
<1>9. ShortKept(L)
  BY <1>3, <1>4, <1>6 DEF ShortKept
<1>10. ReuseKept(A, L)
  <2>1. \A m \in Leases : m \notin cannot_reuse' => m \notin cannot_reuse
    OBVIOUS
  <2> QED
    BY <1>3, <1>4, <2>1 DEF ReuseKept
<1>11. OpenKept
  BY DEF OpenKept
<1>12. Persist(A, L, ok)
  BY Zenon DEF L
<1> QED
  BY <1>0, <1>8, <1>9, <1>10, <1>11, <1>12, StepKeepsBindings

LEMMA DiscoverKeeps ==
    ASSUME SteadyTimes, NoBlindReuse, TypeOK, TypeOK', BindingInv,
           NEW c \in Clients, NEW u \in Leases \cup {NoLease},
           NEW A \in SUBSET Leases, NEW r \in Leases \cup {NoLease},
           NEW moot, NEW ping, NEW ok, dhcpdiscover(c, u, A, r, moot, ping, ok)
    PROVE  BindingInv'
<1>1. DiscoverEffect(c, A, ok)
  BY DiscoverIs
<1>2. /\ up /\ up' /\ now' = now /\ held' = held /\ held[c] = Unbound
      /\ \A m \in A : lease[m].client = c
      /\ Persist(A, Released(A), ok)
  BY <1>1, Zenon DEF DiscoverEffect
<1>3. CASE lease' = Released(A) /\ UNCHANGED <<cannot_reuse, pinging, timer>>
  <2>1. held[c].addr \notin A /\ cannot_reuse' = cannot_reuse /\ pinging' = pinging
    BY <1>2, <1>3, PoolAssumption DEF Unbound
  <2> QED
    BY <1>2, <1>3, <2>1, OnlyReleased
<1>4. ASSUME NEW l \in Leases,
             Released(A)[l].client = c \/ Released(A)[l].state # ACTIVE,
             pinging' \in {pinging, pinging \cup {l}},
             \/ /\ lease' = Released(A)
                /\ cannot_reuse' = cannot_reuse \ {l} /\ l \notin cannot_reuse
             \/ /\ lease' = [Released(A) EXCEPT
                                ![l] = offer_lease(Released(A)[l], c)]
                /\ cannot_reuse' = cannot_reuse \cup {l}
      PROVE  BindingInv'
  BY <1>2, <1>4, OfferKeeps
<1> QED
  BY <1>1, <1>3, <1>4, Zenon DEF DiscoverEffect

LEMMA SelectingKeeps ==
    ASSUME SteadyTimes, NoBlindReuse, TypeOK, TypeOK', BindingInv,
           NEW c \in Clients, NEW l \in Leases,
           NEW u \in Leases \cup {NoLease}, NEW A \in SUBSET Leases,
           NEW t \in LeaseTimes, NEW moot, NEW ok, NEW delivered,
           Selecting(c, l, u, A, t, moot, ok, delivered)
    PROVE  BindingInv'
<1>1. up /\ held[c] = Unbound /\ pinging' = pinging /\ up' = up /\ now' = now
  BY DEF Selecting
<1>2. PICK B \in SUBSET Leases :
          SelectingEffect(c, l, B, t, moot, ok, delivered)
  BY SelectingIs, ZenonT(30)
<1>3. (\A m \in B : lease[m].client = c) /\ held[c].addr \notin B
  BY <1>1, <1>2, PoolAssumption DEF SelectingEffect, Unbound
<1>4. CASE /\ lease' = Released(B) /\ Persist(B, Released(B), ok)
           /\ UNCHANGED <<cannot_reuse, timer, held>>
  <2>1. cannot_reuse' = cannot_reuse /\ held' = held
    BY <1>4
  <2> QED
    BY <1>1, <1>3, <1>4, <2>1, OnlyReleased
<1>5. CASE /\ IpLease(Released(B), c, l)
           /\ Bind(Released(B), B, c, l, t, moot, ok, delivered)
  <2>1. BindBefore(c, l, B)
    BY <1>1, <1>3, <1>5 DEF BindBefore
  <2> QED
    BY <1>1, <1>5, <2>1, BindKeepsBindings
<1> QED
  BY <1>2, <1>4, <1>5 DEF SelectingEffect

(* A client that renews is never refused: its lease still carries it.      *)
LEMMA RenewingKeeps ==
    ASSUME SteadyTimes, NoBlindReuse, TypeOK, TypeOK', BindingInv,
           NEW c \in Clients, NEW l \in Leases, NEW t \in LeaseTimes,
           NEW moot, NEW ok, NEW delivered,
           Renewing(c, l, t, moot, ok, delivered)
    PROVE  BindingInv'
<1>1. up /\ held[c].addr = l /\ pinging' = pinging /\ up' = up /\ now' = now
  BY DEF Renewing, Holds
<1>2. Bound(lease[l], c, held[c].expiry)
  BY <1>1, HeldFacts
<1>3. IpLease(lease, c, l)
  BY <1>2 DEF IpLease, Bound
<1>4. Released({}) = lease
  BY DEF Released, TypeOK
<1>5. Bind(Released({}), {}, c, l, t, moot, ok, delivered)
  BY <1>3, <1>4 DEF Renewing
<1>6. {} \in SUBSET Leases /\ BindBefore(c, l, {})
  BY <1>1, <1>3, <1>4 DEF BindBefore
<1> QED
  BY <1>1, <1>5, <1>6, BindKeepsBindings

(* When c gives up l, nobody holds l.                                      *)
LEMMA GivenUp ==
    ASSUME TypeOK, BindingInv, NEW c \in Clients, NEW l \in Leases,
           held[c].addr = l, held' = [held EXCEPT ![c] = Unbound]
    PROVE  \A d \in Clients : /\ held'[d] \in {held[d], Unbound}
                              /\ held'[d].addr \notin {l}
<1> SUFFICES ASSUME NEW d \in Clients
             PROVE  held'[d] \in {held[d], Unbound} /\ held'[d].addr # l
  OBVIOUS
<1>0. held \in [Clients -> [addr : Leases \cup {NoLease}, expiry : Times]]
  BY DEF TypeOK
<1>1. CASE d = c
  BY <1>0, <1>1, PoolAssumption DEF Unbound
<1>2. CASE d # c
  <2>1. held[d].addr # l
    BY <1>2, HeldByOne
  <2> QED
    BY <1>0, <1>2, <2>1
<1> QED
  BY <1>1, <1>2

LEMMA ReleaseKeeps ==
    ASSUME NoBlindReuse, TypeOK, TypeOK', BindingInv,
           NEW c \in Clients, NEW l \in Leases, NEW ok, dhcprelease(c, l, ok)
    PROVE  BindingInv'
<1>1. /\ up /\ up' /\ held[c].addr = l /\ held' = [held EXCEPT ![c] = Unbound]
      /\ pinging' \subseteq pinging /\ cannot_reuse' = cannot_reuse /\ now' = now
      /\ \/ lease' = Released({l}) /\ Persist({l}, lease', ok)
         \/ lease' = lease /\ UNCHANGED file
  BY DEF dhcprelease, Holds
<1>2. \A d \in Clients : held'[d] \in {held[d], Unbound} /\ held'[d].addr \notin {l}
  BY <1>1, GivenUp, ZenonT(30)
<1>3. CASE lease' = Released({l}) /\ Persist({l}, lease', ok)
  <2>1. {l} \in SUBSET Leases
    OBVIOUS
  <2>2. /\ \A m \in {l} : Released({l})[m].state # ACTIVE
        /\ \A m \in Leases \ {l} : Released({l})[m] = lease[m]
    BY ReleasedType DEF TypeOK, FREE, ACTIVE
  <2>3. /\ \A m \in {l} : lease'[m].state # ACTIVE
        /\ \A m \in Leases \ {l} : lease'[m] = lease[m]
    BY <1>3, <2>2
  <2> QED
    BY <1>1, <1>2, <1>3, <2>1, <2>3, QuietStep, ZenonT(30)
<1>4. CASE lease' = lease /\ UNCHANGED file
  <2>1. {} \in SUBSET Leases /\ Persist({}, lease', ok)
    BY <1>4 DEF Persist
  <2>2. \A m \in Leases \ {} : lease'[m] = lease[m]
    BY <1>4
  <2>3. /\ \A m \in {} : lease'[m].state # ACTIVE
        /\ \A d \in Clients : held'[d].addr \notin {}
    OBVIOUS
  <2> QED
    BY <1>1, <1>2, <2>1, <2>2, <2>3, QuietStep, ZenonT(30)
<1> QED
  BY <1>1, <1>3, <1>4

LEMMA AbandonKeeps ==
    ASSUME NoBlindReuse, TypeOK, TypeOK', BindingInv, up, up', now' = now,
           NEW l \in Leases, NEW ok, Abandon(l, ok),
           cannot_reuse' = cannot_reuse, pinging' \subseteq pinging,
           \A d \in Clients : /\ held'[d] \in {held[d], Unbound}
                              /\ held'[d].addr \notin {l}
    PROVE  BindingInv'
<1>1. /\ lease' = [lease EXCEPT ![l] = abandon_lease(lease[l])]
      /\ Persist({l}, lease', ok) /\ {l} \in SUBSET Leases
  BY AbandonIs, ZenonT(30)
<1>2. lease \in [Leases -> Lease] /\ now \in Times
  BY DEF TypeOK
<1>3. abandon_lease(lease[l]).state # ACTIVE
  BY <1>2, AbandonType DEF ABANDONED, ACTIVE
<1>4. /\ \A m \in {l} : lease'[m].state # ACTIVE
      /\ \A m \in Leases \ {l} : lease'[m] = lease[m]
  BY <1>1, <1>2, <1>3
<1> QED
  BY <1>1, <1>4, QuietStep, ZenonT(30)

LEMMA DeclineKeeps ==
    ASSUME NoBlindReuse, TypeOK, TypeOK', BindingInv,
           NEW c \in Clients, NEW l \in Leases, NEW ok, dhcpdecline(c, l, ok)
    PROVE  BindingInv'
<1>1. /\ up /\ up' /\ held[c].addr = l /\ held' = [held EXCEPT ![c] = Unbound]
      /\ pinging' \subseteq pinging /\ cannot_reuse' = cannot_reuse /\ now' = now
      /\ Abandon(l, ok)
  BY DEF dhcpdecline, Holds
<1>2. \A d \in Clients : held'[d] \in {held[d], Unbound} /\ held'[d].addr \notin {l}
  BY <1>1, GivenUp, ZenonT(30)
<1> QED
  BY <1>1, <1>2, AbandonKeeps

LEMMA PingedKeeps ==
    ASSUME NoBlindReuse, TypeOK, TypeOK', BindingInv,
           NEW l \in Leases, NEW ok, lease_pinged(l, ok)
    PROVE  BindingInv'
<1>1. /\ up /\ up' /\ held' = held /\ l \in pinging /\ Abandon(l, ok)
      /\ pinging' \subseteq pinging /\ cannot_reuse' = cannot_reuse /\ now' = now
  BY DEF lease_pinged
<1>2. \A d \in Clients : held'[d] \in {held[d], Unbound} /\ held'[d].addr \notin {l}
  BY <1>1, HeldFacts
<1> QED
  BY <1>1, <1>2, AbandonKeeps

LEMMA PingTimeoutKeeps ==
    ASSUME NoBlindReuse, TypeOK, TypeOK', BindingInv,
           NEW l \in Leases, lease_ping_timeout(l)
    PROVE  BindingInv'
<1>1. /\ up /\ up' /\ now' = now /\ held' = held /\ lease' = lease
      /\ cannot_reuse' = cannot_reuse /\ pinging' \subseteq pinging
      /\ UNCHANGED file
  BY DEF lease_ping_timeout
<1>2. {} \in SUBSET Leases /\ Persist({}, lease', TRUE)
  BY <1>1 DEF Persist
<1>3. /\ \A m \in {} : lease'[m].state # ACTIVE
      /\ \A m \in Leases \ {} : lease'[m] = lease[m]
      /\ \A d \in Clients : held'[d] \in {held[d], Unbound} /\ held'[d].addr \notin {}
  BY <1>1
<1> QED
  BY <1>1, <1>2, <1>3, QuietStep, ZenonT(30)

(* A lease that somebody holds has not ended, so it is not due.            *)
LEMMA HeldNotDue ==
    ASSUME TypeOK, BindingInv, NEW L \in [Leases -> Lease], NEW d \in Clients,
           NEW m \in Leases, held[d].addr = m, Bound(L[m], d, held[d].expiry)
    PROVE  m \notin Due(L)
<1>1. L[m].ends >= held[d].expiry /\ held[d].expiry > now
  BY HeldFacts DEF Bound
<1>2. L[m].ends \in Nat /\ held[d].expiry \in Nat /\ now \in Nat
  BY DEF Lease, TypeOK
<1> QED
  BY <1>1, <1>2 DEF Due

LEMMA PoolTimerKeeps ==
    ASSUME NoBlindReuse, TypeOK, TypeOK', BindingInv, NEW ok, pool_timer(ok)
    PROVE  BindingInv'
<1>1. /\ up /\ up' /\ lease' = Expire(lease) /\ Persist(Due(lease), lease', ok)
      /\ cannot_reuse' = cannot_reuse /\ pinging' \subseteq pinging
      /\ held' = held /\ now' = now
  BY DEF pool_timer
<1>2. \A m \in Leases : \/ m \in Due(lease) /\ lease'[m].state = FREE
                        \/ m \notin Due(lease) /\ lease'[m] = lease[m]
  BY <1>1, ExpireType DEF TypeOK
<1>3. Due(lease) \in SUBSET Leases
  BY DEF Due
<1>4. /\ \A m \in Due(lease) : lease'[m].state # ACTIVE
      /\ \A m \in Leases \ Due(lease) : lease'[m] = lease[m]
  BY <1>2, <1>3 DEF FREE, ACTIVE
<1>5. \A d \in Clients : held[d].addr \notin Due(lease)
  <2> SUFFICES ASSUME NEW d \in Clients, NEW m \in Leases, held[d].addr = m
               PROVE  m \notin Due(lease)
    BY <1>3
  <2>1. Bound(lease[m], d, held[d].expiry) /\ lease \in [Leases -> Lease]
    BY <1>1, HeldFacts DEF TypeOK
  <2> QED
    BY <2>1, HeldNotDue
<1>6. \A d \in Clients : /\ held'[d] \in {held[d], Unbound}
                         /\ held'[d].addr \notin Due(lease)
  BY <1>1, <1>5
<1> QED
  BY <1>1, <1>3, <1>4, <1>6, QuietStep

LEMMA CrashKeeps ==
    ASSUME TypeOK, BindingInv, Crash
    PROVE  BindingInv'
<1>1. /\ up' = FALSE /\ pinging' = {} /\ cannot_reuse' = {}
      /\ lease' = [l \in Leases |-> NewLease]
      /\ UNCHANGED <<written, disk, held, now>>
  BY DEF Crash, file
<1>2. \A l \in Leases : lease'[l].state # ACTIVE /\ Records(l)' = Records(l)
  BY <1>1 DEF NewLease, FREE, ACTIVE, Records
<1>3. HeldIsOpen' /\ BindingOnDisk'
  BY <1>1, <1>2 DEF BindingInv, HeldIsOpen, BindingOnDisk, Holds, Backs, Unbound
<1>4. BindingInMemory' /\ ReuseOnDisk'
  BY <1>1 DEF BindingInMemory, ReuseOnDisk
<1>5. NotTooLong'
  <2>1. \A l \in Leases : \A r \in Records(l) : Short(r, now)
    BY ShortFacts
  <2> QED
    BY <1>1, <1>2, <2>1 DEF NotTooLong, Short
<1>6. StoppedIsEmpty' /\ PingedNotHeld'
  BY <1>1 DEF StoppedIsEmpty, PingedNotHeld
<1> QED
  BY <1>3, <1>4, <1>5, <1>6 DEF BindingInv

(* A restart takes any record it can find; all of them back the binding.   *)
LEMMA StartKeeps ==
    ASSUME TypeOK, BindingInv, Start
    PROVE  BindingInv'
<1>1. PICK L \in [Leases -> UNION {disk[l] : l \in Leases}] :
          (\A l \in Leases : L[l] \in disk[l]) /\ Restart(L)
  BY DEF Start
<1>2. L \in [Leases -> Lease] /\ \A l \in Leases : L[l] \in Records(l)
  BY <1>1 DEF Records, TypeOK
<1>3. /\ up' = TRUE /\ lease' = Expire(L) /\ pinging' = {}
      /\ written' = [l \in Leases |-> FileForm(lease'[l])]
      /\ disk' = [l \in Leases |-> {written'[l]}]
      /\ held' = held /\ now' = now
  BY Zenon, <1>1 DEF Restart, BindingInv, StoppedIsEmpty
<1>4. \A m \in Leases : \/ m \in Due(L) /\ lease'[m].state = FREE
                        \/ m \notin Due(L) /\ lease'[m] = L[m]
  BY <1>2, <1>3, ExpireType DEF TypeOK
<1>5. \A m \in Leases : Records(m)' = {FileForm(lease'[m])}
  BY <1>3 DEF Records
<1>6. \A m \in Leases :
          lease'[m].state = ACTIVE \/ FileForm(lease'[m]).state = ACTIVE =>
              FileForm(lease'[m]) = lease'[m]
  BY FileFormIs DEF FREE, ACTIVE, NewLease
<1>7. ASSUME NEW d \in Clients, NEW m \in Leases, held[d].addr = m
      PROVE  /\ Bound(lease'[m], d, held[d].expiry)
             /\ \A r \in Records(m)' : Bound(r, d, held[d].expiry)
  <2>1. Bound(L[m], d, held[d].expiry)
    BY <1>2, <1>7, HeldFacts, ZenonT(30)
  <2>2. m \notin Due(L)
    BY <1>2, <1>7, <2>1, HeldNotDue
  <2>3. lease'[m] = L[m]
    BY <1>4, <2>2
  <2>4. lease'[m].state = ACTIVE
    BY <2>1, <2>3 DEF Bound
  <2> QED
    BY <1>5, <1>6, <2>1, <2>3, <2>4, Zenon
<1>8. HeldIsOpen'
  BY <1>3 DEF BindingInv, HeldIsOpen, Unbound
<1>9. BindingOnDisk' /\ BindingInMemory'
  BY <1>3, <1>7 DEF BindingOnDisk, BindingInMemory, Holds, Backs, Bound
<1>10. ReuseOnDisk'
  BY <1>5, <1>6 DEF ReuseOnDisk
<1>11. NotTooLong'
  <2> SUFFICES ASSUME NEW m \in Leases, NEW r \in Records(m)' \cup {lease'[m]},
                      r.state = ACTIVE
               PROVE  Short(r, now)
    BY <1>3, Zenon DEF NotTooLong, Short
  <2>1. r = lease'[m] /\ lease'[m].state = ACTIVE
    BY <1>5, <1>6
  <2>2. r \in Records(m)
    BY <1>2, <1>4, <2>1 DEF FREE, ACTIVE
  <2> QED
    BY <2>2, ShortFacts
<1>12. StoppedIsEmpty' /\ PingedNotHeld'
  BY <1>3 DEF StoppedIsEmpty, PingedNotHeld
<1> QED
  BY <1>8, <1>9, <1>10, <1>11, <1>12 DEF BindingInv

(* Clients give up their addresses, and time passes.                       *)
LEMMA ClientsKeep ==
    ASSUME TypeOK, BindingInv,
           UNCHANGED <<lease, cannot_reuse, pinging, written, disk, up>>,
           now' \in Nat, now' >= now,
           \A d \in Clients : \/ held'[d] = Unbound
                              \/ held'[d] = held[d] /\ held[d].expiry > now'
                              \/ held'[d] = held[d] /\ now' = now
    PROVE  BindingInv'
<1>1. \A m \in Leases : Records(m)' = Records(m)
  BY Zenon DEF Records
<1>2. ASSUME NEW d \in Clients, NEW m \in Leases, held'[d].addr = m
      PROVE  /\ m \notin pinging
             /\ up => Bound(lease[m], d, held'[d].expiry)
             /\ \A r \in Records(m) : Bound(r, d, held'[d].expiry)
  <2>1. held'[d] = held[d] /\ held[d].addr = m
    BY <1>2, PoolAssumption DEF Unbound
  <2> QED
    BY <2>1, HeldFacts
<1>3. HeldIsOpen'
  BY DEF BindingInv, HeldIsOpen, Unbound
<1>4. BindingOnDisk'
  BY <1>1, <1>2 DEF BindingOnDisk, Holds, Backs, Bound
<1>5. BindingInMemory'
  BY <1>2 DEF BindingInMemory, Holds, Backs, Bound
<1>6. ReuseOnDisk'
  BY <1>1 DEF BindingInv, ReuseOnDisk
<1>7. NotTooLong'
  <2> SUFFICES ASSUME NEW m \in Leases, NEW r \in Records(m)' \cup {lease'[m]},
                      r.state = ACTIVE
               PROVE  r.young < r.ends /\ \A t \in LeaseTimes : r.ends <= now' + t
    BY DEF NotTooLong
  <2>0. r \in Records(m) \cup {lease[m]}
    BY <1>1
  <2>1. r \in Lease /\ now \in Nat
    BY <2>0 DEF Records, TypeOK
  <2>2. r.ends \in Nat /\ \A t \in LeaseTimes : t \in Nat
    BY <2>1, PoolAssumption DEF Lease
  <2>3. r.young < r.ends /\ \A t \in LeaseTimes : r.ends <= now + t
    BY <2>0, ShortFacts DEF Short
  <2> QED
    BY <2>1, <2>2, <2>3
<1>8. StoppedIsEmpty' /\ PingedNotHeld'
  <2>1. pinging \subseteq Leases
    BY DEF TypeOK
  <2> QED
    BY <1>2, <2>1 DEF BindingInv, StoppedIsEmpty, PingedNotHeld, Holds
<1> QED
  BY <1>3, <1>4, <1>5, <1>6, <1>7, <1>8 DEF BindingInv

LEMMA GiveUpKeeps ==
    ASSUME TypeOK, BindingInv, NEW c \in Clients, GiveUp(c)
    PROVE  BindingInv'
<1>1. /\ held' = [held EXCEPT ![c] = Unbound] /\ now' = now
      /\ UNCHANGED <<lease, cannot_reuse, pinging, written, disk, up>>
  BY DEF GiveUp, mem, file
<1>2. \A d \in Clients : held'[d] = Unbound \/ held'[d] = held[d]
  BY <1>1 DEF TypeOK
<1>3. now' \in Nat /\ now' >= now
  BY <1>1 DEF TypeOK
<1> QED
  BY <1>1, <1>2, <1>3, ClientsKeep

LEMMA TickKeeps ==
    ASSUME TypeOK, BindingInv, Tick
    PROVE  BindingInv'
<1>1. /\ now' = now + 1
      /\ held' = [c \in Clients |-> IF held[c].expiry <= now' THEN Unbound
                                                              ELSE held[c]]
      /\ UNCHANGED <<lease, cannot_reuse, pinging, written, disk, up>>
  BY DEF Tick, mem, file
<1>2. now \in Nat /\ \A d \in Clients : held[d].expiry \in Nat
  BY DEF TypeOK
<1>3. \A d \in Clients : \/ held'[d] = Unbound
                         \/ held'[d] = held[d] /\ held[d].expiry > now'
  BY <1>1, <1>2
<1>4. now' \in Nat /\ now' >= now
  BY <1>1, <1>2
<1> QED
  BY <1>1, <1>3, <1>4, ClientsKeep

LEMMA NextBindings ==
    ASSUME SteadyTimes, NoBlindReuse, TypeOK, TypeOK', BindingInv, [Next]_vars
    PROVE  BindingInv'
<1>1. ASSUME NEW c \in Clients, Serve(c) PROVE BindingInv'
  BY <1>1, DiscoverKeeps, SelectingKeeps, RenewingKeeps, ReleaseKeeps,
     DeclineKeeps, ZenonT(60) DEF Serve
<1>2. ASSUME NEW c \in Clients, GiveUp(c) PROVE BindingInv'
  BY <1>2, GiveUpKeeps, Zenon
<1>3. ASSUME NEW l \in Leases, NEW ok, lease_pinged(l, ok) PROVE BindingInv'
  BY <1>3, PingedKeeps
<1>4. ASSUME NEW l \in Leases, lease_ping_timeout(l) PROVE BindingInv'
  BY <1>4, PingTimeoutKeeps
<1>5. CASE PoolTimer
  BY <1>5, PoolTimerKeeps DEF PoolTimer
<1>6. CASE Crash
  BY <1>6, CrashKeeps
<1>7. CASE Start
  BY <1>7, StartKeeps, Zenon
<1>8. CASE Tick
  BY <1>8, TickKeeps
<1>9. CASE UNCHANGED vars
  <2>1. /\ UNCHANGED <<lease, cannot_reuse, pinging, written, disk, up>>
        /\ now' \in Nat /\ now' >= now
        /\ \A d \in Clients : held'[d] = held[d] /\ now' = now
    BY <1>9 DEF vars, TypeOK
  <2> QED
    BY <2>1, ClientsKeep, Zenon
<1> QED
  BY <1>1, <1>2, <1>3, <1>4, <1>5, <1>6, <1>7, <1>8, <1>9 DEF Next

(***************************************************************************)
(* Every record of an address in use, in memory, in the lease file and in  *)
(* what a crash leaves of it, is active, names the client that uses the    *)
(* address and lasts as long as the client believes.                       *)
(***************************************************************************)
THEOREM BindingsHold ==
    ASSUME SteadyTimes, NoBlindReuse
    PROVE  Spec => []BindingInv
<1>1. TypeOK /\ TypeOK' /\ BindingInv /\ [Next]_vars => BindingInv'
  BY NextBindings
<1> QED
  BY InitType, InitBindings, NextType, <1>1, PTL DEF Spec

(* dhcpd.8: dhcpd "will not forget about a lease that it has assigned".    *)
THEOREM BindingsOnDisk ==
    ASSUME SteadyTimes, NoBlindReuse
    PROVE  Spec => []BindingOnDisk
<1>1. BindingInv => BindingOnDisk
  BY DEF BindingInv
<1> QED
  BY BindingsHold, <1>1, PTL

(* No address is ever in use by two clients: find_lease(), the expiry      *)
(* timer, the ping and a restart all respect the binding on disk.          *)
THEOREM NoAddressTwice ==
    ASSUME SteadyTimes, NoBlindReuse
    PROVE  Spec => []NoDoubleBinding
<1>1. TypeOK /\ BindingInv => NoDoubleBinding
  BY HeldByOne DEF NoDoubleBinding, Holds
<1> QED
  BY BindingsHold, TypeCorrect, <1>1, PTL

(* The lease of an address in use is active in memory, for its client and  *)
(* for as long as the client believes: neither the timer nor a release     *)
(* takes it away early.                                                    *)
THEOREM BindingsInMemory ==
    ASSUME SteadyTimes, NoBlindReuse
    PROVE  Spec => []BindingInMemory
<1>1. BindingInv => BindingInMemory
  BY DEF BindingInv
<1> QED
  BY BindingsHold, <1>1, PTL

(* lease_pinged() never abandons an address that is in use.                *)
THEOREM PingsSpareHolders ==
    ASSUME SteadyTimes, NoBlindReuse
    PROVE  Spec => []PingedNotHeld
<1>1. BindingInv => PingedNotHeld
  BY DEF BindingInv
<1> QED
  BY BindingsHold, <1>1, PTL

-----------------------------------------------------------------------------
(***************************************************************************)
(* The timeout of the pool.  next_event_time and the timeout really set    *)
(* agree, so a test of the one in supersede_lease() is a test of the other.*)
(***************************************************************************)
TimerInv ==
    /\ timer.next = timer.armed
    /\ ~up => timer.next = MIN_TIME
    /\ TimerCovers

Covered(L, tm) ==
    \A m \in Leases : L[m].next # L[m].state =>
                          tm.armed # MIN_TIME /\ tm.armed <= L[m].ends

(* supersede_lease() keeps every event covered when it moves the timeout.  *)
LEMMA ArmCovers ==
    ASSUME NEW L, L \in [Leases -> Lease], NEW l \in Leases, now \in Times,
           timer \in [next : Times, armed : Times],
           timer.next = timer.armed, L[l].ends > now,
           \A m \in Leases \ {l} : L[m].next # L[m].state =>
                timer.armed # MIN_TIME /\ timer.armed <= L[m].ends
    PROVE  /\ ArmTimer(L, l).next = ArmTimer(L, l).armed
           /\ Covered(L, ArmTimer(L, l))
<1>1. \A m \in Leases : L[m].ends \in Nat
  BY DEF Lease
<1>2. CASE timer.next = MIN_TIME \/ L[l].ends < timer.next
  <2>1. ArmTimer(L, l) = [next |-> L[l].ends, armed |-> L[l].ends]
    BY <1>2 DEF ArmTimer
  <2> QED
    BY <1>1, <1>2, <2>1 DEF Covered
<1>3. CASE ~(timer.next = MIN_TIME \/ L[l].ends < timer.next)
  <2>1. ArmTimer(L, l) = timer
    BY <1>3 DEF ArmTimer
  <2> QED
    BY <1>1, <1>3, <2>1 DEF Covered
<1> QED
  BY <1>2, <1>3

(* pool_timer() covers every event it leaves, when its timeout is due.     *)
LEMMA RearmCovers ==
    ASSUME NEW L, L \in [Leases -> Lease], now \in Times,
           NEW tm \in [next : Times, armed : Times],
           tm.next <= now, tm.armed = MIN_TIME
    PROVE  /\ Rearm(Expire(L), tm).next = Rearm(Expire(L), tm).armed
           /\ Covered(Expire(L), Rearm(Expire(L), tm))
<1> DEFINE E == Expire(L)
           R == Rearm(E, tm)
<1> SUFFICES R.next = R.armed /\ Covered(E, R)
  OBVIOUS
<1>1. E \in [Leases -> Lease]
  BY ExpireType
<1>2. ASSUME NEW m \in Leases, E[m].next # E[m].state
      PROVE  E[m].ends > now
  <2>1. E[m].next = FREE /\ L[m].ends \in Nat
    BY <1>1 DEF Lease
  <2>2. m \notin Due(L) /\ E[m] = L[m]
    BY <1>2, <2>1, ExpireType
  <2> QED
    BY <1>2, <2>1, <2>2 DEF Due
<1>r. \/ R = [tm EXCEPT !.next = MIN_TIME] /\ \A l \in Leases : E[l].ends <= now
      \/ \E l \in Leases :
            /\ E[l].ends > now
            /\ \A m \in Leases : E[m].ends > now => E[l].ends <= E[m].ends
            /\ R = [next |-> E[l].ends, armed |-> E[l].ends]
  <2>1. ~(tm.next > now)
    OBVIOUS
  <2> QED
    BY <1>1, <2>1, RearmIs
<1> HIDE DEF E, R
<1>3. \A m \in Leases : E[m].ends \in Nat
  BY <1>1 DEF Lease
<1>4. CASE R = [tm EXCEPT !.next = MIN_TIME] /\ \A l \in Leases : E[l].ends <= now
  <2>1. \A m \in Leases : ~(E[m].next # E[m].state)
    BY <1>2, <1>3, <1>4
  <2> QED
    BY <1>4, <2>1 DEF Covered
<1>5. ASSUME NEW l \in Leases, E[l].ends > now,
             \A m \in Leases : E[m].ends > now => E[l].ends <= E[m].ends,
             R = [next |-> E[l].ends, armed |-> E[l].ends]
      PROVE  R.next = R.armed /\ Covered(E, R)
  BY <1>2, <1>3, <1>5 DEF Covered
<1> QED
  BY <1>r, <1>4, <1>5

LEMMA NextTimer ==
    ASSUME TypeOK, TypeOK', TimerInv, [Next]_vars
    PROVE  TimerInv'
<1>0. /\ lease \in [Leases -> Lease] /\ lease' \in [Leases -> Lease]
      /\ timer \in [next : Times, armed : Times] /\ now \in Times
  BY DEF TypeOK
<1>1. timer.next = timer.armed /\ (up => Covered(lease, timer))
  BY DEF TimerInv, TimerCovers, Covered
<1>2. ASSUME up', timer'.next = timer'.armed, Covered(lease', timer')
      PROVE  TimerInv'
  BY <1>2 DEF TimerInv, TimerCovers, Covered
<1>r. ASSUME up, NEW S \in SUBSET Leases PROVE Covered(Released(S), timer)
  <2>1. \A m \in Leases : /\ Released(S)[m].next = FREE
                          /\ m \in S => Released(S)[m].state = FREE
                          /\ m \notin S => Released(S)[m] = lease[m]
    BY <1>0, ReleasedType DEF Lease
  <2> QED
    BY <1>1, <1>r, <2>1 DEF Covered
<1>a. ASSUME up, up', now' = now, NEW L, L \in [Leases -> Lease],
             Covered(L, timer), NEW l \in Leases, NEW x,
             lease' = [L EXCEPT ![l] = x], x.ends > now,
             timer' = ArmTimer(lease', l)
      PROVE  TimerInv'
  <2>1. lease'[l].ends > now /\ \A m \in Leases \ {l} : lease'[m] = L[m]
    BY <1>0, <1>a
  <2>2. \A m \in Leases \ {l} : lease'[m].next # lease'[m].state =>
            timer.armed # MIN_TIME /\ timer.armed <= lease'[m].ends
    BY <1>a, <2>1 DEF Covered
  <2>3. /\ ArmTimer(lease', l).next = ArmTimer(lease', l).armed
        /\ Covered(lease', ArmTimer(lease', l))
    BY <1>0, <1>1, <2>1, <2>2, ArmCovers
  <2>4. timer'.next = timer'.armed /\ Covered(lease', timer')
    BY <1>a, <2>3
  <2> QED
    BY <1>2, <1>a, <2>4
<1>b. ASSUME up, up' = up, now' = now, NEW c \in Clients, NEW l \in Leases,
             NEW B \in SUBSET Leases, NEW t \in LeaseTimes, NEW moot, NEW ok,
             NEW delivered, Bind(Released(B), B, c, l, t, moot, ok, delivered)
      PROVE  TimerInv'
  <2>1. Covered(Released(B), timer) /\ Released(B) \in [Leases -> Lease]
    BY <1>0, <1>b, <1>r, ReleasedType
  <2>2. CASE lease' = Released(B) /\ timer' = timer
    BY <1>1, <1>2, <1>b, <2>1, <2>2
  <2>3. CASE /\ lease' = [Released(B) EXCEPT ![l] = ack_lease(Released(B)[l], c, t)]
             /\ timer' = ArmTimer(lease', l)
    <3>1. ack_lease(Released(B)[l], c, t).ends > now
      BY <1>0, <2>1, AckType
    <3> QED
      BY <1>a, <1>b, <2>1, <2>3, <3>1, Zenon
  <2> QED
    BY <1>b, <2>2, <2>3, Zenon DEF Bind
<1>3. ASSUME NEW c \in Clients, NEW u \in Leases \cup {NoLease},
             NEW A \in SUBSET Leases, NEW r \in Leases \cup {NoLease},
             NEW moot, NEW ping, NEW ok,
             dhcpdiscover(c, u, A, r, moot, ping, ok)
      PROVE  TimerInv'
  <2> DEFINE L == Released(A)
  <2>1. DiscoverEffect(c, A, ok)
    BY <1>3, DiscoverIs
  <2>2. up /\ up' /\ now' = now
    BY <2>1 DEF DiscoverEffect
  <2>3. L \in [Leases -> Lease] /\ Covered(L, timer)
    BY <1>0, <1>r, <2>2, ReleasedType
  <2> HIDE DEF L
  <2>4. CASE lease' = L /\ timer' = timer
    BY <1>1, <1>2, <2>2, <2>3, <2>4
  <2>5. ASSUME NEW l \in Leases, timer' = ArmTimer(lease', l),
               lease' = [L EXCEPT ![l] = offer_lease(L[l], c)]
        PROVE  TimerInv'
    <3>1. offer_lease(L[l], c).ends > now
      BY <1>0, <2>3, OfferType
    <3> QED
      BY <1>a, <2>2, <2>3, <2>5, <3>1, Zenon
  <2> QED
    BY <2>1, <2>4, <2>5 DEF DiscoverEffect, L
<1>4. ASSUME NEW c \in Clients, NEW l \in Leases,
             NEW u \in Leases \cup {NoLease}, NEW A \in SUBSET Leases,
             NEW t \in LeaseTimes, NEW moot, NEW ok, NEW delivered,
             Selecting(c, l, u, A, t, moot, ok, delivered)
      PROVE  TimerInv'
  <2>1. up /\ up' = up /\ now' = now
    BY <1>4 DEF Selecting
  <2>2. PICK B \in SUBSET Leases :
            SelectingEffect(c, l, B, t, moot, ok, delivered)
    BY <1>4, SelectingIs
  <2>3. CASE lease' = Released(B) /\ timer' = timer
    BY <1>1, <1>2, <1>r, <2>1, <2>3
  <2>4. CASE Bind(Released(B), B, c, l, t, moot, ok, delivered)
    BY <1>b, <2>1, <2>4
  <2> QED
    BY <2>2, <2>3, <2>4 DEF SelectingEffect
<1>5. ASSUME NEW c \in Clients, NEW l \in Leases, NEW t \in LeaseTimes,
             NEW moot, NEW ok, NEW delivered,
             Renewing(c, l, t, moot, ok, delivered)
      PROVE  TimerInv'
  <2>1. up /\ up' = up /\ now' = now
    BY <1>5, Zenon DEF Renewing
  <2>2. Released({}) = lease /\ {} \in SUBSET Leases
    BY <1>0, Zenon DEF Released
  <2>3. CASE Bind(lease, {}, c, l, t, moot, ok, delivered)
    BY <1>b, <2>1, <2>2, <2>3, Zenon
  <2>4. CASE lease' = lease /\ timer' = timer
    BY <1>1, <1>2, <2>1, <2>4, Zenon
  <2> QED
    BY <1>5, <2>3, <2>4 DEF Renewing
<1>6. ASSUME NEW c \in Clients, NEW l \in Leases, NEW ok,
             dhcprelease(c, l, ok)
      PROVE  TimerInv'
  <2>1. /\ up /\ up' /\ timer' = timer
        /\ lease' = Released({l}) \/ lease' = lease
    BY <1>6, Zenon DEF dhcprelease
  <2> QED
    BY <1>1, <1>2, <1>r, <2>1, Zenon
<1>7. ASSUME NEW l \in Leases, NEW ok, Abandon(l, ok), up, up', now' = now
      PROVE  TimerInv'
  <2>1. /\ lease' = [lease EXCEPT ![l] = abandon_lease(lease[l])]
        /\ timer' = ArmTimer(lease', l)
    BY <1>7, AbandonIs, Zenon
  <2>2. abandon_lease(lease[l]).ends > now
    BY <1>0, AbandonType
  <2> QED
    BY <1>0, <1>1, <1>a, <1>7, <2>1, <2>2, Zenon
<1>8. ASSUME NEW c \in Clients, NEW l \in Leases, NEW ok, dhcpdecline(c, l, ok)
      PROVE  TimerInv'
  BY <1>7, <1>8 DEF dhcpdecline
<1>9. ASSUME NEW l \in Leases, NEW ok, lease_pinged(l, ok)
      PROVE  TimerInv'
  BY <1>7, <1>9 DEF lease_pinged
<1>10. ASSUME NEW ok, pool_timer(ok)
       PROVE  TimerInv'
  <2> DEFINE tm == [timer EXCEPT !.armed = MIN_TIME]
  <2>1. /\ up /\ up' /\ timer.armed <= now /\ lease' = Expire(lease)
        /\ timer' = Rearm(Expire(lease), tm)
    BY <1>10 DEF pool_timer
  <2>2. /\ tm \in [next : Times, armed : Times]
        /\ tm.next <= now /\ tm.armed = MIN_TIME
    BY <1>0, <1>1, <2>1
  <2> HIDE DEF tm
  <2>3. timer'.next = timer'.armed /\ Covered(lease', timer')
    BY <1>0, <2>1, <2>2, RearmCovers
  <2> QED
    BY <1>2, <2>1, <2>3
<1>11. CASE Crash
  <2>1. up' = FALSE /\ timer' = [next |-> MIN_TIME, armed |-> MIN_TIME]
    BY <1>11, Zenon DEF Crash
  <2> QED
    BY <2>1, Zenon DEF TimerInv, TimerCovers
<1>12. CASE Start
  <2>1. PICK L \in [Leases -> UNION {disk[l] : l \in Leases}] :
            (\A l \in Leases : L[l] \in disk[l]) /\ Restart(L)
    BY <1>12, Zenon DEF Start
  <2>2. L \in [Leases -> Lease]
    BY <2>1, Zenon DEF TypeOK
  <2>3. /\ ~up /\ up' /\ lease' = Expire(L) /\ timer' = Rearm(Expire(L), timer)
    BY <2>1, Zenon DEF Restart
  <2>4. timer.next <= now /\ timer.armed = MIN_TIME
    BY <1>0, <1>1, <2>3 DEF TimerInv
  <2>5. timer'.next = timer'.armed /\ Covered(lease', timer')
    BY <1>0, <2>2, <2>3, <2>4, RearmCovers
  <2> QED
    BY <1>2, <2>3, <2>5, Zenon
<1>13. CASE UNCHANGED <<lease, timer, up>>
  BY <1>13 DEF TimerInv, TimerCovers
<1>14. \/ \E l \in Leases : lease_ping_timeout(l)
       \/ \E c \in Clients : GiveUp(c)
       \/ Tick
       \/ UNCHANGED vars
       => UNCHANGED <<lease, timer, up>>
  BY DEF lease_ping_timeout, GiveUp, Tick, vars, mem
<1> QED
  BY <1>3, <1>4, <1>5, <1>6, <1>8, <1>9, <1>10, <1>11, <1>12, <1>13, <1>14, Zenon
     DEF Next, Serve, PoolTimer

(* No expiry is forgotten: whatever the handlers, the timer and a restart  *)
(* do, the pool's timeout is set for the earliest event or before it.      *)
THEOREM TimerAlwaysCovers == Spec => []TimerCovers
<1>1. Init => TimerInv
  BY DEF Init, TimerInv, TimerCovers, NewLease
<1>2. TypeOK /\ TypeOK' /\ TimerInv /\ [Next]_vars => TimerInv'
  BY NextTimer
<1>3. TimerInv => TimerCovers
  BY DEF TimerInv
<1> QED
  BY InitType, NextType, <1>1, <1>2, <1>3, PTL DEF Spec

-----------------------------------------------------------------------------
(***************************************************************************)
(* free_leases.                                                            *)
(***************************************************************************)

(* lease_enqueue() moves the counter by as much as the queue grows.        *)
LEMMA CountedStep ==
    ASSUME TypeOK, up, FreeLeasesNotOver, free_leases' = CountFree(lease')
    PROVE  FreeLeasesNotOver'
<1> DEFINE before == Cardinality(Queue(lease, FREE))
           after  == Cardinality(Queue(lease', FREE))
<1>1. before \in Nat /\ after \in Nat /\ free_leases \in Int
  BY QueueFinite DEF TypeOK
<1>2. free_leases <= before
  BY DEF FreeLeasesNotOver
<1>3. free_leases' = free_leases + after - before
  BY DEF CountFree
<1> HIDE DEF before, after
<1>4. free_leases' <= after
  BY <1>1, <1>2, <1>3
<1> QED
  BY <1>4 DEF FreeLeasesNotOver, after

(* expire_all_pools() counts some of the free leases.                      *)
LEMMA RestartCounts ==
    ASSUME NEW L, Restart(L)
    PROVE  FreeLeasesNotOver'
<1> DEFINE Q == Queue(lease', FREE)
           P == {l \in Q : lease'[l].ends <= now}
<1>1. IsFiniteSet(Q) /\ P \subseteq Q
  BY QueueFinite, Zenon
<1>2. Cardinality(P) <= Cardinality(Q)
  BY <1>1, FS_Subset, Zenon
<1>3. free_leases' = Cardinality(P)
  BY DEF Restart
<1> HIDE DEF P
<1> QED
  BY <1>2, <1>3 DEF FreeLeasesNotOver

LEMMA NextCounts ==
    ASSUME TypeOK, FreeLeasesNotOver, [Next]_vars
    PROVE  FreeLeasesNotOver'
<1>1. ASSUME NEW c \in Clients, Serve(c) PROVE FreeLeasesNotOver'
  <2>1. ASSUME NEW l, NEW ok, dhcpdecline(c, l, ok) PROVE up /\ free_leases' = CountFree(lease')
    BY <2>1, Zenon DEF dhcpdecline, Abandon
  <2>2. ASSUME NEW l, NEW ok, dhcprelease(c, l, ok) PROVE up /\ free_leases' = CountFree(lease')
    BY <2>2 DEF dhcprelease
  <2>3. ASSUME NEW l, NEW t, NEW moot, NEW ok, NEW delivered, Renewing(c, l, t, moot, ok, delivered)
        PROVE  up /\ free_leases' = CountFree(lease')
    BY <2>3, Zenon DEF Renewing
  <2>4. ASSUME NEW l, NEW u, NEW A, NEW t, NEW moot, NEW ok, NEW delivered,
               Selecting(c, l, u, A, t, moot, ok, delivered)
        PROVE  up /\ free_leases' = CountFree(lease')
    BY <2>4, Zenon DEF Selecting
  <2>5. ASSUME NEW u, NEW A, NEW r, NEW moot, NEW ping, NEW ok,
               dhcpdiscover(c, u, A, r, moot, ping, ok)
        PROVE  up /\ free_leases' = CountFree(lease')
    BY <2>5, Zenon DEF dhcpdiscover
  <2>6. up /\ free_leases' = CountFree(lease')
    BY <1>1, <2>1, <2>2, <2>3, <2>4, <2>5 DEF Serve
  <2> QED
    BY <2>6, CountedStep
<1>2. ASSUME NEW l \in Leases, NEW ok, lease_pinged(l, ok) PROVE FreeLeasesNotOver'
  BY <1>2, CountedStep DEF lease_pinged, Abandon
<1>3. CASE PoolTimer
  BY <1>3, CountedStep DEF PoolTimer, pool_timer
<1>4. CASE Crash
  BY <1>4 DEF Crash, FreeLeasesNotOver
<1>5. CASE Start
  BY <1>5, RestartCounts DEF Start
<1>6. CASE UNCHANGED <<lease, free_leases, up>>
  BY <1>6 DEF FreeLeasesNotOver, Queue
<1>7. \/ \E l \in Leases : lease_ping_timeout(l)
      \/ \E c \in Clients : GiveUp(c)
      \/ Tick
      \/ UNCHANGED vars
      => UNCHANGED <<lease, free_leases, up>>
  BY DEF lease_ping_timeout, GiveUp, Tick, vars, mem
<1> QED
  BY <1>1, <1>2, <1>3, <1>4, <1>5, <1>6, <1>7 DEF Next

(* free_leases, by which dhcpd warns and balances, never exceeds the       *)
(* number of free leases, for any pool: increments and decrements of the   *)
(* handlers and the recount of a restart agree.                            *)
THEOREM FreeNeverOver == Spec => []FreeLeasesNotOver
<1>1. Init => FreeLeasesNotOver
  <2> SUFFICES ASSUME Init PROVE FreeLeasesNotOver
    OBVIOUS
  <2>1. Queue(lease, FREE) = Leases /\ free_leases = Cardinality(Leases)
    BY DEF Init, Queue, NewLease
  <2>2. Cardinality(Leases) \in Nat
    BY PoolAssumption, FS_CardinalityType
  <2> QED
    BY <2>1, <2>2 DEF FreeLeasesNotOver
<1>2. TypeOK /\ FreeLeasesNotOver /\ [Next]_vars => FreeLeasesNotOver'
  BY NextCounts, Zenon
<1> QED
  BY InitType, NextType, <1>1, <1>2, PTL DEF Spec

-----------------------------------------------------------------------------
(***************************************************************************)
(* The client of an active lease.                                          *)
(***************************************************************************)
Kept(L) == \A l \in Leases : lease[l].state = ACTIVE /\ L[l].state = ACTIVE
                                  => L[l].client = lease[l].client

(* Only a lease of its own or one that is not active is given to a client. *)
LEMMA GivenKept ==
    ASSUME TypeOK, NEW B \in SUBSET Leases, NEW c, NEW l \in Leases, NEW x,
           \/ Released(B)[l].client = c
           \/ Released(B)[l].state # ACTIVE /\ x.state # ACTIVE
           \/ Released(B)[l].state = FREE /\ (l \in B => lease[l].client = c),
           x.client = c
    PROVE  Kept([Released(B) EXCEPT ![l] = x])
<1> DEFINE L == Released(B)
<1>1. /\ L \in [Leases -> Lease]
      /\ \A m \in Leases : /\ L[m].client = lease[m].client
                           /\ m \notin B => L[m] = lease[m]
  BY ReleasedType, Zenon DEF TypeOK
<1> DEFINE M == [L EXCEPT ![l] = x]
<1>2. M[l] = x /\ \A m \in Leases \ {l} : M[m] = L[m]
  BY <1>1, Zenon
<1>3. \/ L[l].client = c
      \/ L[l].state # ACTIVE /\ x.state # ACTIVE
      \/ L[l].state = FREE /\ (l \in B => lease[l].client = c)
  BY Zenon
<1> SUFFICES Kept(M)
  BY Zenon
<1> HIDE DEF L, M
<1>4. ASSUME lease[l].state = ACTIVE, x.state = ACTIVE PROVE lease[l].client = c
  BY <1>1, <1>3, <1>4, Zenon DEF FREE, ACTIVE
<1>5. ASSUME NEW m \in Leases, lease[m].state = ACTIVE, M[m].state = ACTIVE
      PROVE  M[m].client = lease[m].client
  <2>1. CASE m = l
    BY <1>2, <1>4, <1>5, <2>1, Zenon
  <2>2. CASE m # l
    BY <1>1, <1>2, <2>2, Zenon
  <2> QED
    BY <2>1, <2>2, Zenon
<1> QED
  BY <1>5, Zenon DEF Kept

LEMMA NextKeepsClient ==
    ASSUME TypeOK, Next, up, up'
    PROVE  Kept(lease')
<1>0. lease \in [Leases -> Lease] /\ now \in Times
  BY Zenon DEF TypeOK
<1>r. ASSUME NEW S \in SUBSET Leases PROVE Kept(Released(S))
  BY <1>0, ReleasedType DEF Kept
<1>b. ASSUME NEW c \in Clients, NEW l \in Leases, NEW B \in SUBSET Leases,
             NEW t \in LeaseTimes, NEW moot, NEW ok, NEW delivered,
             \A m \in B : lease[m].client = c,
             IpLease(Released(B), c, l),
             Bind(Released(B), B, c, l, t, moot, ok, delivered)
      PROVE  Kept(lease')
  <2>1. Released(B)[l] \in Lease
    BY <1>0, ReleasedType
  <2>2. CASE lease' = Released(B)
    BY <1>r, <2>2
  <2>3. CASE lease' = [Released(B) EXCEPT ![l] = ack_lease(Released(B)[l], c, t)]
    <3>1. ack_lease(Released(B)[l], c, t).client = c
      BY <1>0, <2>1, AckType
    <3>2. \/ Released(B)[l].client = c
          \/ Released(B)[l].state = FREE /\ (l \in B => lease[l].client = c)
      BY <1>b DEF IpLease
    <3> QED
      BY <2>3, <3>1, <3>2, GivenKept, Zenon
  <2> QED
    BY <1>b, <2>2, <2>3, Zenon DEF Bind
<1>1. ASSUME NEW c \in Clients, NEW u \in Leases \cup {NoLease},
             NEW A \in SUBSET Leases, NEW r \in Leases \cup {NoLease},
             NEW moot, NEW ping, NEW ok,
             dhcpdiscover(c, u, A, r, moot, ping, ok)
      PROVE  Kept(lease')
  <2>1. DiscoverEffect(c, A, ok)
    BY <1>1, DiscoverIs, Zenon
  <2>2. ASSUME NEW l \in Leases,
               Released(A)[l].client = c \/ Released(A)[l].state # ACTIVE,
               lease' = [Released(A) EXCEPT ![l] = offer_lease(Released(A)[l], c)]
        PROVE  Kept(lease')
    <3>1. Released(A)[l] \in Lease
      BY <1>0, ReleasedType
    <3>2. /\ offer_lease(Released(A)[l], c).client = c
          /\ offer_lease(Released(A)[l], c).state = Released(A)[l].state
      BY <1>0, <3>1, OfferType
    <3> QED
      BY <2>2, <3>2, GivenKept, Zenon
  <2> QED
    BY <1>r, <2>1, <2>2, Zenon DEF DiscoverEffect
<1>2. ASSUME NEW c \in Clients, NEW l \in Leases,
             NEW u \in Leases \cup {NoLease}, NEW A \in SUBSET Leases,
             NEW t \in LeaseTimes, NEW moot, NEW ok, NEW delivered,
             Selecting(c, l, u, A, t, moot, ok, delivered)
      PROVE  Kept(lease')
  <2>1. PICK B \in SUBSET Leases :
            SelectingEffect(c, l, B, t, moot, ok, delivered)
    BY <1>2, SelectingIs, Zenon
  <2> QED
    BY <1>b, <1>r, <2>1, Zenon DEF SelectingEffect
<1>3. ASSUME NEW c \in Clients, NEW l \in Leases, NEW t \in LeaseTimes,
             NEW moot, NEW ok, NEW delivered,
             Renewing(c, l, t, moot, ok, delivered)
      PROVE  Kept(lease')
  <2>1. Released({}) = lease /\ {} \in SUBSET Leases
    BY <1>0, Zenon DEF Released
  <2>2. CASE lease' = lease
    BY <2>2, Zenon DEF Kept
  <2>3. CASE IpLease(lease, c, l) /\ Bind(lease, {}, c, l, t, moot, ok, delivered)
    BY <1>b, <2>1, <2>3, Zenon
  <2> QED
    BY <1>3, <2>2, <2>3, Zenon DEF Renewing
<1>4. ASSUME NEW c \in Clients, NEW l \in Leases, NEW ok, dhcprelease(c, l, ok)
      PROVE  Kept(lease')
  <2>1. lease' = Released({l}) \/ lease' = lease
    BY <1>4, Zenon DEF dhcprelease
  <2> QED
    BY <1>r, <2>1 DEF Kept
<1>5. ASSUME NEW l \in Leases, NEW ok, Abandon(l, ok)
      PROVE  Kept(lease')
  <2>1. lease' = [lease EXCEPT ![l] = abandon_lease(lease[l])]
    BY <1>5, Zenon DEF Abandon
  <2>2. abandon_lease(lease[l]).state = ABANDONED
    BY <1>0, AbandonType, Zenon
  <2> QED
    BY <1>0, <2>1, <2>2, Zenon DEF Kept, ABANDONED, ACTIVE
<1>6. CASE PoolTimer
  <2>1. lease' = Expire(lease)
    BY <1>6, Zenon DEF PoolTimer, pool_timer
  <2> QED
    BY <1>0, <2>1, ExpireType, Zenon DEF Kept, FREE, ACTIVE
<1>7. ~Crash /\ ~Start
  BY Zenon DEF Crash, Start, Restart
<1>8. CASE lease' = lease
  BY <1>8, Zenon DEF Kept
<1>9. \/ \E l \in Leases : lease_ping_timeout(l)
      \/ \E c \in Clients : GiveUp(c)
      \/ Tick
      => lease' = lease
  BY Zenon DEF lease_ping_timeout, GiveUp, Tick, mem
<1>10. \/ \E c \in Clients, l \in Leases, ok \in BOOLEAN : dhcpdecline(c, l, ok)
       \/ \E l \in Leases, ok \in BOOLEAN : lease_pinged(l, ok)
       => \E l \in Leases, ok \in BOOLEAN : Abandon(l, ok)
  BY Zenon DEF dhcpdecline, lease_pinged
<1> QED
  BY <1>1, <1>2, <1>3, <1>4, <1>5, <1>6, <1>7, <1>8, <1>9, <1>10 DEF Next, Serve

(* supersede_lease() never finds an active lease of another client: there  *)
(* is no "Lease conflict" to log, for any pool and any clients.            *)
THEOREM ActiveLeasesKeepClient == Spec => NoLeaseConflict
<1>1. TypeOK /\ [Next]_vars =>
        [\A l \in Leases :
            up /\ up' /\ lease[l].state = ACTIVE /\ lease'[l].state = ACTIVE
                => lease'[l].client = lease[l].client]_vars
  BY NextKeepsClient DEF Kept
<1> QED
  BY InitType, NextType, <1>1, PTL DEF Spec, NoLeaseConflict

=============================================================================
