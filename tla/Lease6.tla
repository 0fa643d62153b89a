------------------------------- MODULE Lease6 -------------------------------
(***************************************************************************)
(* The DHCPv6 lease database of server/mdb6.c as operators on a database   *)
(* value d:                                                                *)
(*                                                                         *)
(*   d.lease[i]   the iasubopt objects: addr, state, hard and soft end,    *)
(*                ia (the backpointer) and heap ("active", "inactive" or   *)
(*                "none" when it is on no heap);                           *)
(*   d.ia[k]      the ia_xx objects: the client (DUID and IAID) and the    *)
(*                array of leases;                                         *)
(*   d.active[c]  the IA hash table (ia_na_active and its siblings);       *)
(*   d.hash[a]    the chain of leases the pool's hash table holds for an   *)
(*                address; a lookup and a delete find the newest;          *)
(*   d.num_*      the counters of the pool.                                *)
(*                                                                         *)
(* The lease file is an append-only list of IA records and reading it is a *)
(* fold over them, so its contents are represented by the database that    *)
(* reading it would build: appending a record is parse_ia_declaration.     *)
(***************************************************************************)
EXTENDS Integers, FiniteSetsExt, SequencesExt

CONSTANTS Clients,      \* DUID and IAID pairs
          Addrs,        \* the addresses (or prefixes) of the pool
          MaxLeases,    \* lease objects alive at once
          MaxIas,       \* IA objects alive at once
          CleanupTime,  \* EXPIRED_IPV6_CLEANUP_TIME
          Never         \* MAX_TIME

LeaseIds == 1..MaxLeases
IaIds == 1..MaxIas
NoId == 0
NoClient == "nobody"

NoLease == [addr |-> NoId, state |-> "FREE", hard |-> 0, soft |-> 0, ia |-> NoId, heap |-> "none"]
NoIa == [client |-> NoClient, subopts |-> <<>>]

EmptyDb == [lease |-> [i \in LeaseIds |-> NoLease],
            ia |-> [k \in IaIds |-> NoIa],
            active |-> [c \in Clients |-> NoId],
            hash |-> [a \in Addrs |-> <<>>],
            num_active |-> 0, num_inactive |-> 0, num_abandoned |-> 0]

OnHeap(d, h) == {i \in LeaseIds : d.lease[i].heap = h}
InUse == {"ACTIVE", "ABANDONED"}
Lookup(d, a) == IF d.hash[a] = <<>> THEN NoId ELSE Head(d.hash[a])

\* Reference counting: what neither the pool nor the IA hash reaches is freed.
RECURSIVE Reach(_, _, _)
Reach(d, leases, ias) ==
    LET ks == ias \union ({d.lease[i].ia : i \in leases} \ {NoId})
        ls == leases \union UNION {ToSet(d.ia[k].subopts) : k \in ks}
    IN IF ls = leases /\ ks = ias THEN [leases |-> ls, ias |-> ks] ELSE Reach(d, ls, ks)

\* Objects are numbered anew, since an object's identity carries no meaning:
\* leases by address, place and times, IAs by client and first lease.
ClientSeq == SetToSeq(Clients)
AddrRank == LET q == SetToSeq(Addrs) IN [a \in Addrs |-> CHOOSE n \in DOMAIN q : q[n] = a]
ClientRank == [c \in Clients |-> CHOOSE n \in DOMAIN ClientSeq : ClientSeq[n] = c]
Place(q, i) == IF i = NoId THEN NoId ELSE CHOOSE n \in DOMAIN q : q[n] = i
Places(q, is) == [n \in DOMAIN is |-> Place(q, is[n])]
HeapRank == [active |-> 0, inactive |-> 1, none |-> 2]
LeaseKey(l, i) ==
    <<((AddrRank[l.addr] * 3 + HeapRank[l.heap]) * (Never + 1) + l.hard) * (Never + 1) + l.soft, i>>
IaKey(d, x, k, leases) ==
    <<(ClientRank[x.client] * 2 + (IF d.active[x.client] = k THEN 0 ELSE 1)) * (MaxLeases + 1)
        + (IF x.subopts = <<>> THEN 0 ELSE Place(leases, Head(x.subopts))), k>>

RECURSIVE Sorted(_)
Sorted(keys) ==
    IF keys = {} THEN <<>>
    ELSE LET least == CHOOSE p \in keys : \A q \in keys : p[1] < q[1] \/ (p[1] = q[1] /\ p[2] <= q[2])
         IN <<least[2]>> \o Sorted(keys \ {least})

Renamed(d, leases, ias) ==
    [d EXCEPT !.lease = [n \in LeaseIds |->
                            IF n > Len(leases) THEN NoLease
                            ELSE [@[leases[n]] EXCEPT !.ia = Place(ias, @)]],
              !.ia = [n \in IaIds |->
                         IF n > Len(ias) THEN NoIa
                         ELSE [@[ias[n]] EXCEPT !.subopts = Places(leases, @)]],
              !.active = [c \in Clients |-> Place(ias, @[c])],
              !.hash = [x \in Addrs |-> Places(leases, @[x])]]

Renumbered(d, live) ==
    LET leases == Sorted({LeaseKey(d.lease[i], i) : i \in live.leases})
        ias == Sorted({IaKey(d, d.ia[k], k, leases) : k \in live.ias})
    IN Renamed(d, leases, ias)

Collect(d) ==
    Renumbered(d, Reach(d, OnHeap(d, "active") \union OnHeap(d, "inactive")
                               \union UNION {ToSet(d.hash[a]) : a \in Addrs},
                           {d.active[c] : c \in Clients} \ {NoId}))

FreeLease(d) == CHOOSE i \in LeaseIds : d.lease[i] = NoLease /\ \A j \in 1..(i - 1) : d.lease[j] # NoLease
FreeIa(d) == CHOOSE k \in IaIds : d.ia[k] = NoIa /\ \A j \in 1..(k - 1) : d.ia[j] # NoIa
HasRoom(d) == /\ {i \in LeaseIds : d.lease[i] = NoLease} # {}
              /\ {k \in IaIds : d.ia[k] = NoIa} # {}

ia_allocate(d, k, c) == [d EXCEPT !.ia[k] = [client |-> c, subopts |-> <<>>]]

ia_add_iasubopt(d, k, i) == [d EXCEPT !.ia[k].subopts = Append(@, i)]

\* One occurrence is removed, and with it the lease's backpointer.
ia_remove_iasubopt(d, k, i) ==
    IF i \notin ToSet(d.ia[k].subopts) THEN d
    ELSE LET n == CHOOSE m \in 1..Len(d.ia[k].subopts) :
                      d.ia[k].subopts[m] = i /\ i \notin ToSet(SubSeq(d.ia[k].subopts, 1, m - 1))
         IN [d EXCEPT !.ia[k].subopts = RemoveAt(@, n), !.lease[i].ia = NoId]

lease6_exists(d, a) == Lookup(d, a) # NoId

\* The address is free, or it is this very lease that uses it.
lease6_usable(d, i) == Lookup(d, d.lease[i].addr) \in {NoId, i}

(***************************************************************************)
(* Leases enter and leave the pool.                                        *)
(***************************************************************************)

\* add_lease6(): a lease that the hash already has for the address goes away.
Unpooled(d, t) ==
    LET l == d.lease[t]
    IN [d EXCEPT !.lease[t].heap = "none", !.hash[l.addr] = Tail(@),
                 !.num_active = IF l.state \in InUse THEN @ - 1 ELSE @,
                 !.num_abandoned = IF l.state = "ABANDONED" THEN @ - 1 ELSE @,
                 !.num_inactive = IF l.state \in InUse THEN @ ELSE @ - 1]

add_lease6(d, i, a, state, ia, end) ==
    LET t == Lookup(d, a)
        d1 == IF t = NoId THEN d ELSE Unpooled(d, t)
        l == [addr |-> a, state |-> state, hard |-> end, soft |-> 0, ia |-> ia, heap |-> "active"]
    IN IF state \in InUse
       THEN [d1 EXCEPT !.lease[i] = l, !.hash[a] = <<i>> \o @, !.num_active = @ + 1,
                       !.num_abandoned = IF state = "ABANDONED" THEN @ + 1 ELSE @]
       ELSE [d1 EXCEPT !.lease[i] = [l EXCEPT !.hard = 0, !.soft = end, !.heap = "inactive"],
                       !.num_inactive = @ + 1]

\* create_lease6(), create_prefix6(): the addresses a hash of the client may
\* lead to.  After 100 collisions the search gives up, so it may also fail
\* while there is still a free address.
create_lease6(d) == {a \in Addrs : ~lease6_exists(d, a)}
                        \union (IF \E a \in Addrs : lease6_exists(d, a) THEN {NoId} ELSE {})

move_lease_to_active(d, i) ==
    [d EXCEPT !.lease[i].heap = "active", !.lease[i].state = "ACTIVE",
              !.hash[d.lease[i].addr] = <<i>> \o @,
              !.num_active = @ + 1, !.num_inactive = @ - 1]

\* The soft end becomes the hard end; an abandoned lease is reclaimed.
renew_lease6(d, i) ==
    LET l == d.lease[i]
        d1 == [d EXCEPT !.lease[i].hard = l.soft, !.lease[i].soft = 0]
    IN CASE l.state = "ACTIVE" -> d1
         [] l.state = "ABANDONED" -> [d1 EXCEPT !.lease[i].state = "ACTIVE",
                                                !.num_abandoned = @ - 1]
         [] OTHER -> move_lease_to_active(d1, i)

\* The hash entry goes by address.  The state the counter of abandoned leases
\* is adjusted for is the new one, which is never "ABANDONED".
move_lease_to_inactive(d, i, state) ==
    [d EXCEPT !.lease[i].heap = "inactive", !.lease[i].state = state,
              !.hash[d.lease[i].addr] = IF @ = <<>> THEN @ ELSE Tail(@),
              !.num_active = @ - 1, !.num_inactive = @ + 1]

decline_lease6(d, i) ==
    LET d1 == IF d.lease[i].state \in InUse THEN d ELSE move_lease_to_active(d, i)
    IN [d1 EXCEPT !.lease[i].state = "ABANDONED", !.lease[i].hard = Never,
                  !.num_abandoned = @ + 1]

release_lease6(d, i) ==
    IF d.lease[i].state = "ACTIVE" THEN move_lease_to_inactive(d, i, "RELEASED") ELSE d

\* An IA that this leaves without leases stays in the hash table: the test
\* for deleting it requires the lookup to fail and to find the IA.
cleanup_old_expired(d, now) ==
    LET timeout(i) == IF d.lease[i].hard # 0 THEN d.lease[i].hard + CleanupTime ELSE d.lease[i].soft
        old == {i \in OnHeap(d, "inactive") : timeout(i) <= now}
        off(i, e) ==
            LET e1 == [e EXCEPT !.lease[i].heap = "none", !.num_inactive = @ - 1]
            IN IF e.lease[i].ia = NoId THEN e1 ELSE ia_remove_iasubopt(e1, e.lease[i].ia, i)
    IN FoldSet(off, d, old)

\* schedule_lease_timeout(): when the next lease expires or is cleaned up.
NextTimeout(d) ==
    LET cleanup(i) == IF d.lease[i].hard # 0 THEN d.lease[i].hard + CleanupTime ELSE d.lease[i].soft + 1
    IN Min({Never} \union {d.lease[i].hard + 1 : i \in {j \in OnHeap(d, "active") : d.lease[j].hard < Never}}
                   \union {cleanup(i) : i \in OnHeap(d, "inactive")})

(***************************************************************************)
(* The lease file.                                                         *)
(***************************************************************************)

\* What write_ia() writes of a lease.
Written(d, i) ==
    LET l == d.lease[i]
    IN [addr |-> l.addr, state |-> l.state,
        ends |-> IF l.state \in InUse \/ l.hard # 0 THEN l.hard ELSE l.soft]

\* Reading a lease e of client c: what the pool has for the address already
\* is removed when the same IA gives it up or a different IA holds it now.
\* The IA hash is cleared by key, whichever IA of that client it holds.
cleanup_lease6(d, e, c) ==
    LET t == Lookup(d, e.addr)
        k == d.lease[t].ia
        owner == d.ia[k].client
        d1 == ia_remove_iasubopt(
                  [d EXCEPT !.lease[t].heap = "none", !.hash[e.addr] = Tail(@), !.num_active = @ - 1,
                            !.num_abandoned = IF e.state = "ABANDONED" THEN @ - 1 ELSE @], k, t)
    IN IF \/ t = NoId
          \/ k = NoId
          \/ owner = c /\ e.state \in InUse
          \/ owner # c /\ e.state \notin InUse
       THEN d
       ELSE IF d1.ia[k].subopts = <<>> THEN [d1 EXCEPT !.active[owner] = NoId] ELSE d1

\* The record of an IA replaces the one the IA hash has; it stays only when it
\* holds an active or abandoned lease.
parse_ia_declaration(d, c, entries) ==
    LET k == FreeIa(d)
        load(e, x) ==
            LET e1 == cleanup_lease6(e, x, c)
                i == FreeLease(e1)
            IN IF x.state \in InUse
               THEN ia_add_iasubopt(add_lease6(e1, i, x.addr, x.state, k, x.ends), k, i)
               ELSE e1
        d1 == FoldLeft(load, ia_allocate(d, k, c), entries)
    IN Collect([d1 EXCEPT !.active[c] = IF d1.ia[k].subopts # <<>> THEN k ELSE NoId])

write_ia(disk, d, k) ==
    parse_ia_declaration(disk, d.ia[k].client,
                         [n \in 1..Len(d.ia[k].subopts) |-> Written(d, d.ia[k].subopts[n])])

\* A new lease file holds the IAs of the hash table.
write_leases6(d) ==
    FoldLeft(LAMBDA disk, c : IF d.active[c] = NoId THEN disk ELSE write_ia(disk, d, d.active[c]),
             EmptyDb, ClientSeq)

\* lease_timeout_support(): the leases whose hard end has passed are moved to
\* the inactive heap, each with its IA written, and old ones are freed.  A
\* lease without an IA makes write_ia() follow a null pointer.
lease_timeout_support(d, disk, now) ==
    LET expired == SetToSortSeq({i \in OnHeap(d, "active") : d.lease[i].hard < now},
                                LAMBDA i, j : d.lease[i].hard < d.lease[j].hard)
        expire_lease6(p, i) ==
            LET e == move_lease_to_inactive(p.d, i, "EXPIRED")
            IN IF p.crash \/ e.lease[i].ia = NoId THEN [p EXCEPT !.crash = TRUE]
               ELSE [p EXCEPT !.d = e, !.disk = write_ia(p.disk, e, e.lease[i].ia)]
        p1 == FoldLeft(expire_lease6, [d |-> d, disk |-> disk, crash |-> FALSE], expired)
    IN [p1 EXCEPT !.d = Collect(cleanup_old_expired(@, now))]
=============================================================================
