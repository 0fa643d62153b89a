------------------------------- MODULE Dhcp6 --------------------------------
(***************************************************************************)
(* The DHCPv6 server: the message handlers of server/dhcpv6.c over the     *)
(* lease database of Lease6, the clients that talk to it, time, a crash    *)
(* and the restart from the lease file.                                    *)
(*                                                                         *)
(* A client has one IA, of the kind that Init chooses: addresses (IA_NA),  *)
(* temporary addresses (IA_TA) or prefixes (IA_PD).  The three kinds use   *)
(* separate tables and pools, so one kind at a time loses nothing.  No     *)
(* host declaration fixes an address and no pool has a permit list.        *)
(*                                                                         *)
(* A handler works on a reply state r: the database, the message type of   *)
(* the answer, the number of resources given, the resources put into the   *)
(* answer with their lifetime, and a status.                               *)
(***************************************************************************)
EXTENDS Lease6

CONSTANTS Kinds,        \* the kinds of IA explored
          OffLink,      \* an address that is not on the client's link
          Limit,        \* limit-addrs-per-ia, limit-prefs-per-ia
          MaxHints,     \* addresses in one client message
          SoftTime,     \* the lifetime of a soft binding (120 seconds)
          ValidTime,    \* default-lease-time
          PrefixMode,   \* prefix_length_mode
          PrefixLen,    \* the length of the prefixes of the pool
          HintLens,     \* lengths a client asks for with a prefix ::/n
          LateMessages, \* a Decline or Release may arrive late or twice
          MaxOffers,    \* Solicits answered with an Advertise
          MaxCrashes,
          MaxTime

VARIABLES kind,     \* the kind of IA
          db,       \* the lease database in memory
          disk,     \* the database that reading the lease file gives
          timer,    \* when lease_timeout_support() runs next
          now,
          up,       \* the server is running
          crashes,
          held,     \* held[c][a]: until when client c uses address a
          offers    \* the Solicits answered with an Advertise

vars == <<kind, db, disk, timer, now, up, crashes, held, offers>>

OnLink(a) == a # OffLink

(***************************************************************************)
(* Addresses and prefixes a message names.                                 *)
(***************************************************************************)

\* start_reply(): only a Solicit without rapid commit makes a soft binding.
start_reply(m, c) ==
    [d |-> db, k |-> NoId, c |-> c, m |-> m,
     type |-> IF m = "SOLICIT" THEN "ADVERTISE" ELSE "REPLY",
     resources |-> 0, sent |-> {}, status |-> "SUCCESS", preflen |-> -1, crash |-> FALSE]

\* The beginning of reply_process_ia_na() and of its siblings: a new IA.
StartIa(r) ==
    LET k == FreeIa(r.d)
    IN [r EXCEPT !.d = ia_allocate(@, k, r.c), !.k = k]

OldIa(r) == IF r.d.active[r.c] = NoId THEN <<>> ELSE r.d.ia[r.d.active[r.c]].subopts

\* Mutant: a lease of the IA is the client's, whoever uses the address now.
address_is_owned_unchecked(r, a) ==
    LET own == SelectSeq(OldIa(r), LAMBDA i : r.d.lease[i].addr = a)
    IN IF own # <<>> THEN Head(own) ELSE NoId

\* The lease of the client's IA for the address, if nobody else uses it.
address_is_owned(r, a) ==
    LET own == SelectSeq(OldIa(r), LAMBDA i : r.d.lease[i].addr = a)
    IN IF own # <<>> /\ lease6_usable(r.d, Head(own)) THEN Head(own) ELSE NoId

prefix_is_owned(r, a) == address_is_owned(r, a)

\* An unused address of the pool is given as asked, with a soft binding.
try_client_v6_address(r, a) ==
    IF a \in Addrs /\ ~lease6_exists(r.d, a)
    THEN LET i == FreeLease(r.d)
         IN [lease |-> i, d |-> add_lease6(r.d, i, a, "ACTIVE", NoId, now + SoftTime)]
    ELSE [lease |-> NoId, d |-> r.d]

try_client_v6_prefix(r, a) == try_client_v6_address(r, a)

\* reply_process_is_addressed(): the lease joins the new IA, and a hard
\* binding records the lifetime it is about to get.
is_addressed(r, i) ==
    LET d1 == ia_add_iasubopt(r.d, r.k, i)
        l == d1.lease[i]
    IN [r EXCEPT !.d = [d1 EXCEPT !.lease[i].soft = IF r.type = "REPLY" THEN now + ValidTime ELSE @,
                                  !.lease[i].ia = IF @ = NoId THEN r.k ELSE @],
                 !.resources = @ + 1,
                 !.sent = @ \union {<<l.addr, ValidTime>>}]

is_prefixed(r, i) == is_addressed(r, i)

Send(r, a) == [r EXCEPT !.sent = @ \union {<<a, 0>>}]
Cancel(r, code) == [r EXCEPT !.sent = {}, !.status = code]

\* reply_process_addr(): an address that is not on the link.
not_on_link(r, a) ==
    CASE r.m \in {"SOLICIT", "RAPID"} -> [r EXCEPT !.type = "ADVERTISE"]
      [] r.m = "REQUEST" -> Cancel(r, "NotOnLink")
      [] OTHER -> Send(r, a)

AtLimit(r) == r.resources # 0 /\ r.resources >= Limit

\* One the client does not own: t is the lease it might get.
Unowned(r, a, t) ==
    LET r1 == [r EXCEPT !.d = t.d]
    IN CASE r.m = "RENEW" -> Cancel(r, "NoBinding")
         [] r.m # "RENEW" /\ t.lease = NoId -> IF r.m = "REBIND" THEN Send(r, a) ELSE r
         [] OTHER -> IF AtLimit(r) THEN r1 ELSE is_addressed(r1, t.lease)

reply_process_addr(r, a) ==
    LET own == address_is_owned(r, a)
    IN CASE r.status # "SUCCESS" -> r
         [] ~OnLink(a) -> not_on_link(r, a)
         [] OnLink(a) /\ own = NoId -> Unowned(r, a, try_client_v6_address(r, a))
         [] OTHER -> IF AtLimit(r) THEN r ELSE is_addressed(r, own)

\* The first length that is named becomes the preferred one; a prefix ::/n
\* names nothing else.
reply_process_prefix(r, a) ==
    LET r1 == [r EXCEPT !.preflen = IF @ >= 0 THEN @ ELSE IF a \in HintLens THEN a ELSE PrefixLen]
        own == prefix_is_owned(r, a)
    IN CASE r.status # "SUCCESS" -> r
         [] r.status = "SUCCESS" /\ a \in HintLens -> r1
         [] r.status = "SUCCESS" /\ a \notin HintLens /\ own = NoId ->
                Unowned(r1, a, try_client_v6_prefix(r1, a))
         [] OTHER -> IF AtLimit(r) THEN r1 ELSE is_prefixed(r1, own)

\* reply_process_ia_ta(): all the addresses named, or none of them.
temporary_is_available(r, a) ==
    LET own == address_is_owned(r, a)
    IN CASE ~OnLink(a) -> [lease |-> NoId, d |-> r.d]
         [] OnLink(a) /\ own # NoId -> [lease |-> own, d |-> r.d]
         [] OTHER -> try_client_v6_address(r, a)

process_temporary(r, a) ==
    LET t == temporary_is_available(r, a)
        r1 == [r EXCEPT !.d = t.d]
    IN CASE r.status # "SUCCESS" -> r
         [] r.status = "SUCCESS" /\ t.lease = NoId -> [Cancel(r, "CANCELED") EXCEPT !.resources = 0]
         [] OTHER -> is_addressed(r1, t.lease)

(***************************************************************************)
(* A resource for a client that got none so far.                           *)
(***************************************************************************)

\* lease_compare(), prefix_compare(): the better lease; "crash" where the code
\* ends the server with "Impossible condition".
lease_compare(d, i, j) ==
    LET a == d.lease[i]
        b == d.lease[j]
        known == {"ACTIVE", "EXPIRED", "ABANDONED"}
        later == IF a.hard < b.hard \/ (a.state = "EXPIRED" /\ a.hard = b.hard /\ a.soft < b.soft)
                 THEN j ELSE i
    IN CASE j = NoId -> i
         [] j # NoId /\ (a.state \notin known \/ b.state \notin known) -> -1
         [] OTHER -> CASE a.state = "ABANDONED" /\ b.state = "ABANDONED" -> IF a.hard < b.hard THEN i ELSE j
                       [] a.state = "ABANDONED" /\ b.state # "ABANDONED" -> i
                       [] a.state = b.state -> later
                       [] OTHER -> IF a.state = "ACTIVE" \/ b.state = "ABANDONED" THEN i ELSE j

prefix_compare(d, i, j) == lease_compare(d, i, j)

Best(r, compare(_, _, _)) ==
    FoldLeft(LAMBDA best, i : IF best = -1 \/ ~lease6_usable(r.d, i) THEN best
                              ELSE compare(r.d, i, best),
             NoId, OldIa(r))

\* pick_v6_address(), find_client_temporaries(): a new soft binding.
WithNew(r, a) ==
    LET i == FreeLease(r.d)
    IN is_addressed([r EXCEPT !.d = add_lease6(@, i, a, "ACTIVE", NoId, now + SoftTime)], i)

\* No address is left: an answer that says so, or no IA in the answer unless
\* it already carries a zero lifetime.
NoResources(r) ==
    CASE r.m \in {"SOLICIT", "RAPID", "REQUEST"} -> [r EXCEPT !.sent = {}, !.status = "NoAddrsAvail"]
      [] OTHER -> IF r.sent # {} THEN r ELSE [r EXCEPT !.status = "NORESOURCES"]

NewBinding(r) ==
    {IF a = NoId THEN NoResources(r) ELSE WithNew(r, a) : a \in create_lease6(r.d)}

pick_v6_address(r) == NewBinding(r)

find_client_temporaries(r) == NewBinding([r EXCEPT !.status = "SUCCESS"])

\* eval_prefix_mode()
eval_prefix_mode(len, preflen, mode) ==
    CASE mode = "EXACT" -> len = preflen
      [] mode = "MINIMUM" -> len >= preflen
      [] mode = "MAXIMUM" -> len <= preflen
      [] OTHER -> TRUE

\* An exact match first, then what the mode admits.
pick_v6_prefix(r) ==
    LET usable == \/ r.preflen <= 0
                  \/ eval_prefix_mode(PrefixLen, r.preflen, "EXACT")
                  \/ PrefixMode # "EXACT" /\ eval_prefix_mode(PrefixLen, r.preflen, PrefixMode)
    IN IF usable THEN NewBinding(r) ELSE {NoResources(r)}

find_client_address(r) ==
    LET best == Best(r, lease_compare)
    IN CASE best = -1 -> {[r EXCEPT !.crash = TRUE]}
         [] best = NoId -> pick_v6_address(r)
         [] OTHER -> IF r.d.lease[best].state = "ABANDONED" THEN pick_v6_address(r)
                     ELSE {is_addressed(r, best)}

\* The best prefix is passed over when it has not the length that was asked for.
find_client_prefix(r) ==
    LET best == Best(r, prefix_compare)
        wrong == r.preflen > 0 /\ PrefixMode # "IGNORE" /\ r.preflen # PrefixLen /\ r.m # "REBIND"
    IN CASE best = -1 -> {[r EXCEPT !.crash = TRUE]}
         [] best = NoId -> pick_v6_prefix(r)
         [] OTHER -> IF wrong \/ r.d.lease[best].state = "ABANDONED" THEN pick_v6_prefix(r)
                     ELSE {is_prefixed(r, best)}

\* The addresses named, then one more if none of them was given.
reply_process_ia_na(r, hints) ==
    LET r1 == FoldLeft(reply_process_addr, r, hints)
    IN IF r1.resources = 0 /\ r1.status = "SUCCESS" THEN find_client_address(r1) ELSE {r1}

reply_process_ia_ta(r, hints) ==
    LET r1 == FoldLeft(process_temporary, r, hints)
    IN IF r1.resources = 0 THEN find_client_temporaries(r1) ELSE {r1}

reply_process_ia_pd(r, hints) ==
    LET r1 == FoldLeft(reply_process_prefix, r, hints)
    IN IF r1.resources = 0 /\ r1.status = "SUCCESS" THEN find_client_prefix(r1) ELSE {r1}

(***************************************************************************)
(* The end of reply_process_ia_na(), reply_process_ia_ta() and             *)
(* reply_process_ia_pd(): a Reply commits the leases of the new IA, which  *)
(* takes the place of the old one, and writes it to the lease file.        *)
(***************************************************************************)
Committed(r) ==
    LET commit(d, i) == renew_lease6([d EXCEPT !.lease[i].ia = r.k], i)
    IN [FoldLeft(commit, r.d, r.d.ia[r.k].subopts) EXCEPT !.active[r.c] = r.k]

\* Mutant: a timer that is set stays as it is.
Scheduled_if_idle(d) == IF timer < Never THEN timer ELSE NextTimeout(d)

Scheduled(d) == IF NextTimeout(d) < Never THEN NextTimeout(d) ELSE timer

Hard(r) == /\ r.status \in {"SUCCESS", "NoAddrsAvail"}
           /\ r.type = "REPLY"
           /\ r.d.ia[r.k].subopts # <<>>


commit_ia_na(r) ==
    LET d1 == IF Hard(r) THEN Committed(r) ELSE r.d
    IN /\ db' = Collect(d1)
       /\ disk' = IF Hard(r) THEN write_ia(disk, d1, r.k) ELSE disk
       /\ timer' = IF r.status \in {"SUCCESS", "NoAddrsAvail"} /\ d1.ia[r.k].subopts # <<>>
                   THEN Scheduled(d1) ELSE timer

commit_ia_ta(r) == commit_ia_na(r)
commit_ia_pd(r) == commit_ia_na(r)

(***************************************************************************)
(* A client that hears an answer.                                          *)
(***************************************************************************)
Hears(c, sent) ==
    [held EXCEPT ![c] = [a \in Addrs |-> IF \E t \in {ValidTime, 0} : <<a, t>> \in sent
                                         THEN IF <<a, ValidTime>> \in sent THEN now + ValidTime ELSE 0
                                         ELSE @[a]]]

\* A crash of the server, by itself or by one of its own checks.
Down == /\ crashes < MaxCrashes
        /\ up' = FALSE
        /\ crashes' = crashes + 1
        /\ db' = EmptyDb
        /\ timer' = Never
        /\ UNCHANGED <<kind, disk, now, held, offers>>

\* lease_to_client(), for a message with one IA and the hints in it; the
\* answer reaches the client or is lost.
lease_to_client(m, c, hints) ==
    /\ up
    /\ HasRoom(db)
    /\ m = "SOLICIT" => offers < MaxOffers
    /\ \E r \in CASE kind = "NA" -> reply_process_ia_na(StartIa(start_reply(m, c)), hints)
                [] kind = "TA" -> reply_process_ia_ta(StartIa(start_reply(m, c)), hints)
                [] kind = "PD" -> reply_process_ia_pd(StartIa(start_reply(m, c)), hints) :
         IF r.crash THEN Down
         ELSE /\ CASE kind = "NA" -> commit_ia_na(r)
                [] kind = "TA" -> commit_ia_ta(r)
                [] kind = "PD" -> commit_ia_pd(r)
              /\ \E heard \in BOOLEAN : held' = IF heard /\ r.type = "REPLY" THEN Hears(c, r.sent) ELSE held
              /\ offers' = IF m = "SOLICIT" THEN offers + 1 ELSE offers
              /\ UNCHANGED <<kind, now, up, crashes>>

\* What a client may name: any address, a foreign one, a length.
Hints == SeqOf(Addrs \union {OffLink} \union (IF kind = "PD" THEN HintLens ELSE {}), MaxHints)

Using(c, a) == held[c][a] > now
Idle(c) == \A a \in Addrs : ~Using(c, a)
\* A client that has addresses names them all.
NamesAll(c, hints) == \A a \in Addrs : Using(c, a) => a \in ToSet(hints)

Solicit == \E c \in Clients : Idle(c) /\ \E hints \in Hints : lease_to_client("SOLICIT", c, hints)
RapidSolicit == \E c \in Clients : Idle(c) /\ \E hints \in Hints : lease_to_client("RAPID", c, hints)
Request == \E c \in Clients : \E hints \in Hints :
               NamesAll(c, hints) /\ lease_to_client("REQUEST", c, hints)
Renew == \E c \in Clients : \E hints \in Hints :
             NamesAll(c, hints) /\ lease_to_client("RENEW", c, hints)
Rebind == \E c \in Clients : \E hints \in Hints :
              NamesAll(c, hints) /\ lease_to_client("REBIND", c, hints)

Speaks(c, a) == LateMessages \/ Using(c, a)

\* The lease of the client's IA for the address, whatever its state, and what
\* its handler makes of the database.  The client stops using the address first.
ia_na_match(d, i, m) ==
    IF m = "DECLINE" THEN decline_lease6(d, i) ELSE release_lease6(d, i)

iterate_over_ia_na(c, a, m) ==
    LET k == db.active[c]
        own == IF k = NoId THEN <<>> ELSE SelectSeq(db.ia[k].subopts, LAMBDA i : db.lease[i].addr = a)
        d1 == ia_na_match(db, Head(own), m)
    IN /\ up
       /\ Speaks(c, a)
       /\ db' = IF own = <<>> THEN db ELSE Collect(d1)
       /\ disk' = IF own = <<>> THEN disk ELSE write_ia(disk, d1, d1.lease[Head(own)].ia)
       /\ held' = [held EXCEPT ![c][a] = 0]
       /\ UNCHANGED <<kind, timer, now, up, crashes, offers>>

iterate_over_ia_pd(c, a, m) == iterate_over_ia_na(c, a, m)

\* Undefined for prefixes and not implemented for temporary addresses.
dhcpv6_decline == kind = "NA" /\ \E c \in Clients, a \in Addrs : iterate_over_ia_na(c, a, "DECLINE")
dhcpv6_release ==
    \E c \in Clients, a \in Addrs :
        \/ kind = "NA" /\ iterate_over_ia_na(c, a, "RELEASE")
        \/ kind = "PD" /\ iterate_over_ia_pd(c, a, "RELEASE")

\* A client gives up an address whose Release or Decline is lost.
Silent == \E c \in Clients, a \in Addrs :
            /\ Using(c, a)
            /\ held' = [held EXCEPT ![c][a] = 0]
            /\ UNCHANGED <<kind, db, disk, timer, now, up, crashes, offers>>

LeaseTimeout ==
    LET p == lease_timeout_support(db, disk, now)
    IN /\ up
       /\ timer <= now
       /\ IF p.crash THEN Down
          ELSE /\ db' = p.d
               /\ disk' = p.disk
               /\ timer' = NextTimeout(p.d)
               /\ UNCHANGED <<kind, now, up, crashes, held, offers>>

\* The hourly rewrite of the lease file.
NewLeaseFile == /\ up
                /\ disk' = write_leases6(db)
                /\ UNCHANGED <<kind, db, timer, now, up, crashes, held, offers>>

Tick == /\ now < MaxTime
        /\ up => timer > now
        /\ now' = now + 1
        /\ UNCHANGED <<kind, db, disk, timer, up, crashes, held, offers>>

Crash == up /\ Down

\* db_startup() and postdb_startup(): read the lease file, write a new one,
\* set the timeouts.
Restart == /\ ~up
           /\ up' = TRUE
           /\ db' = disk
           /\ disk' = write_leases6(disk)
           /\ timer' = NextTimeout(disk)
           /\ UNCHANGED <<kind, now, crashes, held, offers>>

Init == /\ kind \in Kinds
        /\ db = EmptyDb
        /\ disk = EmptyDb
        /\ timer = Never
        /\ now = 0
        /\ up = TRUE
        /\ crashes = 0
        /\ held = [c \in Clients |-> [a \in Addrs |-> 0]]
        /\ offers = 0

Next == \/ Solicit \/ RapidSolicit \/ Request \/ Renew \/ Rebind
        \/ dhcpv6_decline \/ dhcpv6_release \/ Silent
        \/ LeaseTimeout \/ NewLeaseFile \/ Tick \/ Crash \/ Restart

Spec == Init /\ [][Next]_vars

(***************************************************************************)
(* Properties.                                                             *)
(***************************************************************************)

\* The counters of a pool (num_active, num_inactive) are the sizes of its two
\* heaps, the hash table holds just the leases of the active heap, one for an
\* address, and what an IA of the IA hash lists points back to it.
Consistent(d) ==
    /\ d.num_active = Cardinality(OnHeap(d, "active"))
    /\ d.num_inactive = Cardinality(OnHeap(d, "inactive"))
    /\ \A a \in Addrs : Len(d.hash[a]) <= 1
    /\ {i \in LeaseIds : \E a \in Addrs : d.hash[a] = <<i>>} = OnHeap(d, "active")
    /\ \A c \in Clients : d.active[c] # NoId =>
         /\ d.ia[d.active[c]].client = c
         /\ \A i \in ToSet(d.ia[d.active[c]].subopts) : d.lease[i].ia = d.active[c]

\* The one timer of the pool is set no later than the second after the hard end
\* of any active lease (schedule_lease_timeout()).
TimerCovers6 == \A i \in OnHeap(db, "active") :
                    db.lease[i].hard < Never => timer <= db.lease[i].hard + 1

\* The database and the one a restart would read are consistent, and no active
\* lease is forgotten by the timer.
DatabaseConsistent == up => Consistent(db) /\ Consistent(disk) /\ TimerCovers6

\* No two clients use one address or prefix at the same time, across soft
\* bindings, expiry, lost answers and restarts from the lease file.
NoDoubleBinding6 == \A c, e \in Clients, a \in Addrs : Using(c, a) /\ Using(e, a) => c = e

\* dhcpd.8: "even in the event of a system crash, dhcpd will not forget about
\* a lease that it has assigned."  In the lease file, an address that a client
\* uses is active until at least the end the client was told, or abandoned.
AddressRecorded ==
    \A c \in Clients, a \in Addrs : Using(c, a) =>
        /\ lease6_exists(disk, a)
        /\ disk.lease[Lookup(disk, a)].hard >= held[c][a]

=============================================================================
