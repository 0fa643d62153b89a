---------------------------- MODULE HostObjects ----------------------------
(***************************************************************************)
(* Host declarations: those of dhcpd.conf, and those that OMAPI clients    *)
(* create, change and delete (server/omapi.c); the tables by name, by      *)
(* hardware address and by client identifier and the lists that join hosts *)
(* with the same identity (server/mdb.c); and what of it is kept in the    *)
(* lease file (server/db.c) and read back (server/confpars.c).             *)
(***************************************************************************)
EXTENDS Integers, Sequences, SequencesExt, FiniteSets, Functions, TLC

CONSTANTS Hosts,        \* storage for host declarations
          Names,        \* the names that OMAPI clients give
          Idents,       \* identities <<hardware address, client identifier>>
          Addrs,        \* fixed addresses
          Declared,     \* dhcpd.conf: a set of [name, hw, uid, addr]
          MaxFile,      \* bound on the declarations in the lease file
          Null

VARIABLES host,         \* the declarations, by storage
          byName, byHw, byUid,  \* host_name_hash and so on
          file          \* the host declarations in the lease file

vars == <<host, byName, byHw, byUid, file>>

NoHost == [name |-> Null, hw |-> Null, uid |-> Null, addr |-> Null,
           flags |-> {}, n_ipaddr |-> Null]

Unused(w) == {h \in Hosts : w.host[h] = NoHost}

\* A record of the lease file.
Record(d) == [name |-> d.name, dynamic |-> "DYNAMIC" \in d.flags,
              deleted |-> "DELETED" \in d.flags,
              hw |-> IF "DELETED" \in d.flags THEN Null ELSE d.hw,
              uid |-> IF "DELETED" \in d.flags THEN Null ELSE d.uid,
              addr |-> IF "DELETED" \in d.flags THEN Null ELSE d.addr]

World == [host |-> host, byName |-> byName, byHw |-> byHw, byUid |-> byUid,
          file |-> file]
Becomes(w) ==
    \E n \in {w} : /\ host' = n.host /\ byName' = n.byName /\ byHw' = n.byHw
                   /\ byUid' = n.byUid /\ file' = n.file

-----------------------------------------------------------------------------
(***************************************************************************)
(* Hash tables: a sequence of <<key, host>>, the newest first.  Nothing    *)
(* keeps two entries of one key out of a table; the newest is found and    *)
(* deleted first.                                                          *)
(***************************************************************************)

add_hash(t, key, h) == <<<<key, h>>>> \o t

At(t, key) == {i \in 1..Len(t) : t[i][1] = key}
First(t, key) == CHOOSE i \in At(t, key) : \A j \in At(t, key) : i <= j

hash_lookup(t, key) == IF At(t, key) = {} THEN Null ELSE t[First(t, key)][2]

Without(t, i) == SubSeq(t, 1, i - 1) \o SubSeq(t, i + 1, Len(t))
delete_hash_entry(t, key) == IF At(t, key) = {} THEN t ELSE Without(t, First(t, key))

\* The list that starts at h: the hosts on it, in order, without an end when
\* the list is a ring (then as far as the first host met again).
RECURSIVE ListFrom(_, _, _)
ListFrom(w, h, seen) ==
    IF h = Null \/ h \in seen THEN << >>
    ELSE <<h>> \o ListFrom(w, w.host[h].n_ipaddr, seen \cup {h})

OnList(w, h) == Range(ListFrom(w, h, {}))
LastOf(w, h) == Last(ListFrom(w, h, {}))

\* No list runs in a circle.
Ends(w, h) == w.host[LastOf(w, h)].n_ipaddr = Null

-----------------------------------------------------------------------------
write_host(w, h) == [w EXCEPT !.file = Append(@, Record(w.host[h]))]
WriteHostIf(commit, w, h) == IF commit THEN write_host(w, h) ELSE w

\* delete_host(): takes h off the list of a table that has its key, unless h
\* is the head of it.
Bypassed(w, h, before) ==
    IF before = {} THEN w
    ELSE [w EXCEPT !.host[CHOOSE q \in before : TRUE].n_ipaddr = w.host[h].n_ipaddr]
Unchained(w, h, head) ==
    IF head \in {Null, h} THEN w
    ELSE Bypassed(w, h, {q \in OnList(w, head) : w.host[q].n_ipaddr = h})


\* The next host of the list takes over the tables' entries from h.  The one
\* by client identifier is made even when h had none (uid_head starts as 1).
AddUid(w, n) == IF w.host[n].uid = Null THEN w
                ELSE [w EXCEPT !.byUid = add_hash(@, w.host[n].uid, n)]
AddHw(w, n) == IF w.host[n].hw = Null THEN w
               ELSE [w EXCEPT !.byHw = add_hash(@, w.host[n].hw, n)]
HandedOn(w, n, hw_head) == IF hw_head THEN AddHw(AddUid(w, n), n) ELSE AddUid(w, n)
Inherited(w, h, hw_head) ==
    IF w.host[h].n_ipaddr = Null THEN w
    ELSE [HandedOn(w, w.host[h].n_ipaddr, hw_head) EXCEPT !.host[h].n_ipaddr = Null]

\* The entry of a key goes if h is the head of its list, else h leaves the list.
LeftHw(w, h, hw, head) == IF head = h THEN [w EXCEPT !.byHw = delete_hash_entry(@, hw)]
                          ELSE Unchained(w, h, head)
LeftUid(w, h, uid, head) == IF head = h THEN [w EXCEPT !.byUid = delete_hash_entry(@, uid)]
                            ELSE Unchained(w, h, head)
LeftName(w, h, d) ==
    IF hash_lookup(w.byName, d.name) # h \/ "STATIC" \in d.flags THEN w
    ELSE [w EXCEPT !.byName = delete_hash_entry(@, d.name)]

HeadOf(t, key) == IF key = Null THEN Null ELSE hash_lookup(t, key)
Left(w, h, d, hwHead, uidHead) ==
    LeftName(Inherited(LeftUid(LeftHw([w EXCEPT !.host[h].flags = @ \cup {"DELETED"}],
                                      h, d.hw, hwHead), h, d.uid, uidHead),
                       h, hwHead = h), h, d)

delete_host(w, h, commit) ==
    IF "DELETED" \in w.host[h].flags THEN w
    ELSE WriteHostIf(commit, Left(w, h, w.host[h], HeadOf(w.byHw, w.host[h].hw),
                                    HeadOf(w.byUid, w.host[h].uid)), h)

\* enter_host(): h becomes the head or the end of the list of its hardware
\* address, and of its client identifier unless it is on a list already.
Appended(w, h, head) ==
    [w EXCEPT !.host[LastOf(w, head)].n_ipaddr = h]

EnteredByHw(w, h, hw, head) ==
    IF hw = Null THEN w
    ELSE IF head = Null THEN [w EXCEPT !.byHw = add_hash(@, hw, h)]
    ELSE Appended(w, h, head)

EnteredByUid(w, h, uid, head, linked) ==
    IF uid = Null THEN w
    ELSE IF head = Null THEN [w EXCEPT !.byUid = add_hash(@, uid, h)]
    ELSE IF linked \/ h \in OnList(w, head) THEN w
    ELSE Appended(w, h, head)

EnteredBy(w, h, d, hwHead, uidHead) ==
    EnteredByUid(EnteredByHw(w, h, d.hw, hwHead), h, d.uid, uidHead, d.hw # Null /\ hwHead # Null)

EnteredAs(w, h, d) ==
    EnteredBy([w EXCEPT !.byName = add_hash(@, d.name, h), !.host[h].n_ipaddr = Null],
              h, d, hash_lookup(w.byHw, d.hw), hash_lookup(w.byUid, d.uid))
Entered(w, h) == EnteredAs(w, h, w.host[h])

\* The declaration that is there already is deleted, to be added again.
Rewritten(w, h) ==
    [write_host(delete_host(w, h, FALSE), h) EXCEPT !.host[h].flags = @ \ {"DELETED"}]

\* A deleted declaration of the name gives way.
Superseded(w, h, hp) ==
    [w EXCEPT !.byName = delete_hash_entry(@, w.host[h].name),
              !.host[h].flags = @ \cup (w.host[hp].flags \cap {"STATIC"})]

EnterOver(w, h, hp, commit) ==
    CASE hp = Null -> [w |-> WriteHostIf(commit, Entered(w, h), h), ok |-> TRUE]
      [] hp # Null /\ "DELETED" \in w.host[hp].flags ->
           [w |-> WriteHostIf(commit, Entered(Superseded(w, h, hp), h), h), ok |-> TRUE]
      [] hp = h /\ "DELETED" \notin w.host[hp].flags ->
           [w |-> WriteHostIf(commit, Entered(Rewritten(w, h), h), h), ok |-> TRUE]
      [] OTHER -> [w |-> w, ok |-> FALSE]

\* enter_host(): [w, ok].
enter_host(w, h, commit) == EnterOver(w, h, hash_lookup(w.byName, w.host[h].name), commit)

-----------------------------------------------------------------------------
(***************************************************************************)
(* Starting: dhcpd.conf and then the lease file are read, the tables are   *)
(* built from nothing, and a new lease file is written (write_leases()).   *)
(***************************************************************************)

Empty == [host |-> [h \in Hosts |-> NoHost], byName |-> << >>,
          byHw |-> << >>, byUid |-> << >>, file |-> << >>]

\* parse_host_declaration(), of either file.
Declaration(r) ==
    [name |-> r.name, hw |-> r.hw, uid |-> r.uid, addr |-> r.addr,
     flags |-> {IF r.dynamic THEN "DYNAMIC" ELSE "STATIC"}, n_ipaddr |-> Null]
IfEntered(w, e) == IF e.ok THEN e.w ELSE w
ReadInto(w, r, h) == IfEntered(w, enter_host([w EXCEPT !.host[h] = Declaration(r)], h, FALSE))
ReadDeleted(w, old) == IF old = Null THEN w ELSE delete_host(w, old, FALSE)
parse_host_declaration(w, r) ==
    IF r.deleted THEN ReadDeleted(w, hash_lookup(w.byName, r.name))
    ELSE ReadInto(w, r, CHOOSE x \in Unused(w) : TRUE)

\* Storage nobody points to any more is free: hosts that are neither in a
\* table nor on a list.
Tables(w) == {e[2] : e \in Range(w.byName \o w.byHw \o w.byUid)}
Kept(w, kept) == [w EXCEPT !.host = [h \in Hosts |-> IF h \in kept THEN w.host[h] ELSE NoHost]]
Collected(w) == Kept(w, UNION {OnList(w, h) : h \in Tables(w)})

RECURSIVE Read(_, _)
Read(w, rs) ==
    IF rs = << >> THEN w
    ELSE Read(Collected(parse_host_declaration(w, rs[1])), Tail(rs))

Conf == [i \in 1..Cardinality(Declared) |->
            SetToSeq(Declared)[i] @@ [dynamic |-> FALSE, deleted |-> FALSE]]

\* The hosts that write_leases() writes: the deleted ones of dhcpd.conf,
\* then the dynamic ones, as far as the table of names has them.
Named(w) == {e[2] : e \in Range(w.byName)}
Records(w, hs) == [i \in 1..Len(hs) |-> Record(w.host[hs[i]])]
write_leases(w) ==
    Records(w, SetToSeq({h \in Named(w) : {"STATIC", "DELETED"} \subseteq w.host[h].flags})
               \o SetToSeq({h \in Named(w) : "DYNAMIC" \in w.host[h].flags}))

new_lease_file(w) == [w EXCEPT !.file = write_leases(w)]

Started(rs) == Read(Read(Empty, Conf), rs)

-----------------------------------------------------------------------------
Init == \E w \in {new_lease_file(Started(<< >>))} :
            /\ host = w.host /\ byName = w.byName /\ byHw = w.byHw
            /\ byUid = w.byUid /\ file = w.file

\* Bounds: updating a declaration of dhcpd.conf enters its name once more.
Room == Len(file) < MaxFile /\ Len(byName) <= Cardinality(Hosts)

Opening(w, h, d) == IfEntered(w, enter_host([w EXCEPT !.host[h] = d], h, TRUE))

\* An OMAPI client opens a host with create: dhcp_host_create(),
\* dhcp_host_set_value() for each attribute, then the "updated" signal of
\* dhcp_host_signal_handler().  One of the two identities is required.
Create(name, id, addr) ==
    /\ Room
    /\ Unused(World) # {}
    /\ id # <<Null, Null>>
    /\ Becomes(Collected(Opening(World, CHOOSE x \in Unused(World) : TRUE,
                                 [name |-> name, hw |-> id[1], uid |-> id[2], addr |-> addr,
                                  flags |-> {"DYNAMIC"}, n_ipaddr |-> Null])))

\* dhcp_host_lookup() by one key: a deleted declaration isn't returned.
dhcp_host_lookup(t, key) ==
    LET h == hash_lookup(t, key)
    IN  IF h = Null THEN Null
        ELSE IF "DELETED" \in host[h].flags THEN Null ELSE h

Opened == {dhcp_host_lookup(byName, host[h].name) : h \in Hosts} \ {Null}

\* A client changes the fixed address of a host it has opened: name, hardware
\* address and client identifier can only be set once.
Update(h, addr) ==
    /\ Room
    /\ host[h].addr # addr
    /\ Becomes(Collected(enter_host([World EXCEPT !.host[h].addr = addr],
                                    h, TRUE).w))

\* dhcp_host_remove().
dhcp_host_remove(h) == Room /\ Becomes(Collected(delete_host(World, h, TRUE)))

\* The lease file is written anew from time to time.
Rewrite == file # write_leases(World) /\ Becomes(new_lease_file(World))

\* The server stops and is started again.
Restart == Becomes(new_lease_file(Started(file)))

Next ==
    \/ \E name \in Names, id \in Idents, addr \in Addrs : Create(name, id, addr)
    \/ \E h \in Opened, addr \in Addrs : Update(h, addr)
    \/ \E h \in Opened : dhcp_host_remove(h)
    \/ Rewrite
    \/ Restart

Spec == Init /\ [][Next]_vars

-----------------------------------------------------------------------------
find_hosts_by_haddr(w, hw) == OnList(w, hash_lookup(w.byHw, hw))
find_hosts_by_uid(w, uid) == OnList(w, hash_lookup(w.byUid, uid))

InUse(w) == {h \in Hosts : w.host[h] # NoHost /\ "DELETED" \notin w.host[h].flags}
Keys == {host[h].hw : h \in Hosts} \cup {host[h].uid : h \in Hosts}

\* A client is given exactly the hosts declared for it: the lists found by a
\* hardware address and by a client identifier are the hosts with that
\* identity that haven't been deleted, whatever was created, changed, deleted
\* and read again.
HostsFound ==
    \A k \in Keys \ {Null} :
        /\ find_hosts_by_haddr(World, k) = {h \in InUse(World) : host[h].hw = k}
        /\ find_hosts_by_uid(World, k) = {h \in InUse(World) : host[h].uid = k}

\* Every list of hosts has an end: find_host_for_network() and the loops that
\* look for the end of a list return.
ListsEnd == \A h \in InUse(World) : Ends(World, h)

\* The declarations in use, by name.
Known(w) == {[w.host[h] EXCEPT !.flags = {}, !.n_ipaddr = Null] : h \in InUse(w)}
DynamicOnly(w) == {d \in Known(w) : d.name \notin {r.name : r \in Declared}}

\* What an OMAPI client created, changed or deleted is recorded in the lease
\* file: a server that starts from it has the same declarations, those of
\* dhcpd.conf that were deleted being gone.
Remembers(again) ==
    /\ DynamicOnly(again) = DynamicOnly(World)
    /\ \A r \in Declared :
          r.name \in {d.name : d \in Known(again)} <=> r.name \in {d.name : d \in Known(World)}
FileRemembers == Remembers(Started(file))
=============================================================================
