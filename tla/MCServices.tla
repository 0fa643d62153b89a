----------------------------- MODULE MCServices -----------------------------
(***************************************************************************)
(* Parts of the server and its tools that change state in one process. A   *)
(* behaviour is one of:                                                    *)
(*   "ddns", "ddns2"    one address whose updates may fail, two addresses; *)
(*   "chain", "handle"  OMAPI objects in chains, OMAPI objects with        *)
(*                      handles;                                           *)
(*   "options"          a reply, and what its receiver finds in it;        *)
(*   "relay6"           three DHCPv6 relays and the server;                *)
(*   "replace"          the lease file, when anything may fail;            *)
(*   "failover"         the failover states, when servers announce that    *)
(*                      they shut down or lose their lease files, and      *)
(*                      nobody declares a partner down.                    *)
(* They run on the variables x1, x2, ..., which are 0 when not in use.     *)
(***************************************************************************)
EXTENDS Integers, Sequences, FiniteSets, TLC

CONSTANTS a1, a2, c1, c2, n1, n2, None, o1, o2, o3, Null, l1

VARIABLES which, x1, x2, x3, x4, x5, x6, x7, x8, x9, x10, x11, x12, x13

xs == <<x1, x2, x3, x4, x5, x6, x7, x8, x9, x10, x11, x12, x13>>

Idle11 == x11 = 0 /\ x12 = 0 /\ x13 = 0
Idle7 == x7 = 0 /\ x8 = 0 /\ x9 = 0 /\ x10 = 0 /\ Idle11
Idle5 == x5 = 0 /\ x6 = 0 /\ Idle7

-----------------------------------------------------------------------------
(* Two clients that may want the same name.                                *)
HasNames == (c1 :> {n1, n2}) @@ (c2 :> {n1, None})

Ddns1 == INSTANCE Ddns WITH
    Addrs <- {a1}, Owners <- {c1, c2}, Names <- {n1, n2}, MaxCbs <- 4, Families <- {"v4", "v6"},
    HasName <- HasNames, Optimize <- TRUE, ConflictDetect <- TRUE, ClientUpdates <- BOOLEAN,
    MaxAcks <- 2, MaxFaults <- 1,
    family <- x1, lease <- x2, cbs <- x3, msgs <- x4, events <- x5, active <- x6, zone <- x7,
    disturbed <- x8, acks <- x9, faults <- x10

Ddns2 == INSTANCE Ddns WITH
    Addrs <- {a1, a2}, Owners <- {c1, c2}, Names <- {n1, n2}, MaxCbs <- 5, Families <- {"v4", "v6"},
    HasName <- HasNames, Optimize <- TRUE, ConflictDetect <- TRUE, ClientUpdates <- {FALSE},
    MaxAcks <- 2, MaxFaults <- 0,
    family <- x1, lease <- x2, cbs <- x3, msgs <- x4, events <- x5, active <- x6, zone <- x7,
    disturbed <- x8, acks <- x9, faults <- x10

Chain == INSTANCE OmapiObjects WITH
    Objects <- {o1, o2, o3}, Chained <- {o1, o2, o3}, TableSize <- 2, MaxHandle <- 1, MaxHeld <- 2,
    ptr <- x1, refcnt <- x2, handle <- x3, live <- x4, table <- x5, next_handle <- x6

Handle == INSTANCE OmapiObjects WITH
    Objects <- {o1, o2, o3}, Chained <- {}, TableSize <- 2, MaxHandle <- 9, MaxHeld <- 2,
    ptr <- x1, refcnt <- x2, handle <- x3, live <- x4, table <- x5, next_handle <- x6

Replace == INSTANCE LeaseFile WITH
    Leases <- {l1}, Seconds <- {"dhcpd.leases.1", "dhcpd.leases.2"}, Inodes <- 1..5,
    Faults <- {"write", "open", "rewrite", "link", "rename"}, TornWrites <- TRUE,
    MaxVersion <- 2, MaxRecords <- 3,
    mem <- x1, written <- x2, promised <- x3, data <- x4, synced <- x5, dir <- x6, db_file <- x7,
    lease_file_is_corrupt <- x8, counting <- x9, count <- x10, due <- x11, caller <- x12, calls <- x13

Pair == INSTANCE FailoverState WITH
    AutoPartnerDown <- FALSE, Shutdowns <- TRUE, LostFiles <- TRUE, OperatorStates <- {},
    WritesMayFail <- FALSE, MaxFaults <- 2,
    srv <- x1, disk <- x2, up <- x3, chan <- x4, alive <- x5, recent <- x6, faults <- x7

-----------------------------------------------------------------------------
(* Options that fit, have to be split, or do not fit.                      *)
Unset == [u \in {"dhcp", "agent", "space", "dhcp6", "space6", "vsio", "acme"} |-> << >>]
Val(code, n) == [i \in 1..n |-> 1000 * code + i]
One(code, n) == code :> <<Val(code, n)>>
Type == 53 :> <<<<2>>>>

V4 == {Type @@ One(1, 2) @@ One(3, 2) @@ One(12, a) @@ One(15, b) : a \in {1, 6, 9}, b \in {4, 8, 15}}
        \cup {Type @@ One(1, 2) @@ One(118, 1) @@ One(61, 3) @@ One(15, b) : b \in 1..10}
Agents == {<< >>, One(1, 2), One(1, 4) @@ One(2, 3)}
Spaces == {<< >>, One(7, 2) @@ One(8, 1)}

Replies4 ==
  {[version |-> 4, opts |-> [Unset EXCEPT !["dhcp"] = d, !["agent"] = a, !["space"] = s],
    prl |-> p, echo |-> e, fqdn |-> FALSE, type |-> t, mms |-> 0, client_mms |-> m, bootp |-> 0,
    server |-> TRUE, overload |-> o, terminate |-> z] :
      d \in V4, a \in Agents, s \in Spaces,
      p \in {<< >>, <<3, 1, 15, 12, 3>>, <<15, 82, 200, 1>>}, e \in {FALSE},
      t \in {"DHCPREQUEST"}, m \in {0, 36}, o \in SUBSET {"file", "sname"}, z \in BOOLEAN}
  \cup
  {[version |-> 4, opts |-> [Unset EXCEPT !["dhcp"] = d],
    prl |-> p, echo |-> e, fqdn |-> TRUE, type |-> t, mms |-> m, client_mms |-> 44, bootp |-> b,
    server |-> FALSE, overload |-> {}, terminate |-> FALSE] :
      d \in V4, p \in {<< >>, <<1, 3, 15, 6, 12, 15, 81>>}, e \in BOOLEAN,
      t \in {"DHCPINFORM"}, m \in {0, 20, 34, 60}, b \in {0, 10, 30}}

Replies6 ==
  {[version |-> 6, opts |-> [Unset EXCEPT !["dhcp6"] = d, !["space6"] = s, !["acme"] = v],
    required |-> <<1, 2, 13>>, oro |-> o, buflen |-> b] :
      d \in {One(1, 2) @@ (23 :> <<Val(23, 3), Val(24, 1), Val(25, 2)>>),
             One(2, 2) @@ (13 :> <<Val(13, 0)>>)},
      s \in Spaces, v \in {<< >>, One(4, 3), One(4, 3) @@ One(5, 1)},
      o \in {<< >>, <<23, 2, 200>>, <<17, 23>>, <<200, 17, 23>>}, b \in {12, 20, 26, 30, 34, 60}}

Opt == INSTANCE Options WITH
    CHUNK <- 7, DHCP_FIXED_LEN <- 10, DHCP_MTU_MIN <- 30, DHCP_MTU_MAX <- 48, DHCP_FILE_LEN <- 9,
    DHCP_SNAME_LEN <- 8, BOOTP_LEN <- 14, AGENT_LEN <- 20, PRIORITY_COUNT <- 14, Text <- {12, 15},
    Replies <- Replies4, Replies6 <- Replies6,
    reply <- x1, packet <- x2, got <- x3, phase <- x4

-----------------------------------------------------------------------------
(* Three relays: r1 with two links of clients, r2 between it, r3 and the   *)
(* server, and r3, to which r2 also sends what it forwards.                *)
Relays == {"r1", "r2", "r3"}
Owner == ("r1a" :> "r1") @@ ("r1b" :> "r1") @@ ("r1u" :> "r1") @@ ("r2m" :> "r2") @@ ("r2x" :> "r2") @@
           ("r2u" :> "r2") @@ ("r3u" :> "r3") @@ ("r3d" :> "r3") @@ ("s1" :> "s") @@
           ("ca" :> "ca") @@ ("cb" :> "cb") @@ ("cs" :> "cs")
LinkOf == ("r1a" :> "La") @@ ("ca" :> "La") @@ ("r1b" :> "Lb") @@ ("cb" :> "Lb") @@ ("r1u" :> "Lm") @@
            ("r2m" :> "Lm") @@ ("r2x" :> "Lx") @@ ("r2u" :> "Ls") @@ ("s1" :> "Ls") @@ ("cs" :> "Ls") @@
            ("r3u" :> "Lm") @@ ("r3d" :> "Lc")
NetOf == [a \in DOMAIN LinkOf |-> LinkOf[a]]
Downs == [r \in Relays |->
              CASE r = "r1" -> <<[link |-> "r1a", id |-> 1], [link |-> "r1b", id |-> 2]>>
                [] r = "r2" -> <<[link |-> "r2x", id |-> 1], [link |-> "r2m", id |-> 2]>>
                [] r = "r3" -> <<[link |-> "r3d", id |-> 1]>>]
Ups == [r \in Relays |-> CASE r = "r1" -> {"r2m"} [] r = "r2" -> {"s1", "r3u"} [] r = "r3" -> {"r2m"}]
Source == [r \in Relays |-> CASE r = "r1" -> "r1u" [] r = "r2" -> "r2u" [] r = "r3" -> "r3u"]
Interface == [s \in {"s1"} |-> "Ls"]
Ias(na, ta) == [t \in {"NA", "TA", "PD"} |-> CASE t = "NA" -> na [] t = "TA" -> ta [] OTHER -> <<>>]
Msg(t, c, sid, uni, ias) == [dir |-> "up", type |-> t, xid |-> c, cid |-> TRUE, sid |-> sid, unicast |-> uni,
                             ias |-> ias, rapid |-> FALSE, hdrs |-> <<>>]
First == [c \in {"ca", "cb", "cs"} |-> CASE c = "ca" -> "r1a" [] c = "cb" -> "r1b" [] c = "cs" -> "s1"]
Messages(c) ==
    {Msg("SOLICIT", c, "none", FALSE, Ias(<<>>, <<>>)), Msg("REQUEST", c, "ours", FALSE, Ias(<<<<"ca">>>>, <<>>)),
     Msg("REBIND", c, "none", FALSE, Ias(<<<<"ca">>>>, <<>>)),
     Msg("REQUEST", c, "other", FALSE, Ias(<<>>, <<>>)), Msg("DHCPV4-QUERY", c, "none", FALSE, Ias(<<>>, <<>>)),
     Msg("CONFIRM", c, "none", FALSE, Ias(<<<<"ca">>>>, <<<<"cb">>>>)),
     Msg("CONFIRM", c, "none", FALSE, Ias(<<<<>>, <<"ca">>>>, <<>>)), Msg("CONFIRM", c, "none", FALSE, Ias(<<<<>>>>, <<>>)),
     Msg("INFORMATION-REQUEST", c, "none", FALSE, Ias(<<>>, <<>>)), Msg("ADVERTISE", c, "none", FALSE, Ias(<<>>, <<>>))}
Requests ==
    UNION {{[to |-> First[c], from |-> c, p |-> m] : m \in Messages(c)} : c \in DOMAIN First}
      \union {[to |-> "s1", from |-> c, p |-> Msg("RENEW", c, "ours", TRUE, Ias(<<<<c>>>>, <<>>))] : c \in DOMAIN First}

Link6 == INSTANCE Relay6 WITH
    UnicastNets <- {"La"}, UseIfId <- {"r1"}, max_hop_count <- 3, Servers <- {"s1"}, MaxSent <- 1,
    net <- x1, ipc <- x2, got <- x3, sent <- x4

-----------------------------------------------------------------------------
ServicesInit ==
    \/ which = "ddns" /\ Ddns1!Init /\ Idle11
    \/ which = "ddns2" /\ Ddns2!Init /\ Idle11
    \/ which = "chain" /\ Chain!Init /\ Idle7
    \/ which = "handle" /\ Handle!Init /\ Idle7
    \/ which = "options" /\ Opt!Init /\ Idle5
    \/ which = "relay6" /\ Link6!Init /\ Idle5
    \/ which = "replace" /\ Replace!Init
    \/ which = "failover" /\ Pair!Init /\ x8 = 0 /\ x9 = 0 /\ x10 = 0 /\ Idle11

ServicesNext ==
    /\ UNCHANGED which
    /\ \/ which = "ddns" /\ Ddns1!Next /\ UNCHANGED <<x11, x12, x13>>
       \/ which = "ddns2" /\ Ddns2!Next /\ UNCHANGED <<x11, x12, x13>>
       \/ which = "chain" /\ Chain!Next /\ UNCHANGED <<x7, x8, x9, x10, x11, x12, x13>>
       \/ which = "handle" /\ Handle!Next /\ UNCHANGED <<x7, x8, x9, x10, x11, x12, x13>>
       \/ which = "options" /\ Opt!Next /\ UNCHANGED <<x5, x6, x7, x8, x9, x10, x11, x12, x13>>
       \/ which = "relay6" /\ Link6!Next /\ UNCHANGED <<x5, x6, x7, x8, x9, x10, x11, x12, x13>>
       \/ which = "replace" /\ Replace!Next
       \/ which = "failover" /\ Pair!Next /\ UNCHANGED <<x8, x9, x10, x11, x12, x13>>

ServicesSpec == ServicesInit /\ [][ServicesNext]_<<which, xs>>

\* Two states of the lease file that differ only in which inode is which, or in
\* the contents of a file that nothing will read or append to, have the same
\* future.
Contents(f) == IF f = None THEN None ELSE <<x4[f], x5[f]>>
FileView ==
    LET inUse == {Replace!DB} \cup {x13[i].name : i \in DOMAIN x13}
    IN <<x1, x2, x3, x8, x9, x10, x11, x12, x13, [n \in inUse |-> Contents(x6[n])], Contents(x7),
         {n \in Replace!Names : x6[n] = None}, {n \in Replace!Names : x6[n] = x7},
         {p \in Replace!Names \X Replace!Names : x6[p[1]] = x6[p[2]]}>>
ServicesView == <<which, IF which = "replace" THEN FileView ELSE xs>>

-----------------------------------------------------------------------------
\* Ddns: however control blocks are canceled, chained, answered and freed, leases
\* and answers only refer to blocks that are theirs (BlocksInOrder), a name with
\* addresses carries the DHCID of one client (OneOwner), and a record that an
\* undisturbed update left in DNS is one its lease will remove (RecordsRemembered).
NamesSound ==
    /\ which = "ddns" => Ddns1!BlocksInOrder /\ Ddns1!OneOwner /\ Ddns1!RecordsRemembered
    /\ which = "ddns2" => Ddns2!BlocksInOrder /\ Ddns2!OneOwner /\ Ddns2!RecordsRemembered

\* OmapiObjects: giving up a reference frees nothing that is still pointed to
\* (NothingDangles), a chain nobody points to is freed (NothingLeaks), and a
\* handle finds its object and no other (HandlesFind).
ObjectsSound ==
    /\ which = "chain" => Chain!NothingDangles /\ Chain!NothingLeaks
    /\ which = "handle" => Handle!NothingDangles /\ Handle!NothingLeaks /\ Handle!HandlesFind

\* Options: parse_options() finds what cons_options() was given, and the receiver
\* of store_options6() likewise (OptionsReadBack, OptionsReadBack6); no field of a
\* message overflows (FieldsHold), an option that is not sent had no room
\* (NothingLeftOut), and the subnet mask comes before the routers
\* (MaskBeforeRouters).
OptionsArrive ==
    which = "options" => /\ Opt!OptionsReadBack /\ Opt!OptionsReadBack6
                         /\ Opt!FieldsHold /\ Opt!NothingLeftOut /\ Opt!MaskBeforeRouters

\* Relay6: an answer finds its way back through the relays (AnswersRetrace), the
\* server answers for the network of the client (NetworkOfClient), a Confirm too
\* (ConfirmTellsTheLink), and relays wrap no message more often than allowed
\* (WrappedWithinLimit).
RelayedSound ==
    which = "relay6" => /\ Link6!AnswersRetrace /\ Link6!NetworkOfClient
                        /\ Link6!ConfirmTellsTheLink /\ Link6!WrappedWithinLimit

\* FailoverState!PartnerDownAlone: a server serves as if it were alone only while
\* its partner, whose shutdown it was told of, does not serve, when nobody declares
\* a partner down and every state reaches the lease file.
PartnerAlone == which = "failover" => Pair!PartnerDownAlone

\* No step destroys what others rely on: only its owner's messages change a name
\* in use (Ddns!NameProtected), and no step of new_lease_file(), whatever fails,
\* makes the database remember less in the worst case of a crash
\* (LeaseFile!ReplacementKeeps).
NothingDestroyed ==
    [][/\ which = "ddns" => Ddns1!OwnersOnly
       /\ which = "ddns2" => Ddns2!OwnersOnly
       /\ which = "replace" => Replace!KeepsLeast]_<<which, xs>>
=============================================================================
