---------------------------- MODULE DhclientProofs ----------------------------
(***************************************************************************)
(* Proofs about Dhclient, for any set of servers, any times and bounds:    *)
(* every handler leaves exactly the timeout of the state it moves to, and  *)
(* the interface has an address only while its server leases it.  Both     *)
(* rest on one inductive invariant, ClientInv, which holds until the       *)
(* operator gives a command.                                               *)
(***************************************************************************)
EXTENDS Dhclient, SequenceTheorems, NaturalsInduction, WellFoundedInduction, TLAPS

(***************************************************************************)
(* The invariant, of a world w that a handler starts from or leaves.       *)
(***************************************************************************)
\* The leases that their servers, which lease for g, honour, but for the time
\* that a reply may be under way.
Honoured(g) ==
    {x \in Leases :
       /\ x.addr \notin Broken
       /\ Past <= x.renewal /\ x.renewal <= x.expiry
       /\ x.expiry >= 0 => x.expiry <= g[x.addr] + MaxDelay}

States == {"INIT", "SELECTING", "REBOOTING", "REQUESTING", "BOUND", "RENEWING"}

Clients(g) ==
    [state : States, active : Honoured(g) \cup {None}, leases : Seq(Honoured(g)),
     offered : Seq(Servers), reject : SUBSET Servers, asked : Servers \cup {None},
     age : Int, timer : [Timeouts -> Nat \cup {Off}]]

Replies == [type : {"OFFER", "ACK", "ACK0", "NAK"}, srv : Servers, age : Int, seen : BOOLEAN]

Grants == {g \in [Servers -> Int] : \A s \in Servers : g[s] <= LeaseTime}

\* Every lease that the client has or has written is honoured.
Data(w) ==
    /\ w \in [client : Clients(w.grant), net : SUBSET Replies, conf : Servers \cup {None},
              file : Seq(Honoured(w.grant)), written : Int, grant : Grants]

Timer(c, f) == c.timer[f]

Quiet(c) == \A f \in Timeouts : Timer(c, f) = Off

Only(c, f) == Timer(c, f) # Off /\ \A h \in Timeouts \ {f} : Timer(c, h) = Off

\* The lease that a request is about.
Asks(c) == c.active # None /\ c.asked = c.active.addr

\* The timeout that each state waits for, and no later than the lease allows.
Waiting(c) ==
    CASE c.state = "INIT" -> Only(c, "state_init") \/ Only(c, "state_reboot")
      [] c.state = "SELECTING" -> Only(c, "send_discover") \/ Only(c, "state_selecting")
      [] c.state = "BOUND" -> /\ c.active # None
                              /\ Only(c, "state_bound")
                              /\ Timer(c, "state_bound") <= c.active.renewal
      [] c.state = "REQUESTING" -> /\ c.asked \in Servers
                                   /\ \/ Only(c, "send_request")
                                      \/ Only(c, "state_init") /\ c.asked \in c.reject
      [] OTHER -> /\ Asks(c)
                  /\ Only(c, "send_request")
                  /\ Timer(c, "send_request") <= c.active.expiry + 1

\* What is under way: acknowledgements of the address asked for, which is the
\* one the client is bound to, no older than the server's lease.
Fits(m, c, g) ==
    /\ m.age <= MaxDelay
    /\ c.state \in {"INIT", "SELECTING"} => m.type = "OFFER"
    /\ c.state = "REQUESTING" /\ m.type = "NAK" => m.srv = c.asked
    /\ m.type = "ACK" => m.srv \notin Broken /\ LeaseTime <= g[m.srv] + m.age
    /\ m.type = "ACK0" => m.srv \in Broken
    /\ m.type \in {"ACK", "ACK0"} => /\ m.srv = c.asked
                                     /\ c.state = "BOUND" => c.asked = c.active.addr

UnderWay(w) == \A m \in w.net : Fits(m, w.client, w.grant)

\* The address in use is that of the active lease, and its server still leases
\* it or has ceased to no longer ago than the lease has expired.
InUse(w) ==
    w.conf # None =>
       /\ w.client.state \in {"BOUND", "RENEWING"}
       /\ w.client.active # None
       /\ w.conf = w.client.active.addr
       /\ w.client.active.expiry <= w.grant[w.conf] + MaxDelay

Sound(w) == Data(w) /\ Waiting(w.client) /\ UnderWay(w) /\ InUse(w)

\* Until the operator gives a command.
ClientInv == commands \in Nat /\ (commands = 0 => Sound(World))

-----------------------------------------------------------------------------
(* A client that starts, the world it starts in and the leases its servers *)
(* have granted before it did.                                             *)
LEMMA FreshClient ==
    ASSUME NEW H, NEW a \in H \cup {None}, NEW ls \in Seq(H),
           NEW t \in [Timeouts -> Nat \cup {Off}]
    PROVE  [state |-> "INIT", active |-> a, leases |-> ls, offered |-> <<>>, reject |-> {},
            asked |-> None, age |-> 0, timer |-> t]
           \in [state : States, active : H \cup {None}, leases : Seq(H),
                offered : Seq(Servers), reject : SUBSET Servers, asked : Servers \cup {None},
                age : Int, timer : [Timeouts -> Nat \cup {Off}]]
BY DEF States

LEMMA FreshWorld ==
    ASSUME NEW C, NEW c \in C, NEW F, NEW log \in F, NEW g \in Grants
    PROVE  [client |-> c, net |-> {}, conf |-> None, file |-> log,
            written |-> MIN_LEASE_WRITE, grant |-> g]
           \in [client : C, net : SUBSET Replies, conf : Servers \cup {None}, file : F,
                written : Int, grant : Grants]
BY DhclientAssumption

LEMMA FreshGrants == [s \in Servers |-> GrantPast] \in Grants
BY DhclientAssumption DEF Grants, GrantPast

-----------------------------------------------------------------------------
(* What reading the lease file returns.                                    *)

(* A set of natural numbers that is not empty has a smallest element.      *)
LEMMA SmallestExists ==
    ASSUME NEW T \in SUBSET Nat, T # {}
    PROVE  \E x \in T : \A y \in T : x <= y
<1>1. PICK x \in T : \A y \in T : ~ (<<y, x>> \in OpToRel(<, Nat))
  BY WFMin, NatLessThanWellFounded, Zenon
<1>2. \A y \in T : ~ (y < x)
  BY <1>1, Zenon DEF OpToRel
<1> QED  BY <1>2

(* Tossing a recorded lease leaves leases of the same set.                 *)
LEMMA TossedIn ==
    ASSUME NEW S, NEW leases \in Seq(S), NEW a
    PROVE  Tossed(leases, a) \in Seq(S)
<1> DEFINE at == {i \in DOMAIN leases : leases[i].addr = a}
<1>1. CASE at = {}
  BY <1>1 DEF Tossed
<1>2. CASE at # {}
  <2>1. at \in SUBSET Nat /\ Len(leases) \in Nat
    OBVIOUS
  <2>2. Min(at) \in at
    BY Zenon, <1>2, <2>1, SmallestExists DEF Min
  <2>3. Min(at) \in 1 .. Len(leases)
    BY <2>2
  <2> DEFINE i == Min(at)
  <2> HIDE DEF i
  <2>4. i \in 1 .. Len(leases)
    BY <2>3 DEF i
  <2>5. SubSeq(leases, 1, i - 1) \in Seq(S) /\ SubSeq(leases, i + 1, Len(leases)) \in Seq(S)
    BY <2>1, <2>4, SubSeqProperties, ElementOfSeq
  <2>6. SubSeq(leases, 1, i - 1) \o SubSeq(leases, i + 1, Len(leases)) \in Seq(S)
    BY <2>5, ConcatProperties
  <2> QED  BY <1>2, <2>6 DEF Tossed, i
<1> QED  BY <1>1, <1>2

(* The last lease read is the active one and the others are recorded: all  *)
(* are leases of the file.                                                 *)
Contents(S) == [active : S \cup {None}, leases : Seq(S)]

LEMMA ParsedIn ==
    ASSUME NEW S, NEW db \in Contents(S), NEW l \in S
    PROVE  parse_client_lease_statement(db, l) \in Contents(S)
<1>1. Tossed(db.leases, l.addr) \in Seq(S)
  BY TossedIn DEF Contents
<1>2. db.active # None => <<db.active>> \o Tossed(db.leases, l.addr) \in Seq(S)
  BY <1>1, ConcatProperties DEF Contents
<1> QED  BY <1>1, <1>2 DEF Contents, parse_client_lease_statement

Reading(log, n, f) ==
    f = [i \in 0 .. n |-> IF i = 0 THEN [active |-> None, leases |-> <<>>]
                         ELSE parse_client_lease_statement(f[i - 1], log[i])]

(* The file can be read up to any lease of it.                             *)
LEMMA ReadingExists ==
    ASSUME NEW log, NEW n \in Nat
    PROVE  \E f : Reading(log, n, f)
<1> DEFINE T == {k \in Nat : ~ \E f : Reading(log, k, f)}
<1>1. SUFFICES ASSUME T # {} PROVE FALSE
  BY Zenon
<1>2. PICK k \in T : \A y \in T : k <= y
  BY Zenon, <1>1, SmallestExists
<1>3. k # 0
  <2> DEFINE f == [i \in 0 .. 0 |-> [active |-> None, leases |-> <<>>]]
  <2>1. Reading(log, 0, f)
    BY DEF Reading
  <2> QED  BY <2>1
<1>4. k \in Nat /\ k - 1 \in Nat /\ k - 1 \notin T
  BY <1>2, <1>3
<1>5. PICK g : Reading(log, k - 1, g)
  BY <1>4
<1> DEFINE f == [i \in 0 .. k |-> IF i = k THEN parse_client_lease_statement(g[k - 1], log[k])
                                ELSE g[i]]
<1>6. \A i \in 0 .. k : f[i] = IF i = 0 THEN [active |-> None, leases |-> <<>>]
                               ELSE parse_client_lease_statement(f[i - 1], log[i])
  <2> SUFFICES ASSUME NEW i \in 0 .. k
               PROVE  f[i] = IF i = 0 THEN [active |-> None, leases |-> <<>>]
                             ELSE parse_client_lease_statement(f[i - 1], log[i])
    OBVIOUS
  <2>1. CASE i = k
    BY <1>3, <1>4, <2>1
  <2>2. CASE i # k
    <3>1. i \in 0 .. (k - 1)
      BY <1>4, <2>2
    <3>2. f[i] = g[i] /\ (i # 0 => f[i - 1] = g[i - 1])
      BY <1>4, <2>2, <3>1
    <3>3. g[i] = IF i = 0 THEN [active |-> None, leases |-> <<>>]
                 ELSE parse_client_lease_statement(g[i - 1], log[i])
      BY <1>5, <3>1 DEF Reading
    <3> HIDE DEF f
    <3> QED  BY <3>2, <3>3
  <2> QED  BY <2>1, <2>2
<1>7. Reading(log, k, f)
  <2> DEFINE e(i) == IF i = 0 THEN [active |-> None, leases |-> <<>>]
                     ELSE parse_client_lease_statement(f[i - 1], log[i])
  <2>1. DOMAIN f = 0 .. k /\ f = [i \in DOMAIN f |-> f[i]]
    OBVIOUS
  <2> HIDE DEF f
  <2>2. f = [i \in 0 .. k |-> e(i)]
    BY <1>6, <2>1
  <2> QED  BY <2>2 DEF Reading
<1> QED  BY <1>2, <1>7

(* The leases read back are leases of the file.                            *)
LEMMA ReadIn ==
    ASSUME NEW S, NEW log \in Seq(S)
    PROVE  read_client_leases(log) \in Contents(S)
<1> DEFINE db == ReadUpTo(log)
           T == {k \in Nat : k <= Len(log) /\ db[k] \notin Contents(S)}
<1>1. Len(log) \in Nat
  OBVIOUS
<1>2. Reading(log, Len(log), db)
  <2>1. PICK f : Reading(log, Len(log), f)
    BY Zenon, <1>1, ReadingExists
  <2> QED  BY <2>1, Zenon DEF Reading, ReadUpTo
<1> HIDE DEF db
<1>3. SUFFICES ASSUME T # {} PROVE FALSE
  <2>1. T = {} => db[Len(log)] \in Contents(S)
    BY <1>1
  <2> HIDE DEF T
  <2>2. read_client_leases(log) = db[Len(log)]
    BY DEF read_client_leases, db
  <2> QED  BY <2>1, <2>2, Zenon
<1>4. PICK k \in T : \A y \in T : k <= y
  BY Zenon, <1>3, SmallestExists
<1>5. k \in 0 .. Len(log)
  BY <1>1, <1>4
<1>6. db[k] = IF k = 0 THEN [active |-> None, leases |-> <<>>]
              ELSE parse_client_lease_statement(db[k - 1], log[k])
  BY Zenon, <1>2, <1>5 DEF Reading
<1>7. k # 0
  <2>1. [active |-> None, leases |-> <<>>] \in Contents(S)
    BY DEF Contents
  <2> QED  BY <1>4, <1>6, <2>1, Zenon
<1>8. k - 1 \in Nat /\ k - 1 <= Len(log) /\ k - 1 \notin T
  BY <1>1, <1>4, <1>5, <1>7
<1>9. db[k - 1] \in Contents(S) /\ log[k] \in S
  BY <1>5, <1>7, <1>8
<1> QED  BY <1>4, <1>6, <1>7, <1>9, ParsedIn

-----------------------------------------------------------------------------
(* What the steps of the handlers do to a world.                           *)

(* A server that grants more honours what it did before.                   *)
LEMMA HonouredGrows ==
    ASSUME NEW g \in Grants, NEW h \in Grants, \A s \in Servers : g[s] <= h[s]
    PROVE  /\ Honoured(g) \subseteq Honoured(h)
           /\ Seq(Honoured(g)) \subseteq Seq(Honoured(h))
<1>1. ASSUME NEW x \in Honoured(g) PROVE x \in Honoured(h)
  <2>1. g[x.addr] \in Int /\ h[x.addr] \in Int /\ g[x.addr] <= h[x.addr] /\ x.expiry \in Int
    BY <1>1 DEF Honoured, Leases, Grants
  <2> QED  BY <1>1, <2>1, DhclientAssumption DEF Honoured
<1>2. Honoured(g) \subseteq Honoured(h)
  BY <1>1
<1> QED  BY <1>2, SeqMonotonic, Zenon

(* All but the timeouts of two worlds is the same.                         *)
Alike(v, w) ==
    /\ v.net = w.net /\ v.conf = w.conf /\ v.grant = w.grant
    /\ v.client.state = w.client.state /\ v.client.active = w.client.active
    /\ v.client.asked = w.client.asked /\ v.client.reject = w.client.reject
    /\ v.client.offered = w.client.offered /\ v.client.age = w.client.age

TimerSet(v, w, f, t) ==
    /\ Data(v) /\ Alike(v, w) /\ Timer(v.client, f) = t
    /\ \A h \in Timeouts \ {f} : Timer(v.client, h) = Timer(w.client, h)

LEMMA AddTimeout ==
    ASSUME NEW w, Data(w), NEW f \in Timeouts, NEW t \in Nat \cup {Off},
           NEW v, v = add_timeout(w, f, t)
    PROVE  TimerSet(v, w, f, t)
<1> DEFINE c == [w.client EXCEPT !.timer[f] = t]
<1>1. c \in Clients(w.grant)
  BY Zenon DEF Data, Clients
<1>2. v = [w EXCEPT !.client = c]
  BY DEF Data, add_timeout
<1>3. /\ c.state = w.client.state /\ c.active = w.client.active /\ c.asked = w.client.asked
      /\ c.reject = w.client.reject /\ c.offered = w.client.offered /\ c.age = w.client.age
      /\ Timer(c, f) = t /\ \A h \in Timeouts \ {f} : Timer(c, h) = Timer(w.client, h)
  BY DEF Data, Clients, Timer
<1> HIDE DEF c
<1>4. /\ v.client = c /\ v.net = w.net /\ v.conf = w.conf /\ v.file = w.file
      /\ v.written = w.written /\ v.grant = w.grant
  BY <1>2 DEF Data
<1>5. Data(v)
  BY <1>1, <1>2, <1>4 DEF Data
<1> QED  BY <1>3, <1>4, <1>5 DEF Alike, TimerSet

TimersOff(v, w, F) ==
    /\ Data(v) /\ Alike(v, w)
    /\ \A h \in Timeouts : Timer(v.client, h) = IF h \in F THEN Off ELSE Timer(w.client, h)

LEMMA CancelTimeout ==
    ASSUME NEW w, Data(w), NEW F, NEW v, v = cancel_timeout(w, F)
    PROVE  TimersOff(v, w, F)
<1> DEFINE c == [w.client EXCEPT !.timer = [f \in Timeouts |-> IF f \in F THEN Off ELSE @[f]]]
<1>1. c \in Clients(w.grant)
  BY Zenon DEF Data, Clients
<1>2. v = [w EXCEPT !.client = c]
  BY DEF Data, cancel_timeout
<1>3. /\ c.state = w.client.state /\ c.active = w.client.active /\ c.asked = w.client.asked
      /\ c.reject = w.client.reject /\ c.offered = w.client.offered /\ c.age = w.client.age
      /\ \A h \in Timeouts : Timer(c, h) = IF h \in F THEN Off ELSE Timer(w.client, h)
  BY DEF Data, Clients, Timer
<1> HIDE DEF c
<1>4. /\ v.client = c /\ v.net = w.net /\ v.conf = w.conf /\ v.file = w.file
      /\ v.written = w.written /\ v.grant = w.grant
  BY <1>2 DEF Data
<1>5. Data(v)
  BY <1>1, <1>2, <1>4 DEF Data
<1> QED  BY <1>3, <1>4, <1>5 DEF Alike, TimersOff

(* The answers add replies and no lease of the client gets shorter.        *)
RepliesAdded(v, w, R) ==
    /\ Data(v) /\ v.client = w.client /\ v.conf = w.conf
    /\ v.net \subseteq w.net \cup R
    /\ \A s \in Servers : w.grant[s] <= v.grant[s]
    /\ \A s \in Servers : Reply("ACK", s) \in R => v.grant[s] = LeaseTime

LEMMA AnsweredIs ==
    ASSUME NEW w, Data(w), NEW R \in SUBSET Replies, NEW v, v = Answered(w, R)
    PROVE  RepliesAdded(v, w, R)
<1> DEFINE h == [s \in Servers |-> IF Reply("ACK", s) \in R THEN LeaseTime ELSE w.grant[s]]
           n == {m \in w.net : \A r \in R : r.type # m.type \/ r.srv # m.srv} \cup R
<1>1. v = [w EXCEPT !.net = n, !.grant = h]
  BY DEF Answered
<1>2. h \in Grants /\ \A s \in Servers : w.grant[s] <= h[s]
  <2>1. w.grant \in Grants /\ LeaseTime \in Int
    BY DhclientAssumption DEF Data
  <2>2. \A s \in Servers : h[s] \in {LeaseTime, w.grant[s]}
    OBVIOUS
  <2>3. h \in [Servers -> {h[s] : s \in Servers}]
    OBVIOUS
  <2> HIDE DEF h
  <2> QED  BY <2>1, <2>2, <2>3 DEF Grants
<1>3. \A s \in Servers : Reply("ACK", s) \in R => h[s] = LeaseTime
  OBVIOUS
<1>4. n \in SUBSET Replies /\ n \subseteq w.net \cup R
  BY DEF Data
<1> HIDE DEF n, h
<1>5. /\ v.client = w.client /\ v.net = n /\ v.conf = w.conf /\ v.file = w.file
      /\ v.written = w.written /\ v.grant = h
  BY <1>1 DEF Data
<1>6. w.client \in Clients(h) /\ w.file \in Seq(Honoured(h))
  BY <1>2, HonouredGrows DEF Data, Clients
<1>7. Data(v)
  BY Zenon, <1>1, <1>2, <1>4, <1>5, <1>6 DEF Data
<1> QED  BY <1>2, <1>3, <1>4, <1>5, <1>7 DEF RepliesAdded

(* A reply still fits when its server's lease has been extended.           *)
LEMMA FitsKept ==
    ASSUME NEW m \in Replies, NEW c, NEW d, NEW g \in Grants, NEW h \in Grants,
           \A s \in Servers : g[s] <= h[s],
           Fits(m, c, g),
           d.state = c.state, d.asked = c.asked, d.active = c.active
    PROVE  Fits(m, d, h)
<1>1. g[m.srv] \in Int /\ h[m.srv] \in Int /\ g[m.srv] <= h[m.srv] /\ m.age \in Int
  BY DEF Grants, Replies
<1> QED  BY <1>1, DhclientAssumption DEF Fits

LEMMA AnswersAre ==
    ASSUME NEW must, NEW may, NEW R \in Answers(must, may)
    PROVE  R \subseteq must \cup may
BY DEF Answers

LEMMA ReplyIs ==
    ASSUME NEW type \in {"OFFER", "ACK", "ACK0", "NAK"}, NEW s \in Servers
    PROVE  /\ Reply(type, s) \in Replies
           /\ Reply(type, s).type = type /\ Reply(type, s).srv = s /\ Reply(type, s).age = 0
BY DEF Reply, Replies

LEMMA TimeoutNames ==
    /\ "state_reboot" \in Timeouts /\ "state_init" \in Timeouts
    /\ "send_discover" \in Timeouts /\ "state_selecting" \in Timeouts
    /\ "send_request" \in Timeouts /\ "state_bound" \in Timeouts
BY DEF Timeouts

LEMMA IntervalIs ==
    ASSUME NEW limit \in Nat, NEW i \in Interval(limit)
    PROVE  i \in Nat /\ i >= 1 /\ i <= limit + 1
BY DhclientAssumption DEF Interval

(* send_discover(): the client waits for offers, or to ask for them again. *)
LEMMA SendDiscoverSound ==
    ASSUME NEW w, Data(w), Quiet(w.client), w.client.state = "SELECTING",
           w.client.age <= timeout, w.conf = None, UnderWay(w),
           NEW v \in SendDiscover(w)
    PROVE  Sound(v)
<1>1. PICK i \in Interval(timeout - w.client.age), u \in Offers(w) :
         v = add_timeout(u, "send_discover", i)
  BY DEF SendDiscover
<1>2. PICK R \in Answers({Reply("OFFER", s) : s \in Servers}, {}) : u = Answered(w, R)
  BY <1>1 DEF Offers
<1>3. /\ R \in SUBSET Replies
      /\ \A m \in R : m.type = "OFFER" /\ m.age = 0
  <2>1. R \subseteq {Reply("OFFER", s) : s \in Servers}
    BY <1>2, AnswersAre
  <2> QED  BY <2>1, ReplyIs
<1>4. RepliesAdded(u, w, R)
  BY <1>2, <1>3, AnsweredIs
<1>5. i \in Nat
  <2>1. timeout - w.client.age \in Nat
    BY DhclientAssumption DEF Data, Clients
  <2> QED  BY <1>1, <2>1, IntervalIs
<1>6. TimerSet(v, u, "send_discover", i)
  <2>1. i \in Nat \cup {Off}
    BY <1>5
  <2> QED  BY Zenon, <1>1, <1>4, <2>1, AddTimeout, TimeoutNames DEF RepliesAdded
<1>7. Waiting(v.client)
  BY <1>4, <1>5, <1>6 DEF Waiting, Only, Quiet, Alike, Off, TimerSet, RepliesAdded
<1>8. UnderWay(v)
  <2> SUFFICES ASSUME NEW m \in v.net PROVE Fits(m, v.client, v.grant)
    BY DEF UnderWay
  <2>1. CASE m \in w.net
    BY <1>4, <1>6, <2>1, FitsKept DEF UnderWay, Data, Alike, TimerSet, RepliesAdded
  <2>2. CASE m \in R
    BY <1>3, <1>4, <1>6, <2>2, DhclientAssumption DEF Fits, Alike, TimerSet, RepliesAdded
  <2> QED  BY <1>4, <1>6, <2>1, <2>2 DEF Alike, TimerSet, RepliesAdded
<1>9. InUse(v)
  BY <1>4, <1>6 DEF InUse, Alike, TimerSet, RepliesAdded
<1> QED  BY <1>6, <1>7, <1>8, <1>9 DEF Sound, TimerSet

(* The move to another state with a request for an address.                *)
Moved(d, c, st, a) ==
    /\ d.state = st /\ d.asked = a /\ d.age = 0
    /\ d.active = c.active /\ d.leases = c.leases /\ d.offered = c.offered
    /\ d.reject = c.reject /\ \A f \in Timeouts : Timer(d, f) = Timer(c, f)

LEMMA MovedIs ==
    ASSUME NEW g, NEW c \in Clients(g), NEW st \in States, NEW a \in Servers \cup {None},
           NEW d, d = [c EXCEPT !.state = st, !.age = 0, !.asked = a]
    PROVE  d \in Clients(g) /\ Moved(d, c, st, a)
<1> DEFINE c1 == [c EXCEPT !.state = st]
           c2 == [c1 EXCEPT !.age = 0]
<1>1. /\ c1 \in Clients(g) /\ c1.state = st
      /\ c1.active = c.active /\ c1.leases = c.leases /\ c1.offered = c.offered
      /\ c1.reject = c.reject /\ c1.timer = c.timer
  BY DEF Clients
<1> HIDE DEF c1
<1>2. /\ c2 \in Clients(g) /\ c2.state = c1.state /\ c2.age = 0
      /\ c2.active = c1.active /\ c2.leases = c1.leases /\ c2.offered = c1.offered
      /\ c2.reject = c1.reject /\ c2.timer = c1.timer
  BY <1>1 DEF Clients
<1>3. d = [c2 EXCEPT !.asked = a]
  BY DEF c1
<1> HIDE DEF c2
<1>4. /\ d \in Clients(g) /\ d.state = c2.state /\ d.age = c2.age /\ d.asked = a
      /\ d.active = c2.active /\ d.leases = c2.leases /\ d.offered = c2.offered
      /\ d.reject = c2.reject /\ d.timer = c2.timer
  BY Zenon, <1>2, <1>3 DEF Clients
<1> QED  BY <1>1, <1>2, <1>4 DEF Moved, Timer

(* state_init(): the client has no address and starts to discover.         *)
LEMMA StateInitSound ==
    ASSUME NEW w, Data(w), Quiet(w.client), w.conf = None,
           NEW v \in state_init(w)
    PROVE  Sound(v)
<1> DEFINE asked == IF w.client.active = None THEN None ELSE w.client.active.addr
           c == [w.client EXCEPT !.state = "SELECTING", !.age = 0, !.asked = asked]
           u == [w EXCEPT !.client = c, !.net = {}]
<1>1. asked \in Servers \cup {None}
  BY DEF Data, Clients, Honoured, Leases
<1>2. v \in SendDiscover(u)
  BY Zenon DEF state_init, NewXid, Data, Clients
<1> HIDE DEF asked
<1>3. c \in Clients(w.grant) /\ Moved(c, w.client, "SELECTING", asked)
  <2>1. w.client \in Clients(w.grant) /\ "SELECTING" \in States
    BY DEF Data, States
  <2> QED  BY Zenon, <1>1, <2>1, MovedIs
<1> HIDE DEF c
<1>4. u.client = c /\ u.net = {} /\ u.conf = None /\ u.grant = w.grant
  BY DEF Data
<1>5. Data(u)
  BY Zenon, <1>3 DEF Data
<1> HIDE DEF u
<1>6. Quiet(u.client) /\ u.client.age <= timeout /\ UnderWay(u)
  BY <1>3, <1>4, DhclientAssumption DEF Quiet, UnderWay, Moved
<1> QED  BY <1>2, <1>3, <1>4, <1>5, <1>6, SendDiscoverSound DEF Moved

(* A client about to send a DHCPREQUEST.                                   *)
Asking(w) ==
    /\ Data(w) /\ Quiet(w.client) /\ UnderWay(w) /\ InUse(w)
    /\ w.client.state \in {"REQUESTING", "REBOOTING", "RENEWING"}
    /\ w.client.asked \in Servers
    /\ w.client.state # "REQUESTING" => Asks(w.client)

(* The answers to a request for the address of s.                          *)
LEMMA AcksAre ==
    ASSUME NEW w, NEW s \in Servers, NEW anyone, NEW u \in Acks(w, s, anyone)
    PROVE  \E R \in SUBSET Replies :
              /\ u = Answered(w, R)
              /\ \A m \in R :
                    /\ m.age = 0
                    /\ \/ m = Reply("ACK", s) /\ m.type = "ACK" /\ m.srv = s /\ s \notin Broken
                       \/ m.type = "ACK0" /\ m.srv = s /\ s \in Broken
                       \/ m.type = "NAK" /\ (~anyone => m.srv = s)
<1> DEFINE N == {Reply("NAK", t) : t \in IF anyone THEN Servers ELSE {s}}
<1>1. PICK R \in Answers({Acknowledge(s)}, N) : u = Answered(w, R)
  BY DEF Acks
<1>2. R \subseteq {Acknowledge(s)} \cup N
  BY <1>1, AnswersAre
<1>3. ASSUME NEW m \in R
      PROVE  /\ m \in Replies /\ m.age = 0
             /\ \/ m = Reply("ACK", s) /\ m.type = "ACK" /\ m.srv = s /\ s \notin Broken
                \/ m.type = "ACK0" /\ m.srv = s /\ s \in Broken
                \/ m.type = "NAK" /\ (~anyone => m.srv = s)
  <2>1. CASE m = Acknowledge(s)
    BY <2>1, ReplyIs DEF Acknowledge
  <2>2. CASE m \in N
    BY <2>2, ReplyIs
  <2> QED  BY <1>2, <2>1, <2>2
<1> QED  BY <1>1, <1>3

(* send_request(): the request is repeated no later than one second after  *)
(* the lease has expired.                                                  *)
LEMMA SendRequestSound ==
    ASSUME NEW w, Asking(w), w.client.state # "REQUESTING" => w.client.active.expiry >= 0,
           NEW v \in SendRequest(w)
    PROVE  Sound(v)
<1> DEFINE c == w.client
           limit == IF c.state = "REQUESTING" THEN MaxInterval ELSE c.active.expiry
           anyone == c.state # "REQUESTING" /\ (c.state = "REBOOTING" \/ c.active.rebind < 0)
<1>1. PICK i \in Interval(limit), u \in Acks(w, c.asked, anyone) :
         v = add_timeout(u, "send_request", i)
  BY Zenon DEF SendRequest
<1>2. c.state = "REQUESTING" => ~anyone
  OBVIOUS
<1>3. i \in Nat /\ (c.state # "REQUESTING" => i <= c.active.expiry + 1)
  <2>1. limit \in Nat
    BY DhclientAssumption DEF Asking, Asks, Data, Clients, Honoured, Leases
  <2>2. i \in Nat /\ i <= limit + 1
    BY <1>1, <2>1, IntervalIs
  <2> QED  BY <2>2
<1> HIDE DEF anyone, limit
<1>4. PICK R \in SUBSET Replies :
         /\ u = Answered(w, R)
         /\ \A m \in R :
               /\ m.age = 0
               /\ \/ /\ m = Reply("ACK", c.asked) /\ m.type = "ACK" /\ m.srv = c.asked
                     /\ c.asked \notin Broken
                  \/ m.type = "ACK0" /\ m.srv = c.asked /\ c.asked \in Broken
                  \/ m.type = "NAK" /\ (~anyone => m.srv = c.asked)
  BY <1>1, AcksAre DEF Asking
<1>5. RepliesAdded(u, w, R)
  BY <1>4, AnsweredIs DEF Asking
<1>6. TimerSet(v, u, "send_request", i)
  <2>1. i \in Nat \cup {Off}
    BY <1>3
  <2> QED  BY <1>1, <1>5, <2>1, AddTimeout, TimeoutNames DEF RepliesAdded
<1>7. /\ v.client.state = c.state /\ v.client.asked = c.asked /\ v.client.active = c.active
      /\ v.client.reject = c.reject /\ v.conf = w.conf /\ v.grant = u.grant /\ v.net = u.net
  BY <1>5, <1>6 DEF Alike, TimerSet, RepliesAdded
<1>8. Waiting(v.client)
  <2>1. Only(v.client, "send_request") /\ Timer(v.client, "send_request") = i
    BY <1>3, <1>5, <1>6 DEF Asking, Only, Quiet, Off, TimerSet, RepliesAdded
  <2>2. CASE c.state = "REQUESTING"
    BY <1>7, <2>1, <2>2 DEF Asking, Waiting
  <2>3. CASE c.state # "REQUESTING"
    BY <1>3, <1>7, <2>1, <2>3 DEF Asking, Waiting, Asks
  <2> QED  BY <2>2, <2>3
<1>9. UnderWay(v)
  <2> SUFFICES ASSUME NEW m \in v.net PROVE Fits(m, v.client, v.grant)
    BY DEF UnderWay
  <2>1. CASE m \in w.net
    <3>1. Fits(m, c, w.grant) /\ m \in Replies
      BY <2>1 DEF Asking, UnderWay, Data
    <3>2. w.grant \in Grants /\ v.grant \in Grants /\ \A s \in Servers : w.grant[s] <= v.grant[s]
      BY <1>5, <1>6, <1>7 DEF Asking, Data, RepliesAdded, TimerSet
    <3> QED  BY <1>7, <3>1, <3>2, FitsKept
  <2>2. CASE m \in R
    <3>1. m.age = 0 /\ m.age <= MaxDelay
      BY <1>4, <2>2, DhclientAssumption
    <3>2. m.type = "ACK" => v.grant[m.srv] = LeaseTime
      BY <1>4, <1>5, <1>7, <2>2 DEF Asking, RepliesAdded
    <3>3. v.client.state \in {"REQUESTING", "REBOOTING", "RENEWING"}
      BY <1>7 DEF Asking
    <3> QED  BY <1>2, <1>4, <1>7, <2>2, <3>1, <3>2, <3>3, DhclientAssumption DEF Fits
  <2> QED  BY <1>5, <1>7, <2>1, <2>2 DEF RepliesAdded
<1>10. InUse(v)
  <2> SUFFICES ASSUME w.conf # None PROVE InUse(v)
    BY <1>7 DEF InUse
  <2>1. /\ c.state \in {"BOUND", "RENEWING"} /\ c.active # None /\ w.conf = c.active.addr
        /\ c.active.expiry <= w.grant[w.conf] + MaxDelay
    BY DEF Asking, InUse
  <2>2. /\ w.conf \in Servers /\ w.grant[w.conf] \in Int /\ u.grant[w.conf] \in Int
        /\ w.grant[w.conf] <= u.grant[w.conf] /\ c.active.expiry \in Int
    BY <1>5, <2>1 DEF Asking, RepliesAdded, Data, Grants, Clients, Honoured, Leases
  <2>3. c.active.expiry <= u.grant[w.conf] + MaxDelay
    BY <2>1, <2>2, DhclientAssumption
  <2> QED  BY <1>7, <2>1, <2>3 DEF InUse
<1> QED  BY <1>6, <1>8, <1>9, <1>10 DEF Sound, TimerSet

LEMMA Unconfigured ==
    ASSUME NEW w, Data(w), NEW v, v = Unconfigure(w)
    PROVE  /\ Data(v) /\ v.client = w.client /\ v.net = w.net /\ v.grant = w.grant
           /\ v.conf = None
BY DEF Data, Unconfigure

LEMMA ClientSet ==
    ASSUME NEW w, Data(w), NEW c \in Clients(w.grant), NEW v, v = [w EXCEPT !.client = c]
    PROVE  /\ Data(v) /\ v.client = c /\ v.net = w.net /\ v.conf = w.conf
           /\ v.grant = w.grant
BY DEF Data

(* send_request(), with the end of the attempt and of the lease.           *)
LEMMA send_requestSound ==
    ASSUME NEW w, Asking(w), NEW v \in send_request(w)
    PROVE  Sound(v)
<1> DEFINE c == w.client
<1>1. CASE c.state \in {"REBOOTING", "REQUESTING"} /\ c.age > reboot_timeout
  <2> DEFINE u == cancel_timeout(w, {"send_request"})
  <2>1. v \in state_init(u)
    BY <1>1 DEF send_request
  <2>2. TimersOff(u, w, {"send_request"})
    BY CancelTimeout DEF Asking
  <2> HIDE DEF u
  <2>3. w.conf = None
    BY <1>1 DEF Asking, InUse
  <2>4. Data(u) /\ Quiet(u.client) /\ u.conf = None
    BY <2>2, <2>3 DEF Asking, TimersOff, Quiet, Alike
  <2> QED  BY <2>1, <2>4, StateInitSound
<1>2. CASE c.state # "REQUESTING" /\ c.active.expiry < 0
           /\ ~(c.state \in {"REBOOTING", "REQUESTING"} /\ c.age > reboot_timeout)
  <2> DEFINE u == Unconfigure(w)
  <2>1. v \in state_init(u)
    BY <1>2 DEF send_request, Asking, Asks
  <2>2. Data(u) /\ u.client = w.client /\ u.conf = None
    BY Unconfigured DEF Asking
  <2> HIDE DEF u
  <2> QED  BY <2>1, <2>2, StateInitSound DEF Asking
<1>3. CASE ~(c.state # "REQUESTING" /\ c.active.expiry < 0)
           /\ ~(c.state \in {"REBOOTING", "REQUESTING"} /\ c.age > reboot_timeout)
  <2>1. v \in SendRequest(w)
    BY <1>3 DEF send_request, Asking, Asks
  <2>2. c.state # "REQUESTING" => c.active.expiry >= 0
    BY <1>3 DEF Asking, Asks, Data, Clients, Honoured, Leases
  <2> QED  BY <2>1, <2>2, SendRequestSound
<1> QED  BY <1>1, <1>2, <1>3

(* state_reboot(): an unexpired lease of the file is asked for again.      *)
LEMMA StateRebootSound ==
    ASSUME NEW w, Data(w), Quiet(w.client), w.conf = None, NEW v \in state_reboot(w)
    PROVE  Sound(v)
<1>1. CASE w.client.active = None \/ w.client.active.expiry <= 0
  BY <1>1, StateInitSound DEF state_reboot
<1>2. CASE ~(w.client.active = None \/ w.client.active.expiry <= 0)
  <2> DEFINE a == w.client.active.addr
             c == [w.client EXCEPT !.state = "REBOOTING", !.age = 0, !.asked = a]
             u == [w EXCEPT !.client = c, !.net = {}]
  <2>1. v \in send_request(u)
    BY Zenon, <1>2 DEF state_reboot, NewXid, Data, Clients
  <2>2. a \in Servers
    BY <1>2 DEF Data, Clients, Honoured, Leases
  <2>3. c \in Clients(w.grant) /\ Moved(c, w.client, "REBOOTING", a)
    <3>1. w.client \in Clients(w.grant) /\ "REBOOTING" \in States
      BY DEF Data, States
    <3> QED  BY Zenon, <2>2, <3>1, MovedIs
  <2> HIDE DEF c
  <2>4. Data(u) /\ u.client = c /\ u.net = {} /\ u.conf = None /\ u.grant = w.grant
    BY Zenon, <2>3 DEF Data
  <2> HIDE DEF u
  <2>5. Asking(u)
    BY <1>2, <2>2, <2>3, <2>4 DEF Asking, Quiet, UnderWay, InUse, Moved, Asks
  <2> QED  BY <2>1, <2>5, send_requestSound
<1> QED  BY <1>1, <1>2

(* state_bound(): the lease is asked for again.                            *)
LEMMA StateBoundSound ==
    ASSUME NEW w, Data(w), Quiet(w.client), UnderWay(w), InUse(w),
           w.client.state = "BOUND", w.client.active # None,
           NEW v \in state_bound(w)
    PROVE  Sound(v)
<1> DEFINE a == w.client.active.addr
           c == [w.client EXCEPT !.state = "RENEWING", !.age = 0, !.asked = a]
           u == [w EXCEPT !.client = c]
<1>1. v \in send_request(u)
  BY Zenon DEF state_bound, Data, Clients
<1>2. a \in Servers \ Broken
  BY DEF Data, Clients, Honoured, Leases
<1>3. c \in Clients(w.grant) /\ Moved(c, w.client, "RENEWING", a)
  <2>1. w.client \in Clients(w.grant) /\ "RENEWING" \in States
    BY DEF Data, States
  <2> QED  BY Zenon, <1>2, <2>1, MovedIs
<1> HIDE DEF c
<1>4. Data(u) /\ u.client = c /\ u.net = w.net /\ u.conf = w.conf /\ u.grant = w.grant
  BY <1>3, ClientSet
<1> HIDE DEF u
<1>5. UnderWay(u)
  <2> SUFFICES ASSUME NEW m \in w.net PROVE Fits(m, c, w.grant)
    BY <1>4 DEF UnderWay
  <2>1. Fits(m, w.client, w.grant)
    BY DEF UnderWay
  <2> QED  BY <1>3, <2>1 DEF Fits, Moved
<1>6. InUse(u)
  BY <1>3, <1>4 DEF InUse, Moved
<1>7. Asking(u)
  BY <1>2, <1>3, <1>4, <1>5, <1>6 DEF Asking, Quiet, Moved, Asks
<1> QED  BY <1>1, <1>7, send_requestSound

(* A client that selects among the offers.                                 *)
Selecting(w) ==
    /\ Data(w) /\ UnderWay(w) /\ w.client.state = "SELECTING" /\ w.conf = None
    /\ \A f \in Timeouts \ {"state_selecting", "send_discover"} : Timer(w.client, f) = Off

OffersSet(v, w, o) ==
    /\ Data(v) /\ v.client.offered = o
    /\ v.client.state = w.client.state /\ v.client.active = w.client.active
    /\ v.client.asked = w.client.asked /\ v.client.reject = w.client.reject
    /\ v.client.age = w.client.age
    /\ v.net = w.net /\ v.conf = w.conf /\ v.grant = w.grant
    /\ \A f \in Timeouts : Timer(v.client, f) = Timer(w.client, f)

LEMMA OfferedSet ==
    ASSUME NEW w, Data(w), NEW o \in Seq(Servers), NEW v, v = [w EXCEPT !.client.offered = o]
    PROVE  OffersSet(v, w, o)
<1> DEFINE c == [w.client EXCEPT !.offered = o]
<1>1. c \in Clients(w.grant)
  BY Zenon DEF Data, Clients
<1>2. /\ c.state = w.client.state /\ c.active = w.client.active /\ c.asked = w.client.asked
      /\ c.reject = w.client.reject /\ c.offered = o /\ c.age = w.client.age
      /\ c.timer = w.client.timer
  BY DEF Data, Clients
<1>3. v = [w EXCEPT !.client = c]
  BY DEF Data
<1> HIDE DEF c
<1>4. Data(v) /\ v.client = c /\ v.net = w.net /\ v.conf = w.conf /\ v.grant = w.grant
  BY Zenon, <1>1, <1>3 DEF Data
<1> QED  BY <1>2, <1>4 DEF Timer, OffersSet

(* state_selecting(): the first offer is asked for, if there is one.       *)
LEMMA StateSelectingSound ==
    ASSUME NEW w, Selecting(w), NEW v \in state_selecting(w)
    PROVE  Sound(v)
<1> DEFINE w1 == [w EXCEPT !.client.offered = <<>>]
           both == {"state_selecting", "send_discover"}
           u == cancel_timeout(w1, both)
<1>1. /\ Data(w1) /\ w1.client.state = "SELECTING" /\ w1.conf = None /\ w1.net = w.net
      /\ w1.grant = w.grant
      /\ \A f \in Timeouts : Timer(w1.client, f) = Timer(w.client, f)
  <2>1. <<>> \in Seq(Servers)
    OBVIOUS
  <2>2. OffersSet(w1, w, <<>>)
    BY Zenon, <2>1, OfferedSet DEF Selecting
  <2> QED  BY <2>2 DEF Selecting, OffersSet
<1>2. \/ w.client.offered = <<>> /\ v \in state_init(u)
      \/ /\ w.client.offered # <<>>
         /\ v \in send_request([u EXCEPT !.client.state = "REQUESTING", !.client.age = 0,
                                         !.client.asked = Head(w.client.offered)])
  BY DEF state_selecting
<1> HIDE DEF w1
<1>3. TimersOff(u, w1, both)
  BY <1>1, CancelTimeout
<1> HIDE DEF u
<1>4. Data(u) /\ Quiet(u.client) /\ u.conf = None /\ u.net = w.net /\ u.grant = w.grant
  BY <1>1, <1>3 DEF Selecting, TimersOff, Quiet, Alike
<1>5. CASE w.client.offered = <<>>
  BY <1>2, <1>4, <1>5, StateInitSound
<1>6. CASE w.client.offered # <<>>
  <2> DEFINE a == Head(w.client.offered)
             c == [u.client EXCEPT !.state = "REQUESTING", !.age = 0, !.asked = a]
             x == [u EXCEPT !.client = c]
  <2>1. v \in send_request(x)
    BY Zenon, <1>2, <1>4, <1>6 DEF Data, Clients
  <2>2. a \in Servers
    BY <1>6, HeadTailProperties DEF Selecting, Data, Clients
  <2> HIDE DEF a
  <2>3. c \in Clients(u.grant) /\ Moved(c, u.client, "REQUESTING", a)
    <3>1. u.client \in Clients(u.grant) /\ "REQUESTING" \in States
      BY <1>4 DEF Data, States
    <3> QED  BY Zenon, <2>2, <3>1, MovedIs
  <2> HIDE DEF c
  <2>4. Data(x) /\ x.client = c /\ x.net = u.net /\ x.conf = u.conf /\ x.grant = u.grant
    BY <1>4, <2>3, ClientSet
  <2> HIDE DEF x
  <2>5. UnderWay(x)
    <3> SUFFICES ASSUME NEW m \in w.net PROVE Fits(m, c, w.grant)
      BY <1>4, <2>4 DEF UnderWay
    <3>1. Fits(m, w.client, w.grant) /\ w.client.state = "SELECTING"
      BY DEF UnderWay, Selecting
    <3> QED  BY <2>3, <3>1 DEF Fits, Moved
  <2>6. Asking(x)
    BY <1>4, <2>2, <2>3, <2>4, <2>5 DEF Asking, Quiet, InUse, Moved
  <2> QED  BY <2>1, <2>6, send_requestSound
<1> QED  BY <1>5, <1>6

(* dhcpoffer(): an offer is kept until the time to select has come.        *)
LEMMA DhcpofferSound ==
    ASSUME NEW w, Sound(w), NEW m \in Replies, NEW v \in dhcpoffer(w, m)
    PROVE  Sound(v)
<1> DEFINE c == w.client
           o == IF m.srv = c.asked THEN <<m.srv>> \o c.offered ELSE Append(c.offered, m.srv)
           x == [w EXCEPT !.client.offered = o]
<1>1. CASE c.state # "SELECTING" \/ (\E i \in DOMAIN c.offered : c.offered[i] = m.srv)
  BY <1>1 DEF dhcpoffer
<1>2. CASE ~(c.state # "SELECTING" \/ (\E i \in DOMAIN c.offered : c.offered[i] = m.srv))
  <2>1. o \in Seq(Servers)
    <3>1. m.srv \in Servers /\ c.offered \in Seq(Servers)
      BY DEF Replies, Sound, Data, Clients
    <3>2. <<m.srv>> \o c.offered \in Seq(Servers)
      BY <3>1, ConcatProperties
    <3> QED  BY <3>1, <3>2
  <2>2. \/ v \in state_selecting(x)
        \/ /\ c.age < select_interval
           /\ v = cancel_timeout(add_timeout(x, "state_selecting", select_interval - c.age),
                                 {"send_discover"})
    BY <1>2, DhclientAssumption DEF dhcpoffer, Sound, Data, Clients
  <2> HIDE DEF o
  <2>3. /\ Data(x) /\ x.client.state = c.state /\ x.client.active = c.active
        /\ x.client.asked = c.asked /\ x.net = w.net /\ x.conf = w.conf /\ x.grant = w.grant
        /\ \A f \in Timeouts : Timer(x.client, f) = Timer(c, f)
    <3>1. OffersSet(x, w, o)
      BY <2>1, OfferedSet DEF Sound
    <3> QED  BY <3>1 DEF OffersSet
  <2> HIDE DEF x
  <2>4. UnderWay(x)
    <3> SUFFICES ASSUME NEW r \in w.net PROVE Fits(r, x.client, w.grant)
      BY <2>3 DEF UnderWay
    <3>1. Fits(r, c, w.grant)
      BY DEF UnderWay, Sound
    <3> QED  BY <2>3, <3>1 DEF Fits
  <2>5. Selecting(x)
    <3>1. x.conf = None
      BY <1>2, <2>3 DEF Sound, InUse
    <3>2. \A f \in Timeouts \ {"state_selecting", "send_discover"} : Timer(x.client, f) = Off
      BY <1>2, <2>3 DEF Sound, Waiting, Only
    <3> QED  BY <1>2, <2>3, <2>4, <3>1, <3>2 DEF Selecting
  <2>6. CASE v \in state_selecting(x)
    BY <2>5, <2>6, StateSelectingSound
  <2>7. CASE c.age < select_interval /\
             v = cancel_timeout(add_timeout(x, "state_selecting", select_interval - c.age),
                                {"send_discover"})
    <3> DEFINE t == select_interval - c.age
               y == add_timeout(x, "state_selecting", t)
    <3>1. t \in Nat /\ t > 0
      <4>1. c.age \in Int
        BY DEF Sound, Data, Clients
      <4>2. select_interval \in Nat
        BY DhclientAssumption
      <4>3. c.age < select_interval
        BY <2>7
      <4> HIDE DEF c
      <4> QED  BY <4>1, <4>2, <4>3
    <3> HIDE DEF t
    <3>2. TimerSet(y, x, "state_selecting", t)
      <4>1. t \in Nat \cup {Off}
        BY <3>1
      <4> QED  BY <2>3, <4>1, AddTimeout, TimeoutNames
    <3>3. v = cancel_timeout(y, {"send_discover"})
      BY <2>7 DEF t
    <3> HIDE DEF y
    <3>4. TimersOff(v, y, {"send_discover"})
      BY <3>2, <3>3, CancelTimeout DEF TimerSet
    <3>5. /\ v.client.state = "SELECTING" /\ v.client.asked = x.client.asked
          /\ v.client.active = x.client.active /\ v.net = x.net /\ v.conf = None
          /\ v.grant = x.grant
      BY <2>5, <3>2, <3>4 DEF Selecting, TimerSet, TimersOff, Alike
    <3>6. Only(v.client, "state_selecting")
      <4>1. Timer(v.client, "state_selecting") = t
        BY <3>2, <3>4, TimeoutNames DEF TimerSet, TimersOff
      <4>2. \A h \in Timeouts \ {"state_selecting"} : Timer(v.client, h) = Off
        BY <2>5, <3>2, <3>4 DEF TimerSet, TimersOff, Selecting
      <4> QED  BY <3>1, <4>1, <4>2 DEF Only, Off
    <3>7. UnderWay(v)
      BY <2>4, <2>5, <3>5 DEF UnderWay, Fits, Selecting
    <3> QED  BY <3>4, <3>5, <3>6, <3>7 DEF Sound, Waiting, InUse, TimersOff
  <2> QED  BY <2>2, <2>6, <2>7
<1> QED  BY <1>1, <1>2

LEMMA RewrittenIn ==
    ASSUME NEW H, NEW c, c.leases \in Seq(H), c.active \in H \cup {None}
    PROVE  rewrite_client_leases(c) \in Seq(H)
<1>1. CASE c.active = None
  <2>1. c.leases \o <<>> = c.leases
    BY ConcatEmptySeq
  <2> QED  BY <1>1, <2>1 DEF rewrite_client_leases
<1>2. CASE c.active # None
  <2>1. <<c.active>> \in Seq(H)
    BY <1>2
  <2>2. c.leases \o <<c.active>> \in Seq(H)
    BY <2>1, ConcatProperties
  <2> QED  BY <1>2, <2>2 DEF rewrite_client_leases
<1> QED  BY <1>1, <1>2

(* The lease file is rewritten or appended to.                             *)
LEMMA WrittenLease ==
    ASSUME NEW w, Data(w), NEW l \in Honoured(w.grant), NEW v,
           v = write_client_lease(w, l)
    PROVE  /\ Data(v) /\ v.client = w.client /\ v.net = w.net /\ v.conf = w.conf
           /\ v.grant = w.grant
<1> DEFINE H == Honoured(w.grant)
           old == IF Len(w.file) >= MaxLog THEN rewrite_client_leases(w.client) ELSE w.file
<1>1. rewrite_client_leases(w.client) \in Seq(H)
  BY RewrittenIn DEF Data, Clients
<1>2. old \in Seq(H)
  BY <1>1 DEF Data
<1> HIDE DEF old
<1>3. Append(old, l) \in Seq(H)
  BY <1>2, AppendProperties
<1>4. v = [w EXCEPT !.file = Append(old, l), !.written = 0]
  BY Zenon DEF write_client_lease, old
<1> DEFINE log == Append(old, l)
           u == [w EXCEPT !.file = log]
<1> HIDE DEF log
<1>5. /\ Data(u) /\ u.client = w.client /\ u.net = w.net /\ u.conf = w.conf
      /\ u.grant = w.grant
  BY Zenon, <1>3 DEF Data, log
<1>6. v = [u EXCEPT !.written = 0]
  BY <1>4 DEF log
<1> HIDE DEF u
<1>7. /\ v.client = u.client /\ v.net = u.net /\ v.conf = u.conf /\ v.grant = u.grant
      /\ v.file = u.file /\ v.written = 0
  BY <1>5, <1>6 DEF Data
<1>8. Data(v)
  <2> DEFINE C == Clients(u.grant)
             F == Seq(Honoured(u.grant))
  <2> HIDE DEF C, F
  <2>1. u \in [client : C, net : SUBSET Replies, conf : Servers \cup {None}, file : F,
               written : Int, grant : Grants]
    BY Zenon, <1>5 DEF Data, C, F
  <2>2. v \in [client : C, net : SUBSET Replies, conf : Servers \cup {None}, file : F,
               written : Int, grant : Grants]
    BY <1>6, <2>1
  <2> QED  BY Zenon, <1>7, <2>2 DEF Data, C, F
<1> QED  BY <1>5, <1>7, <1>8

LEMMA LeaseIs ==
    ASSUME NEW g \in Grants, NEW s \in Servers \ Broken, LeaseTime <= g[s] + MaxDelay
    PROVE  /\ Lease(s) \in Honoured(g) /\ Lease(s).addr = s /\ Lease(s).renewal = T1
           /\ Lease(s).expiry = LeaseTime
BY DhclientAssumption DEF Lease, Honoured, Leases, Past, Grants

(* bind_lease(): the client is bound and renews in time, or has no         *)
(* address.                                                                *)
LEMMA BoundSound ==
    ASSUME NEW w, Data(w), Quiet(w.client), UnderWay(w), w.client.state \in Receptive,
           NEW s \in Servers \ Broken, s = w.client.asked,
           LeaseTime <= w.grant[s] + MaxDelay, w.conf = s,
           NEW v, v = Bound(w, Lease(s))
    PROVE  Sound(v)
<1> DEFINE l == Lease(s)
           u == IF w.written >= MIN_LEASE_WRITE THEN write_client_lease(w, l) ELSE w
           c == [u.client EXCEPT !.active = l, !.state = "BOUND"]
           x == [u EXCEPT !.client = c]
<1>1. l \in Honoured(w.grant) /\ l.addr = s /\ l.renewal = T1 /\ l.expiry = LeaseTime
  BY LeaseIs DEF Data
<1> HIDE DEF l
<1>2. /\ Data(u) /\ u.client = w.client /\ u.net = w.net /\ u.conf = w.conf
      /\ u.grant = w.grant
  BY <1>1, WrittenLease
<1>3. v = add_timeout(x, "state_bound", T1)
  BY Zenon, <1>1, <1>2 DEF Bound, l, Data, Clients
<1> HIDE DEF u
<1>4. c \in Clients(u.grant) /\ c.active = l /\ c.state = "BOUND" /\ c.asked = s
      /\ c.timer = w.client.timer
  <2> DEFINE c1 == [u.client EXCEPT !.active = l]
  <2>1. /\ c1 \in Clients(u.grant) /\ c1.active = l /\ c1.asked = u.client.asked
        /\ c1.timer = u.client.timer
    BY Zenon, <1>1, <1>2 DEF Data, Clients
  <2> HIDE DEF c1
  <2>2. /\ [c1 EXCEPT !.state = "BOUND"] \in Clients(u.grant)
        /\ [c1 EXCEPT !.state = "BOUND"].active = l
        /\ [c1 EXCEPT !.state = "BOUND"].state = "BOUND"
        /\ [c1 EXCEPT !.state = "BOUND"].asked = c1.asked
        /\ [c1 EXCEPT !.state = "BOUND"].timer = c1.timer
    BY Zenon, <2>1 DEF Clients, States
  <2>3. c = [c1 EXCEPT !.state = "BOUND"]
    BY DEF c1
  <2> QED  BY <1>2, <2>1, <2>2, <2>3
<1> HIDE DEF c
<1>5. Data(x) /\ x.client = c /\ x.net = w.net /\ x.conf = s /\ x.grant = w.grant
  BY <1>2, <1>4, ClientSet
<1> HIDE DEF x
<1>6. TimerSet(v, x, "state_bound", T1)
  <2>1. T1 \in Nat \cup {Off}
    BY DhclientAssumption
  <2> QED  BY <1>3, <1>5, <2>1, AddTimeout, TimeoutNames
<1>7. /\ v.client.state = "BOUND" /\ v.client.active = l /\ v.client.asked = s
      /\ v.net = w.net /\ v.conf = s /\ v.grant = w.grant
  BY Zenon, <1>4, <1>5, <1>6 DEF TimerSet, Alike
<1>8. Waiting(v.client)
  <2>1. Timer(v.client, "state_bound") = T1
    BY <1>6 DEF TimerSet
  <2>2. \A h \in Timeouts \ {"state_bound"} : Timer(v.client, h) = Off
    BY <1>4, <1>5, <1>6 DEF TimerSet, Quiet, Timer
  <2>3. Only(v.client, "state_bound")
    BY <2>1, <2>2, DhclientAssumption DEF Only, Off
  <2>4. l # None
    BY <1>1, DhclientAssumption DEF Honoured
  <2> QED  BY <1>1, <1>7, <2>1, <2>3, <2>4, DhclientAssumption DEF Waiting
<1>9. UnderWay(v)
  <2> SUFFICES ASSUME NEW m \in w.net PROVE Fits(m, v.client, w.grant)
    BY <1>7 DEF UnderWay
  <2>1. Fits(m, w.client, w.grant)
    BY DEF UnderWay
  <2> QED  BY <1>1, <1>7, <2>1 DEF Fits
<1>10. InUse(v)
  BY <1>1, <1>7, <1>8 DEF InUse, Waiting
<1> QED  BY <1>6, <1>8, <1>9, <1>10 DEF Sound, TimerSet

LEMMA ConfSet ==
    ASSUME NEW w, Data(w), NEW a \in Servers \cup {None}, NEW v, v = [w EXCEPT !.conf = a]
    PROVE  /\ Data(v) /\ v.client = w.client /\ v.net = w.net /\ v.conf = a
           /\ v.grant = w.grant
BY DEF Data

LEMMA BindLeaseSound ==
    ASSUME NEW w, Data(w), Quiet(w.client), UnderWay(w), w.client.state \in Receptive,
           NEW s \in Servers \ Broken, s = w.client.asked,
           LeaseTime <= w.grant[s] + MaxDelay,
           NEW v \in bind_lease(w, Lease(s))
    PROVE  Sound(v)
<1>1. Lease(s).addr = s
  BY DEF Lease
<1>2. PICK r \in script_go(w, s) : v \in IF r.ok THEN {Bound(r.w, Lease(s))} ELSE state_init(r.w)
  BY <1>1 DEF bind_lease
<1>3. \/ v = Bound([w EXCEPT !.conf = s], Lease(s))
      \/ v \in state_init([w EXCEPT !.conf = None])
  BY <1>2 DEF script_go
<1>4. CASE v = Bound([w EXCEPT !.conf = s], Lease(s))
  <2> DEFINE u == [w EXCEPT !.conf = s]
  <2>1. Data(u) /\ u.client = w.client /\ u.net = w.net /\ u.conf = s /\ u.grant = w.grant
    BY ConfSet
  <2>2. v = Bound(u, Lease(s))
    BY <1>4
  <2> HIDE DEF u
  <2>3. UnderWay(u)
    BY <2>1 DEF UnderWay
  <2> QED  BY <2>1, <2>2, <2>3, BoundSound
<1>5. CASE v \in state_init([w EXCEPT !.conf = None])
  <2> DEFINE u == [w EXCEPT !.conf = None]
  <2>1. Data(u) /\ u.client = w.client /\ u.conf = None
    BY ConfSet
  <2>2. v \in state_init(u)
    BY <1>5
  <2> HIDE DEF u
  <2> QED  BY <2>1, <2>2, StateInitSound
<1> QED  BY <1>3, <1>4, <1>5

(* A reply of a server that is not rejected comes while the request it     *)
(* answers is still to be repeated.                                        *)
LEMMA StillAsking ==
    ASSUME NEW w, Sound(w), w.client.state \in Receptive,
           NEW m, m.srv \notin w.client.reject,
           w.client.state = "REQUESTING" => m.srv = w.client.asked
    PROVE  Only(w.client, "send_request")
BY DEF Sound, Waiting, Receptive

(* dhcpack(): the lease of the server asked is bound; one without a lease  *)
(* time makes the client start again.                                      *)
LEMMA DhcpackSound ==
    ASSUME NEW w, Sound(w), NEW m \in Replies, m.type \in {"ACK", "ACK0"},
           m.srv \notin w.client.reject, Fits(m, w.client, w.grant),
           NEW v \in dhcpack(w, m)
    PROVE  Sound(v)
<1> DEFINE u == cancel_timeout(w, {"send_request"})
           x == [u EXCEPT !.client.reject = @ \cup {m.srv}]
<1>1. CASE w.client.state \notin Receptive
  BY <1>1 DEF dhcpack
<1>2. CASE w.client.state \in Receptive
  <2>1. Only(w.client, "send_request")
    BY <1>2, StillAsking DEF Fits
  <2>2. TimersOff(u, w, {"send_request"})
    BY CancelTimeout DEF Sound
  <2>3. \/ m.type = "ACK0" /\ v = add_timeout(x, "state_init", 1)
        \/ m.type = "ACK" /\ v \in bind_lease(u, Lease(m.srv))
    BY <1>2 DEF dhcpack
  <2> HIDE DEF u
  <2>4. /\ Data(u) /\ Quiet(u.client) /\ u.client.state = w.client.state /\ u.net = w.net
        /\ u.client.asked = w.client.asked /\ u.client.active = w.client.active
        /\ u.client.reject = w.client.reject /\ u.conf = w.conf /\ u.grant = w.grant
    BY <2>1, <2>2 DEF TimersOff, Only, Quiet, Alike
  <2>5. UnderWay(u)
    BY <2>4 DEF Sound, UnderWay, Fits
  <2>6. CASE m.type = "ACK" /\ v \in bind_lease(u, Lease(m.srv))
    <3>1. m.srv \in Servers \ Broken /\ m.srv = u.client.asked
      BY <2>4, <2>6 DEF Fits, Replies
    <3>2. LeaseTime <= u.grant[m.srv] + MaxDelay
      <4>1. LeaseTime <= u.grant[m.srv] + m.age /\ m.age <= MaxDelay
        BY <2>4, <2>6 DEF Fits
      <4>2. u.grant[m.srv] \in Int /\ m.age \in Int
        BY <2>4, <3>1 DEF Data, Grants, Replies
      <4> QED  BY <4>1, <4>2, DhclientAssumption
    <3> QED  BY <1>2, <2>4, <2>5, <2>6, <3>1, <3>2, BindLeaseSound
  <2>7. CASE m.type = "ACK0" /\ v = add_timeout(x, "state_init", 1)
    <3>1. m.srv = w.client.asked /\ m.srv \in Broken
      BY <2>7 DEF Fits
    <3>2. w.client.state = "REQUESTING" /\ w.client.asked \in Servers
      <4>1. Asks(w.client) => w.client.asked \notin Broken
        BY DEF Asks, Sound, Data, Clients, Honoured
      <4> QED  BY <1>2, <3>1, <4>1 DEF Sound, Waiting, Receptive
    <3> DEFINE c == [u.client EXCEPT !.reject = @ \cup {m.srv}]
    <3>3. /\ c \in Clients(u.grant) /\ m.srv \in c.reject /\ c.state = u.client.state
          /\ c.active = u.client.active /\ c.asked = u.client.asked
          /\ c.timer = u.client.timer
      BY Zenon, <2>4 DEF Data, Clients, Replies
    <3>4. x = [u EXCEPT !.client = c]
      BY <2>4 DEF Data
    <3> HIDE DEF c, x
    <3>5. Data(x) /\ x.client = c /\ x.net = u.net /\ x.conf = u.conf /\ x.grant = u.grant
      BY <2>4, <3>3, <3>4, ClientSet
    <3>6. TimerSet(v, x, "state_init", 1)
      <4>1. 1 \in Nat \cup {Off}
        OBVIOUS
      <4> QED  BY <2>7, <3>5, <4>1, AddTimeout, TimeoutNames
    <3>7. /\ v.client.state = "REQUESTING" /\ v.client.asked = m.srv
          /\ v.client.active = w.client.active /\ m.srv \in v.client.reject
          /\ v.net = w.net /\ v.conf = w.conf /\ v.grant = w.grant
      BY <2>4, <3>1, <3>2, <3>3, <3>5, <3>6 DEF TimerSet, Alike
    <3>8. Only(v.client, "state_init")
      <4>1. Timer(v.client, "state_init") = 1
        BY <3>6 DEF TimerSet
      <4>2. \A h \in Timeouts \ {"state_init"} : Timer(v.client, h) = Off
        BY <2>4, <3>3, <3>5, <3>6 DEF TimerSet, Quiet, Timer
      <4> QED  BY <4>1, <4>2 DEF Only, Off
    <3>9. Waiting(v.client)
      BY <3>1, <3>2, <3>7, <3>8 DEF Waiting
    <3>10. UnderWay(v)
      BY <3>1, <3>2, <3>7 DEF Sound, UnderWay, Fits
    <3>11. InUse(v)
      BY <3>2, <3>7 DEF Sound, InUse
    <3> QED  BY <3>6, <3>9, <3>10, <3>11 DEF Sound, TimerSet
  <2> QED  BY <2>3, <2>6, <2>7
<1> QED  BY <1>1, <1>2

(* dhcpnak(): the client gives the lease and the address up.               *)
LEMMA DhcpnakSound ==
    ASSUME NEW w, Sound(w), NEW m, m.srv \notin w.client.reject,
           w.client.state = "REQUESTING" => m.srv = w.client.asked,
           NEW v \in dhcpnak(w)
    PROVE  Sound(v)
<1> DEFINE w1 == [w EXCEPT !.client.active = None]
           w2 == Unconfigure(w1)
           u == cancel_timeout(w2, {"send_request"})
<1>1. CASE w.client.state \notin Receptive \/ w.client.active = None
  BY <1>1 DEF dhcpnak
<1>2. CASE ~(w.client.state \notin Receptive \/ w.client.active = None)
  <2>1. v \in state_init(u)
    BY <1>2 DEF dhcpnak
  <2>2. Only(w.client, "send_request")
    BY <1>2, StillAsking
  <2> DEFINE c == [w.client EXCEPT !.active = None]
  <2>3. c \in Clients(w.grant) /\ c.timer = w.client.timer
    BY Zenon DEF Sound, Data, Clients
  <2>4. w1 = [w EXCEPT !.client = c]
    BY DEF Sound, Data
  <2> HIDE DEF c, w1
  <2>5. Data(w1) /\ w1.client = c
    BY <2>3, <2>4, ClientSet DEF Sound
  <2>6. Data(w2) /\ w2.client = c /\ w2.conf = None
    BY <2>5, Unconfigured
  <2> HIDE DEF w2
  <2>7. TimersOff(u, w2, {"send_request"})
    BY <2>6, CancelTimeout
  <2> HIDE DEF u
  <2>8. Data(u) /\ Quiet(u.client) /\ u.conf = None
    BY <2>2, <2>3, <2>6, <2>7 DEF TimersOff, Alike, Only, Quiet, Timer
  <2> QED  BY <2>1, <2>8, StateInitSound
<1> QED  BY <1>1, <1>2

(* dhcp(): the packets of servers that are not rejected.                   *)
LEMMA DhcpSound ==
    ASSUME NEW w, Sound(w), NEW m \in Replies, Fits(m, w.client, w.grant), NEW v \in dhcp(w, m)
    PROVE  Sound(v)
<1>1. CASE m.srv \in w.client.reject
  BY <1>1 DEF dhcp
<1>2. CASE m.srv \notin w.client.reject /\ m.type = "OFFER"
  BY <1>2, DhcpofferSound DEF dhcp
<1>3. CASE m.srv \notin w.client.reject /\ m.type = "NAK"
  <2>1. v \in dhcpnak(w)
    BY <1>3 DEF dhcp
  <2>2. w.client.state = "REQUESTING" => m.srv = w.client.asked
    BY <1>3 DEF Fits
  <2> QED  BY <1>3, <2>1, <2>2, DhcpnakSound
<1>4. CASE m.srv \notin w.client.reject /\ m.type \in {"ACK", "ACK0"}
  <2>1. v \in dhcpack(w, m)
    BY <1>4 DEF dhcp
  <2> QED  BY <1>4, <2>1, DhcpackSound
<1> QED  BY <1>1, <1>2, <1>3, <1>4 DEF Replies

(* The client takes up, or gives up, leases that it has recorded.          *)
Recorded(v, w, a, st, k) ==
    /\ Data(v) /\ v.client.active = a /\ v.client.state = st /\ v.conf = k
    /\ v.client.asked = w.client.asked /\ v.client.timer = w.client.timer
    /\ v.net = w.net /\ v.grant = w.grant

LEMMA RecordedIs ==
    ASSUME NEW w, Data(w), NEW a \in Honoured(w.grant) \cup {None},
           NEW ls \in Seq(Honoured(w.grant)), NEW st \in States, NEW k \in Servers \cup {None},
           NEW c, c = [w.client EXCEPT !.active = a, !.leases = ls, !.state = st],
           NEW v, v = [w EXCEPT !.client = c, !.conf = k]
    PROVE  Recorded(v, w, a, st, k)
<1> DEFINE c1 == [w.client EXCEPT !.active = a]
           c2 == [c1 EXCEPT !.leases = ls]
           u == [w EXCEPT !.client = c]
<1>1. /\ c1 \in Clients(w.grant) /\ c1.active = a /\ c1.asked = w.client.asked
      /\ c1.timer = w.client.timer
  BY Zenon DEF Data, Clients
<1> HIDE DEF c1
<1>2. /\ c2 \in Clients(w.grant) /\ c2.active = a /\ c2.asked = w.client.asked
      /\ c2.timer = w.client.timer
  BY Zenon, <1>1 DEF Clients
<1>3. c = [c2 EXCEPT !.state = st]
  BY DEF c1
<1> HIDE DEF c2
<1>4. /\ c \in Clients(w.grant) /\ c.active = a /\ c.asked = w.client.asked
      /\ c.timer = w.client.timer /\ c.state = st
  <2> DEFINE A == Honoured(w.grant) \cup {None}
             L == Seq(Honoured(w.grant))
             O == Seq(Servers)
             T == [Timeouts -> Nat \cup {Off}]
             K == [state : States, active : A, leases : L, offered : O,
                   reject : SUBSET Servers, asked : Servers \cup {None}, age : Int, timer : T]
  <2>1. Clients(w.grant) = K
    BY DEF Clients
  <2> HIDE DEF A, L, O, T
  <2> QED  BY <1>2, <1>3, <2>1
<1>5. Data(u) /\ u.client = c /\ u.net = w.net /\ u.grant = w.grant
  <2>1. u = [w EXCEPT !.client = c]
    OBVIOUS
  <2>2. c \in Clients(w.grant)
    BY <1>4
  <2> HIDE DEF u
  <2> QED  BY <2>1, <2>2 DEF Data
<1>6. v = [u EXCEPT !.conf = k]
  OBVIOUS
<1> HIDE DEF u
<1>7. v.client = u.client /\ v.net = u.net /\ v.conf = k /\ v.grant = u.grant
  BY <1>5, <1>6 DEF Data
<1>8. Data(v)
  BY <1>5, <1>6, <1>7 DEF Data
<1> QED  BY Zenon, <1>4, <1>5, <1>7, <1>8 DEF Recorded

(* No reply but an offer, which fits in any state.                         *)
LEMMA OffersFit ==
    ASSUME NEW w, UnderWay(w), w.client.state = "SELECTING",
           NEW v, v.net = w.net, v.grant = w.grant
    PROVE  UnderWay(v)
BY DEF UnderWay, Fits

(* state_panic(): a lease is taken up again before it expires.             *)
LEMMA RecallSound ==
    ASSUME NEW w, Data(w), Quiet(w.client), UnderWay(w), w.client.state = "SELECTING",
           NEW all \in Seq(Honoured(w.grant)), NEW i \in DOMAIN all, all[i].expiry > 0,
           NEW v \in Recall(w, all, i)
    PROVE  Sound(v)
<1> DEFINE H == Honoured(w.grant)
           a == all[i]
           ls == Rotated(all, i)
           c == [w.client EXCEPT !.active = a, !.leases = ls, !.state = "BOUND"]
           x == [w EXCEPT !.client = c, !.conf = a.addr]
<1>1. a \in H /\ a \in Leases /\ a.addr \in Servers /\ a.renewal \in Int /\ a.expiry \in Int
      /\ a.expiry <= w.grant[a.addr] + MaxDelay
  <2>1. a \in H
    OBVIOUS
  <2> QED  BY <2>1 DEF Honoured, Leases
<1>2. ls \in Seq(H)
  <2>1. i \in 1 .. Len(all) /\ Len(all) \in Nat
    OBVIOUS
  <2>2. SubSeq(all, i + 1, Len(all)) \in Seq(H) /\ SubSeq(all, 1, i - 1) \in Seq(H)
    BY <2>1, SubSeqProperties, ElementOfSeq
  <2> QED  BY <2>2, ConcatProperties DEF Rotated
<1>3. v \in IF a.renewal > 0 THEN {add_timeout(x, "state_bound", a.renewal)}
                             ELSE state_bound(x)
  BY Zenon DEF Recall, Data, Clients
<1> HIDE DEF a, ls
<1>4. Recorded(x, w, a, "BOUND", a.addr)
  <2>1. "BOUND" \in States /\ a.addr \in Servers \cup {None} /\ a \in H \cup {None}
    BY <1>1 DEF States
  <2> HIDE DEF H
  <2> QED  BY Zenon, <1>2, <2>1, RecordedIs DEF H
<1> HIDE DEF x, c, H
<1>5. UnderWay(x)
  BY <1>4, OffersFit DEF Recorded
<1>6. a # None
  BY <1>1, DhclientAssumption
<1>7. InUse(x)
  BY <1>1, <1>4, <1>6 DEF Recorded, InUse
<1>8. Quiet(x.client)
  BY <1>4 DEF Recorded, Quiet, Timer
<1>9. CASE a.renewal > 0
  <2>1. v = add_timeout(x, "state_bound", a.renewal)
    BY <1>3, <1>9
  <2>2. TimerSet(v, x, "state_bound", a.renewal)
    <3>1. a.renewal \in Nat \cup {Off}
      BY <1>1, <1>9
    <3> QED  BY Zenon, <1>4, <2>1, <3>1, AddTimeout, TimeoutNames DEF Recorded
  <2>3. Only(v.client, "state_bound") /\ Timer(v.client, "state_bound") <= a.renewal
    BY <1>1, <1>8, <1>9, <2>2 DEF Only, Quiet, TimerSet, Off
  <2>4. Waiting(v.client)
    BY <1>4, <1>6, <2>2, <2>3 DEF Waiting, TimerSet, Alike, Recorded
  <2>5. UnderWay(v) /\ InUse(v)
    BY <1>5, <1>7, <2>2 DEF UnderWay, Fits, InUse, TimerSet, Alike
  <2> QED  BY <2>2, <2>4, <2>5 DEF Sound, TimerSet
<1>10. CASE ~(a.renewal > 0)
  BY <1>3, <1>4, <1>5, <1>6, <1>7, <1>8, <1>10, StateBoundSound DEF Recorded
<1> QED  BY <1>9, <1>10

(* state_panic(): no lease works and the client tries again later.         *)
LEMMA GiveUpSound ==
    ASSUME NEW w, Data(w), Quiet(w.client), UnderWay(w), w.client.state = "SELECTING",
           w.conf = None, NEW all \in Seq(Honoured(w.grant)), NEW v \in GiveUp(w, all)
    PROVE  Sound(v)
<1> DEFINE H == Honoured(w.grant)
           single == Len(all) <= 1
           a == IF single THEN None ELSE Head(all)
           ls == IF single THEN all ELSE Tail(all)
           k == IF \E i \in DOMAIN all : all[i].expiry > 0 THEN None ELSE w.conf
           c == [w.client EXCEPT !.active = a, !.leases = ls, !.state = "INIT"]
           x == [w EXCEPT !.client = c, !.conf = k]
           first == (retry_interval + 1) \div 2
<1>1. a \in H \cup {None} /\ ls \in Seq(H)
  <2>1. CASE single
    BY <2>1
  <2>2. CASE ~single
    <3>1. all # <<>>
      BY <2>2
    <3>2. Head(all) \in H /\ Tail(all) \in Seq(H)
      BY <3>1, HeadTailProperties
    <3> QED  BY <2>2, <3>2
  <2> QED  BY <2>1, <2>2
<1>2. k = None
  OBVIOUS
<1>3. PICK i \in first .. (first + retry_interval - 1) : v = add_timeout(x, "state_init", i)
  BY Zenon DEF GiveUp, Data, Clients
<1>4. i \in Nat
  <2>1. retry_interval \in Nat
    BY DhclientAssumption
  <2>2. first \in Nat
    BY <2>1
  <2> HIDE DEF first
  <2> QED  BY <2>1, <2>2
<1> HIDE DEF a, ls, k, first, H
<1>5. Recorded(x, w, a, "INIT", None)
  <2>1. "INIT" \in States /\ k \in Servers \cup {None}
    BY <1>2 DEF States
  <2> QED  BY Zenon, <1>1, <1>2, <2>1, RecordedIs DEF H
<1> HIDE DEF x, c
<1>6. TimerSet(v, x, "state_init", i)
  <2>1. i \in Nat \cup {Off}
    BY <1>4
  <2> QED  BY <1>3, <1>5, <2>1, AddTimeout, TimeoutNames DEF Recorded
<1>7. Only(v.client, "state_init")
  <2>1. Quiet(x.client)
    BY <1>5 DEF Recorded, Quiet, Timer
  <2> QED  BY <1>4, <1>6, <2>1 DEF Only, Quiet, TimerSet, Off
<1>8. v.client.state = "INIT" /\ v.net = w.net /\ v.grant = w.grant /\ v.conf = None
  BY <1>5, <1>6 DEF Recorded, TimerSet, Alike
<1>9. UnderWay(v)
  BY <1>8, OffersFit
<1> QED  BY <1>6, <1>7, <1>8, <1>9 DEF Sound, TimerSet, Waiting, InUse

(* send_discover(), with the panic timeout.                                *)
LEMMA send_discoverSound ==
    ASSUME NEW w, Data(w), Quiet(w.client), UnderWay(w), w.client.state = "SELECTING",
           w.conf = None, NEW v \in send_discover(w)
    PROVE  Sound(v)
<1> DEFINE c == w.client
           H == Honoured(w.grant)
           all == (IF c.active = None THEN <<>> ELSE <<c.active>>) \o c.leases
           good == {i \in DOMAIN all : all[i].expiry > 0}
<1>1. CASE w.client.age > timeout
  <2>1. v \in state_panic(w)
    BY <1>1 DEF send_discover
  <2>2. (\E i \in good : v \in Recall(w, all, i)) \/ v \in GiveUp(w, all)
    <3> DEFINE tried == IF calm THEN {i \in good : \A j \in good : i <= j} ELSE good
    <3>1. v \in (UNION {Recall(w, all, i) : i \in tried})
               \cup (IF calm /\ good # {} THEN {} ELSE GiveUp(w, all))
      BY <2>1, Zenon DEF state_panic
    <3>2. tried \subseteq good
      BY Zenon
    <3> HIDE DEF tried, good, all
    <3>3. CASE v \in UNION {Recall(w, all, i) : i \in tried}
      <4>1. PICK i \in tried : v \in Recall(w, all, i)
        BY <3>3
      <4> QED  BY <3>2, <4>1
    <3>4. CASE v \in (IF calm /\ good # {} THEN {} ELSE GiveUp(w, all))
      BY <3>4
    <3> QED  BY <3>1, <3>3, <3>4
  <2>3. all \in Seq(H)
    <3>1. c.leases \in Seq(H) /\ c.active \in H \cup {None}
      BY DEF Data, Clients
    <3>2. CASE c.active = None
      BY <3>1, <3>2, ConcatEmptySeq
    <3>3. CASE c.active # None
      <4>1. <<c.active>> \in Seq(H)
        BY <3>1, <3>3
      <4>2. <<c.active>> \o c.leases \in Seq(H)
        BY <3>1, <4>1, ConcatProperties
      <4> QED  BY <3>3, <4>2
    <3> QED  BY <3>2, <3>3
  <2> HIDE DEF all
  <2>4. ASSUME NEW i \in good, v \in Recall(w, all, i) PROVE Sound(v)
    <3>1. i \in DOMAIN all /\ all[i].expiry > 0
      BY <2>4
    <3> QED  BY <2>3, <2>4, <3>1, RecallSound
  <2>5. CASE v \in GiveUp(w, all)
    BY <2>3, <2>5, GiveUpSound
  <2> QED  BY <2>2, <2>4, <2>5
<1>2. CASE ~(w.client.age > timeout)
  <2>1. v \in SendDiscover(w)
    BY <1>2 DEF send_discover
  <2>2. w.client.age <= timeout
    BY <1>2, DhclientAssumption DEF Data, Clients
  <2> QED  BY <2>1, <2>2, SendDiscoverSound
<1> QED  BY <1>1, <1>2

-----------------------------------------------------------------------------
(* The actions.                                                            *)

LEMMA WorldIs ==
    /\ World.client = client /\ World.net = net /\ World.conf = conf /\ World.file = file
    /\ World.written = written /\ World.grant = grant
    /\ World'.client = client' /\ World'.net = net' /\ World'.conf = conf'
    /\ World'.file = file' /\ World'.written = written' /\ World'.grant = grant'
BY DEF World

(* What a handler leaves is what the program goes on with.                 *)
LEMMA BecomesSound ==
    ASSUME NEW w, Sound(w), Becomes(w)
    PROVE  Sound(World)'
<1>1. /\ client' \in Clients(w.grant) /\ client'.state = w.client.state
      /\ client'.active = w.client.active /\ client'.asked = w.client.asked
      /\ client'.reject = w.client.reject /\ client'.timer = w.client.timer
  BY DEF Becomes, Sound, Data, Clients
<1>2. net' \subseteq w.net /\ conf' = w.conf /\ file' = w.file /\ written' = w.written
      /\ grant' = w.grant
  BY DEF Becomes
<1>3. Data(World)'
  <2>1. /\ w.net \in SUBSET Replies /\ w.conf \in Servers \cup {None}
        /\ w.file \in Seq(Honoured(w.grant)) /\ w.written \in Int /\ w.grant \in Grants
    BY DEF Sound, Data
  <2>2. net' \in SUBSET Replies
    BY <1>2, <2>1
  <2> QED  BY <1>1, <1>2, <2>1, <2>2 DEF World, Data
<1>4. Waiting(client')
  BY <1>1 DEF Sound, Waiting, Only, Asks, Timer
<1>5. UnderWay(World)'
  BY <1>1, <1>2, WorldIs DEF Sound, UnderWay, Fits
<1>6. InUse(World)'
  BY <1>1, <1>2, WorldIs DEF Sound, InUse
<1> QED  BY <1>3, <1>4, <1>5, <1>6, WorldIs DEF Sound

(* dispatch(): the only timeout pending is the one that is due.            *)
LEMMA FiredIs ==
    ASSUME NEW w, Sound(w), NEW f \in Timeouts, Timer(w.client, f) = 0
    PROVE  Only(w.client, f)
<1>1. \E g \in Timeouts : Only(w.client, g)
  BY TimeoutNames DEF Sound, Waiting
<1> QED  BY <1>1 DEF Only, Off

LEMMA FireSound ==
    ASSUME Sound(World), NEW f \in Timeouts, Fire(f)
    PROVE  Sound(World)'
<1> DEFINE W == World
           w == add_timeout(W, f, Off)
<1>1. PICK v \in Handler(f, w) : Becomes(v)
  BY DEF Fire
<1>2. Only(client, f)
  BY WorldIs, FiredIs DEF Fire, Timer
<1>3. TimerSet(w, W, f, Off)
  BY Zenon, AddTimeout DEF Sound
<1> HIDE DEF w
<1>4. /\ Data(w) /\ w.net = net /\ w.conf = conf /\ w.grant = grant
      /\ w.client.state = client.state /\ w.client.active = client.active
      /\ w.client.asked = client.asked /\ w.client.reject = client.reject
  BY <1>3, WorldIs DEF TimerSet, Alike
<1>5. Quiet(w.client)
  BY <1>2, <1>3, WorldIs DEF TimerSet, Only, Quiet
<1>6. UnderWay(w)
  BY Zenon, <1>4, WorldIs DEF Sound, UnderWay, Fits
<1>7. InUse(w)
  BY <1>4, WorldIs DEF Sound, InUse
<1>8. Waiting(client)
  BY WorldIs DEF Sound
<1>9. SUFFICES Sound(v)
  BY <1>1, BecomesSound
<1>10. CASE f = "state_reboot"
  <2>1. v \in state_reboot(w)
    BY <1>1, <1>10 DEF Handler
  <2>2. w.conf = None
    BY <1>2, <1>4, <1>7, <1>8, <1>10, TimeoutNames DEF Waiting, Only, InUse
  <2> QED  BY <1>4, <1>5, <2>1, <2>2, StateRebootSound
<1>11. CASE f = "state_init"
  <2>1. v \in state_init(w)
    BY <1>1, <1>11 DEF Handler
  <2>2. w.conf = None
    BY <1>2, <1>4, <1>7, <1>8, <1>11, TimeoutNames DEF Waiting, Only, InUse
  <2> QED  BY <1>4, <1>5, <2>1, <2>2, StateInitSound
<1>12. CASE f = "send_discover"
  <2>1. v \in send_discover(w)
    BY <1>1, <1>12 DEF Handler
  <2>2. w.client.state = "SELECTING"
    BY <1>2, <1>4, <1>8, <1>12, TimeoutNames DEF Waiting, Only
  <2>3. w.conf = None
    BY <1>7, <2>2 DEF InUse
  <2> QED  BY <1>4, <1>5, <1>6, <2>1, <2>2, <2>3, send_discoverSound
<1>13. CASE f = "state_selecting"
  <2>1. v \in state_selecting(w)
    BY <1>1, <1>13 DEF Handler
  <2>2. w.client.state = "SELECTING"
    BY <1>2, <1>4, <1>8, <1>13, TimeoutNames DEF Waiting, Only
  <2>3. w.conf = None
    BY <1>7, <2>2 DEF InUse
  <2>4. Selecting(w)
    BY <1>4, <1>5, <1>6, <2>2, <2>3 DEF Selecting, Quiet
  <2> QED  BY <2>1, <2>4, StateSelectingSound
<1>14. CASE f = "send_request"
  <2>1. v \in send_request(w)
    BY <1>1, <1>14 DEF Handler
  <2>2. /\ client.state \in {"REQUESTING", "REBOOTING", "RENEWING"}
        /\ client.state = "REQUESTING" => client.asked \in Servers
        /\ client.state # "REQUESTING" => Asks(client)
    <3>1. client.state \in States
      BY WorldIs DEF Sound, Data, Clients
    <3> QED  BY <1>2, <1>8, <1>14, <3>1, TimeoutNames DEF Waiting, Only, States
  <2>3. Asks(client) => client.asked \in Servers
    BY WorldIs DEF Asks, Sound, Data, Clients, Honoured, Leases
  <2>4. Asking(w)
    BY <1>4, <1>5, <1>6, <1>7, <2>2, <2>3 DEF Asking, Asks
  <2> QED  BY <2>1, <2>4, send_requestSound
<1>15. CASE f = "state_bound"
  <2>1. v \in state_bound(w)
    BY <1>1, <1>15 DEF Handler
  <2>2. w.client.state = "BOUND" /\ w.client.active # None
    BY <1>2, <1>4, <1>8, <1>15, TimeoutNames DEF Waiting, Only
  <2> QED  BY <1>4, <1>5, <1>6, <1>7, <2>1, <2>2, StateBoundSound
<1> QED  BY <1>10, <1>11, <1>12, <1>13, <1>14, <1>15 DEF Timeouts

(* A reply arrives, perhaps again.                                         *)
LEMMA ReceiveSound ==
    ASSUME Sound(World), NEW m \in net, Receive(m)
    PROVE  Sound(World)'
<1> DEFINE r == [m EXCEPT !.seen = TRUE]
           w == [World EXCEPT !.net = (@ \ {m}) \cup {r}]
<1>1. PICK v \in dhcp(w, m) : Becomes(v)
  BY DEF Receive
<1>2. m \in Replies /\ Fits(m, client, grant)
  BY WorldIs DEF Sound, Data, UnderWay
<1>3. r \in Replies /\ r.type = m.type /\ r.srv = m.srv /\ r.age = m.age
  BY Zenon, <1>2 DEF Replies
<1> HIDE DEF r
<1>4. Fits(r, client, grant)
  BY <1>2, <1>3 DEF Fits
<1>5. /\ w.client = client /\ w.net = (net \ {m}) \cup {r} /\ w.conf = conf /\ w.file = file
      /\ w.written = written /\ w.grant = grant
  BY WorldIs DEF World
<1>6. Data(w)
  <2>1. (net \ {m}) \cup {r} \in SUBSET Replies
    BY <1>3, WorldIs DEF Sound, Data
  <2> QED  BY <1>5, <2>1, WorldIs DEF Sound, Data, World
<1> HIDE DEF w
<1>7. UnderWay(w) /\ InUse(w) /\ Waiting(w.client)
  BY Zenon, <1>4, <1>5, WorldIs DEF Sound, UnderWay, InUse
<1>8. Sound(w)
  BY <1>6, <1>7 DEF Sound
<1>9. Sound(v)
  BY <1>1, <1>2, <1>5, <1>8, DhcpSound
<1> QED  BY <1>1, <1>9, BecomesSound

(* The time a server still grants goes down by no more than one.           *)
LEMMA GrantAged ==
    ASSUME NEW g \in Grants, NEW h, h = [s \in Servers |-> Down(g[s], GrantPast)]
    PROVE  h \in Grants /\ \A s \in Servers : g[s] <= h[s] + 1
BY DhclientAssumption DEF Grants, Down, GrantPast

Older(y, x) ==
    /\ y \in Leases /\ y.addr = x.addr
    /\ y.renewal = Down(x.renewal, Past) /\ y.expiry = Down(x.expiry, Past)

LEMMA AgedIs ==
    ASSUME NEW x \in Leases, NEW y, y = Aged(x)
    PROVE  Older(y, x)
<1>1. x # None
  BY DhclientAssumption
<1>2. y = [x EXCEPT !.renewal = Down(@, Past), !.rebind = Down(@, Past),
                    !.expiry = Down(@, Past)]
  BY <1>1 DEF Aged
<1>3. \A t \in Int : Down(t, Past) \in Int
  BY DEF Down, Past
<1> QED  BY Zenon, <1>2, <1>3 DEF Older, Leases

(* A lease that the client still counts on is one that its server counts   *)
(* on: both lose a second.                                                 *)
LEMMA AgedHonoured ==
    ASSUME NEW g \in Grants, NEW h \in Grants, \A s \in Servers : g[s] <= h[s] + 1,
           NEW x \in Honoured(g)
    PROVE  Aged(x) \in Honoured(h)
<1>1. x \in Leases /\ Older(Aged(x), x)
  BY AgedIs DEF Honoured
<1>2. /\ x.addr \in Servers \ Broken /\ x.renewal \in Int /\ x.expiry \in Int
      /\ g[x.addr] \in Int /\ h[x.addr] \in Int /\ g[x.addr] <= h[x.addr] + 1
      /\ Past <= x.renewal /\ x.renewal <= x.expiry
      /\ x.expiry >= 0 => x.expiry <= g[x.addr] + MaxDelay
  BY <1>1 DEF Honoured, Leases, Grants
<1> DEFINE y == Aged(x)
<1> HIDE DEF y
<1>3. Older(y, x)
  BY <1>1 DEF y
<1>4. /\ Past <= y.renewal /\ y.renewal <= y.expiry
      /\ y.expiry >= 0 => y.expiry <= h[y.addr] + MaxDelay
  BY <1>2, <1>3, DhclientAssumption DEF Older, Down, Past
<1> QED  BY <1>2, <1>3, <1>4 DEF Honoured, Older, y

LEMMA AgedLogHonoured ==
    ASSUME NEW g \in Grants, NEW h \in Grants, \A s \in Servers : g[s] <= h[s] + 1,
           NEW log \in Seq(Honoured(g))
    PROVE  AgedLog(log) \in Seq(Honoured(h))
<1> DEFINE G == Honoured(g)
           H == Honoured(h)
<1>1. DOMAIN log = 1 .. Len(log) /\ Len(log) \in Nat /\ \A i \in DOMAIN log : log[i] \in G
  OBVIOUS
<1>2. \A i \in DOMAIN log : Aged(log[i]) \in H
  BY <1>1, AgedHonoured
<1>3. AgedLog(log) = [i \in 1 .. Len(log) |-> Aged(log[i])]
  BY <1>1 DEF AgedLog
<1> HIDE DEF G, H
<1>4. AgedLog(log) \in [1 .. Len(log) -> H]
  BY <1>1, <1>2, <1>3
<1> QED  BY <1>1, <1>4 DEF H

(* A timeout that is not due counts down, and none appears or vanishes.    *)
LEMMA TimersAged ==
    ASSUME NEW t \in Nat \cup {Off}, t # 0
    PROVE  /\ Down(t, Off) \in Nat \cup {Off}
           /\ t = Off <=> Down(t, Off) = Off
           /\ t # Off => t >= 1 /\ Down(t, Off) = t - 1
BY DEF Down, Off

(* Tick: no lease in use runs out before the timeout that gives it up.     *)
LEMMA TickSound ==
    ASSUME Sound(World), Tick
    PROVE  Sound(World)'
<1> DEFINE c == client
           d == client'
           H == Honoured(grant)
<1>1. /\ c \in Clients(grant) /\ grant \in Grants /\ net \in SUBSET Replies
      /\ conf \in Servers \cup {None} /\ file \in Seq(H) /\ written \in Int
      /\ Waiting(c) /\ UnderWay(World) /\ InUse(World)
  BY WorldIs DEF Sound, Data
<1>2. grant' \in Grants /\ \A s \in Servers : grant[s] <= grant'[s] + 1
  BY <1>1, GrantAged DEF Tick
<1>3. /\ c.active \in H \cup {None} /\ c.leases \in Seq(H) /\ c.timer \in [Timeouts -> Nat \cup {Off}]
      /\ c.age \in Int
  BY <1>1 DEF Clients
<1>4. /\ Aged(c.active) \in Honoured(grant') \cup {None}
      /\ AgedLog(c.leases) \in Seq(Honoured(grant')) /\ AgedLog(file) \in Seq(Honoured(grant'))
  <2>1. c.active # None => Aged(c.active) \in Honoured(grant')
    BY <1>1, <1>2, <1>3, AgedHonoured
  <2>2. c.active = None => Aged(c.active) = None
    BY DEF Aged
  <2>3. AgedLog(c.leases) \in Seq(Honoured(grant')) /\ AgedLog(file) \in Seq(Honoured(grant'))
    BY <1>1, <1>2, <1>3, AgedLogHonoured
  <2> QED  BY <2>1, <2>2, <2>3
<1>5. \A f \in Timeouts : /\ Timer(c, f) \in Nat \cup {Off} /\ Timer(c, f) # 0
  BY <1>3 DEF Timer, Tick
<1> DEFINE timer == [f \in Timeouts |-> Down(c.timer[f], Off)]
           age == IF Still(c) \/ c.age = AgeCap THEN c.age ELSE c.age + 1
<1>6. timer \in [Timeouts -> Nat \cup {Off}]
  BY Zenon, <1>5, TimersAged DEF Timer
<1>7. age \in Int
  BY <1>3
<1>8. d = [c EXCEPT !.timer = timer, !.age = age, !.active = Aged(c.active),
                    !.leases = AgedLog(c.leases)]
  BY <1>1 DEF Tick, Clients
<1>9. \A f \in Timeouts : timer[f] = Down(Timer(c, f), Off)
  BY DEF Timer
<1> HIDE DEF timer, age
<1>10. /\ d.state = c.state /\ d.active = Aged(c.active) /\ d.leases = AgedLog(c.leases)
       /\ d.offered = c.offered /\ d.reject = c.reject /\ d.asked = c.asked /\ d.age = age
       /\ d.timer = timer
  BY <1>1, <1>8 DEF Clients
<1>11. d \in Clients(grant')
  <2> DEFINE K == Honoured(grant')
  <2>1. /\ c.state \in States /\ c.offered \in Seq(Servers) /\ c.reject \in SUBSET Servers
        /\ c.asked \in Servers \cup {None}
    BY <1>1 DEF Clients
  <2>2. d = [state |-> c.state, active |-> Aged(c.active), leases |-> AgedLog(c.leases),
             offered |-> c.offered, reject |-> c.reject, asked |-> c.asked, age |-> age,
             timer |-> timer]
    BY Zenon, <1>1, <1>8 DEF Clients
  <2> HIDE DEF K
  <2>3. Aged(c.active) \in K \cup {None} /\ AgedLog(c.leases) \in Seq(K)
    BY <1>4 DEF K
  <2>4. d \in [state : States, active : K \cup {None}, leases : Seq(K),
               offered : Seq(Servers), reject : SUBSET Servers, asked : Servers \cup {None},
               age : Int, timer : [Timeouts -> Nat \cup {Off}]]
    BY Zenon, <1>6, <1>7, <2>1, <2>2, <2>3
  <2> QED  BY <2>4 DEF Clients, K
<1>12. \A f \in Timeouts : /\ Timer(c, f) = Off <=> Timer(d, f) = Off
                           /\ Timer(c, f) # Off => Timer(c, f) >= 1 /\ Timer(d, f) = Timer(c, f) - 1
  <2>1. \A f \in Timeouts : Timer(d, f) = Down(Timer(c, f), Off)
    BY <1>9, <1>10 DEF Timer
  <2> QED  BY Zenon, <1>5, <2>1, TimersAged
<1>13. \A f \in Timeouts : Only(c, f) => Only(d, f)
  BY <1>12 DEF Only
<1>14. ASSUME c.active # None
       PROVE  /\ d.active # None /\ c.active.renewal \in Int /\ c.active.expiry \in Int
              /\ Past <= c.active.renewal /\ c.active.renewal <= c.active.expiry
              /\ d.active.addr = c.active.addr /\ d.active.addr \in Servers
              /\ d.active.renewal = Down(c.active.renewal, Past)
              /\ d.active.expiry = Down(c.active.expiry, Past)
  <2>1. c.active \in Honoured(grant) /\ c.active \in Leases
    BY <1>3, <1>14 DEF Honoured
  <2>2. Older(d.active, c.active)
    BY <1>10, <2>1, AgedIs
  <2>3. d.active # None
    BY <2>2, DhclientAssumption DEF Older
  <2> QED  BY <2>1, <2>2, <2>3 DEF Older, Honoured, Leases
<1> HIDE DEF H
<1>15. Data(World)'
  <2>1. net' \in SUBSET Replies
    BY <1>1 DEF Tick, Replies
  <2>2. conf' = conf /\ file' = AgedLog(file) /\ written' \in Int
    BY <1>1 DEF Tick
  <2> QED  BY Zenon, <1>1, <1>2, <1>4, <1>11, <2>1, <2>2 DEF World, Data
<1>16. Waiting(d)
  <2>1. CASE c.state = "INIT"
    BY <1>1, <1>10, <1>13, <2>1, TimeoutNames DEF Waiting
  <2>2. CASE c.state = "SELECTING"
    BY <1>1, <1>10, <1>13, <2>2, TimeoutNames DEF Waiting
  <2>3. CASE c.state = "REQUESTING"
    BY <1>1, <1>10, <1>13, <2>3, TimeoutNames DEF Waiting
  <2>4. CASE c.state = "BOUND"
    <3>1. /\ c.active # None /\ Only(c, "state_bound")
          /\ Timer(c, "state_bound") <= c.active.renewal
      BY <1>1, <2>4 DEF Waiting
    <3>2. /\ Timer(c, "state_bound") >= 1 /\ Timer(d, "state_bound") = Timer(c, "state_bound") - 1
          /\ Timer(c, "state_bound") \in Int
      BY <1>5, <1>12, <3>1, TimeoutNames DEF Only, Off
    <3>3. Timer(d, "state_bound") <= d.active.renewal
      BY <1>14, <3>1, <3>2 DEF Down, Past
    <3> QED  BY <1>10, <1>13, <1>14, <2>4, <3>1, <3>3, TimeoutNames DEF Waiting
  <2>5. CASE c.state \in {"REBOOTING", "RENEWING"}
    <3>1. Asks(c) /\ Only(c, "send_request") /\ Timer(c, "send_request") <= c.active.expiry + 1
      BY <1>1, <2>5 DEF Waiting
    <3>2. /\ Timer(c, "send_request") >= 1
          /\ Timer(d, "send_request") = Timer(c, "send_request") - 1
          /\ Timer(c, "send_request") \in Int
      BY <1>5, <1>12, <3>1, TimeoutNames DEF Only, Off
    <3>3. Timer(d, "send_request") <= d.active.expiry + 1
      BY <1>14, <3>1, <3>2 DEF Down, Past, Asks
    <3>4. Asks(d)
      BY <1>10, <1>14, <3>1 DEF Asks
    <3> QED  BY <1>10, <1>13, <2>5, <3>1, <3>3, <3>4, TimeoutNames DEF Waiting
  <2>6. c.state \in States
    BY <1>1 DEF Clients
  <2> QED  BY <2>1, <2>2, <2>3, <2>4, <2>5, <2>6 DEF States
<1>17. UnderWay(World)'
  <2> SUFFICES ASSUME NEW r \in net' PROVE Fits(r, d, grant')
    BY WorldIs DEF UnderWay
  <2>1. PICK m \in net : m.age < MaxDelay /\ r = [m EXCEPT !.age = @ + 1]
    BY DEF Tick
  <2>2. /\ m \in Replies /\ Fits(m, c, grant) /\ m.age \in Int /\ m.srv \in Servers
        /\ r.type = m.type /\ r.srv = m.srv /\ r.age = m.age + 1
    BY <1>1, <2>1, WorldIs DEF UnderWay, Replies
  <2>3. r.age <= MaxDelay
    BY <2>1, <2>2, DhclientAssumption
  <2>4. r.type = "ACK" => LeaseTime <= grant'[r.srv] + r.age
    <3>1. grant[m.srv] \in Int /\ grant'[m.srv] \in Int /\ grant[m.srv] <= grant'[m.srv] + 1
      BY <1>1, <1>2, <2>2 DEF Grants
    <3>2. r.type = "ACK" => LeaseTime <= grant[m.srv] + m.age
      BY <2>2 DEF Fits
    <3> QED  BY <2>2, <3>1, <3>2, DhclientAssumption
  <2>5. c.state = "BOUND" => d.active.addr = c.active.addr
    BY <1>1, <1>14 DEF Waiting
  <2> QED  BY <1>10, <2>2, <2>3, <2>4, <2>5 DEF Fits
<1>18. InUse(World)'
  <2> SUFFICES ASSUME conf # None PROVE InUse(World)'
    BY WorldIs DEF InUse, Tick
  <2>1. /\ c.state \in {"BOUND", "RENEWING"} /\ c.active # None /\ conf = c.active.addr
        /\ c.active.expiry <= grant[conf] + MaxDelay
    BY Zenon, <1>1, WorldIs DEF InUse
  <2>2. c.active.expiry >= 0
    <3>1. CASE c.state = "BOUND"
      <4>1. /\ Only(c, "state_bound") /\ Timer(c, "state_bound") <= c.active.renewal
        BY <1>1, <3>1 DEF Waiting
      <4>2. Timer(c, "state_bound") >= 1 /\ Timer(c, "state_bound") \in Int
        BY <1>5, <1>12, <4>1, TimeoutNames DEF Only, Off
      <4> QED  BY <1>14, <2>1, <4>1, <4>2
    <3>2. CASE c.state = "RENEWING"
      <4>1. Only(c, "send_request") /\ Timer(c, "send_request") <= c.active.expiry + 1
        BY <1>1, <3>2 DEF Waiting
      <4>2. Timer(c, "send_request") >= 1 /\ Timer(c, "send_request") \in Int
        BY <1>5, <1>12, <4>1, TimeoutNames DEF Only, Off
      <4> QED  BY <1>14, <2>1, <4>1, <4>2
    <3> QED  BY <2>1, <3>1, <3>2
  <2>3. d.active.expiry = c.active.expiry - 1
    BY <1>14, <2>1, <2>2 DEF Down, Past
  <2>4. /\ conf \in Servers /\ grant[conf] \in Int /\ grant'[conf] \in Int
        /\ grant[conf] <= grant'[conf] + 1
    BY <1>1, <1>2, <1>14, <2>1 DEF Grants
  <2>5. d.active.expiry <= grant'[conf] + MaxDelay
    BY <1>14, <2>1, <2>3, <2>4, DhclientAssumption
  <2>6. conf' = conf
    BY DEF Tick
  <2> QED  BY <1>10, <1>14, <2>1, <2>5, <2>6, WorldIs DEF InUse
<1> QED  BY <1>15, <1>16, <1>17, <1>18, WorldIs DEF Sound

(* Restart: the client starts with the leases of its file, all of which    *)
(* are still honoured.                                                     *)
LEMMA RestartSound ==
    ASSUME Sound(World), Restart
    PROVE  Sound(World)'
<1> DEFINE H == Honoured(grant)
           db == read_client_leases(file)
           c == [state |-> "INIT", active |-> db.active, leases |-> db.leases,
                 offered |-> <<>>, reject |-> {}, asked |-> None, age |-> 0,
                 timer |-> [f \in Timeouts |-> Off]]
           w == [client |-> c, net |-> {}, conf |-> None,
                 file |-> rewrite_client_leases(c),
                 written |-> MIN_LEASE_WRITE, grant |-> grant]
<1>1. PICK v \in state_reboot(w) : Becomes(v)
  BY Zenon DEF Restart, Started
<1>2. file \in Seq(H) /\ grant \in Grants
  BY Zenon, WorldIs DEF Sound, Data
<1> HIDE DEF H
<1>3. db \in Contents(H)
  BY <1>2, ReadIn
<1>4. db.active \in H \cup {None} /\ db.leases \in Seq(H)
  BY <1>3 DEF Contents
<1> HIDE DEF db
<1>5. c.active = db.active /\ c.leases = db.leases /\ \A f \in Timeouts : c.timer[f] = Off
  OBVIOUS
<1>6. c \in Clients(grant)
  <2>1. c \in [state : States, active : H \cup {None}, leases : Seq(H),
               offered : Seq(Servers), reject : SUBSET Servers, asked : Servers \cup {None},
               age : Int, timer : [Timeouts -> Nat \cup {Off}]]
    <3>1. [f \in Timeouts |-> Off] \in [Timeouts -> Nat \cup {Off}]
      OBVIOUS
    <3> QED  BY Zenon, <1>4, <3>1, FreshClient
  <2> HIDE DEF c
  <2> QED  BY Zenon, <2>1 DEF Clients, H
<1> HIDE DEF c
<1>7. rewrite_client_leases(c) \in Seq(H)
  BY Zenon, <1>4, <1>5, RewrittenIn
<1>8. w.grant = grant /\ w.client = c /\ w.conf = None
  OBVIOUS
<1>9. Data(w)
  <2>1. w \in [client : Clients(grant), net : SUBSET Replies, conf : Servers \cup {None},
               file : Seq(H), written : Int, grant : Grants]
    BY Zenon, <1>2, <1>6, <1>7, FreshWorld
  <2> HIDE DEF w
  <2> QED  BY Zenon, <1>8, <2>1 DEF Data, H
<1> HIDE DEF w
<1>10. Quiet(w.client)
  BY <1>5, <1>8 DEF Quiet, Timer
<1>11. Sound(v)
  BY <1>1, <1>8, <1>9, <1>10, StateRebootSound
<1> QED  BY <1>1, <1>11, BecomesSound

LEMMA InitSound ==
    ASSUME Init
    PROVE  ClientInv
<1>1. client \in Clients(grant)
  <2> DEFINE H == Honoured(grant)
  <2> HIDE DEF H
  <2>1. client \in [state : States, active : H \cup {None}, leases : Seq(H),
                    offered : Seq(Servers), reject : SUBSET Servers, asked : Servers \cup {None},
                    age : Int, timer : [Timeouts -> Nat \cup {Off}]]
    <3>1. [f \in Timeouts |-> IF f = "state_reboot" THEN 0 ELSE Off] \in [Timeouts -> Nat \cup {Off}]
      OBVIOUS
    <3>2. None \in H \cup {None} /\ <<>> \in Seq(H)
      OBVIOUS
    <3> QED  BY Zenon, <3>1, <3>2, FreshClient DEF Init
  <2> QED  BY Zenon, <2>1 DEF Clients, H
<1>2. grant \in Grants
  BY Zenon, FreshGrants DEF Init
<1>3. net = {} /\ conf = None /\ file \in Seq(Honoured(grant)) /\ written \in Int
  <2>1. net = {} /\ conf = None /\ file = <<>> /\ written = MIN_LEASE_WRITE
    BY Zenon DEF Init
  <2> QED  BY <2>1, DhclientAssumption
<1>4. Data(World)
  BY Zenon, <1>1, <1>2, <1>3, WorldIs DEF Data, World
<1>5. Waiting(client)
  <2>1. client.state = "INIT"
    BY DEF Init
  <2>2. \A f \in Timeouts : client.timer[f] = IF f = "state_reboot" THEN 0 ELSE Off
    BY DEF Init
  <2>3. Only(client, "state_reboot")
    BY <2>2, TimeoutNames DEF Only, Timer, Off
  <2> QED  BY <2>1, <2>3 DEF Waiting
<1>6. UnderWay(World) /\ InUse(World)
  BY <1>3, WorldIs DEF UnderWay, InUse
<1> QED  BY Zenon, <1>4, <1>5, <1>6, WorldIs DEF Sound, ClientInv, Init

LEMMA NextSound ==
    ASSUME ClientInv, [Next]_vars
    PROVE  ClientInv'
<1>1. ASSUME NEW f \in Timeouts, Fire(f) PROVE ClientInv'
  BY <1>1, FireSound DEF ClientInv, Fire
<1>2. ASSUME NEW m \in net, Receive(m) PROVE ClientInv'
  BY <1>2, ReceiveSound DEF ClientInv, Receive
<1>3. CASE Tick
  BY <1>3, TickSound DEF ClientInv, Tick
<1>4. CASE Restart
  BY Zenon, <1>4, RestartSound DEF ClientInv, Restart
<1>5. ASSUME NEW name, NEW W, NEW stop, Command(name, W, stop) PROVE ClientInv'
  BY <1>5 DEF ClientInv, Command
<1>6. CASE Hibernate \/ Awaken \/ Release \/ LocationChanged
  BY Zenon, <1>5, <1>6 DEF Hibernate, Awaken, Release, LocationChanged
<1>7. CASE Calm \/ UNCHANGED vars
  <2>1. World' = World /\ commands' = commands
    BY <1>7 DEF World, Calm, vars
  <2> QED  BY <2>1 DEF ClientInv
<1> QED  BY <1>1, <1>2, <1>3, <1>4, <1>6, <1>7 DEF Next

-----------------------------------------------------------------------------
(* The theorems.                                                           *)

(* Until the operator gives a command, every lease that dhclient has or    *)
(* has written is one that its server still honours, the replies under way *)
(* are answers to what it asks for, and it waits for the one timeout of    *)
(* its state, set no later than its lease allows.                          *)
THEOREM ClientInvariant == Spec => []ClientInv
<1>1. Init => ClientInv
  BY InitSound
<1>2. ClientInv /\ [Next]_vars => ClientInv'
  BY NextSound
<1> QED  BY <1>1, <1>2, PTL DEF Spec

(* TimeoutOfState: the handlers of dhclient.c cancel and set the timeouts  *)
(* so that exactly the one that the new state waits for is pending, and no *)
(* handler runs in a state that is not its own, through lost, late and     *)
(* repeated replies, failing scripts and restarts.                         *)
THEOREM TimeoutsFollowStates == Spec => []TimeoutOfState
<1>1. ClientInv => TimeoutOfState
  <2> SUFFICES ASSUME ClientInv, commands = 0 PROVE TimeoutOfState
    BY DEF TimeoutOfState
  <2>1. Waiting(client) /\ client.state \in States
    BY WorldIs DEF ClientInv, Sound, Data, Clients
  <2>2. \A f \in Timeouts : Only(client, f) => Pending = {f}
    BY DEF Only, Timer, Pending
  <2>3. client.state = "INIT" => Pending \in {{"state_init"}, {"state_reboot"}}
    BY <2>1, <2>2, TimeoutNames DEF Waiting
  <2>4. client.state = "SELECTING" => Pending \in {{"send_discover"}, {"state_selecting"}}
    BY <2>1, <2>2, TimeoutNames DEF Waiting
  <2>5. client.state = "BOUND" => Pending \in {{"state_bound"}}
    BY <2>1, <2>2, TimeoutNames DEF Waiting
  <2>6. client.state \notin {"INIT", "SELECTING", "BOUND"}
           => Pending \in {{"send_request"}, {"state_init"}}
    BY <2>1, <2>2, TimeoutNames DEF Waiting
  <2> QED  BY <2>3, <2>4, <2>5, <2>6 DEF TimeoutOfState
<1> QED  BY <1>1, ClientInvariant, PTL

(* LeaseHonoured: the interface has an address only while its server       *)
(* leases it, but for the MaxDelay that the reply was under way and the    *)
(* second that send_request() takes to give it up: also for a lease that   *)
(* state_panic() recalls from the file after a restart.                    *)
THEOREM LeasesHonoured == Spec => []LeaseHonoured
<1>1. ClientInv => LeaseHonoured
  <2> SUFFICES ASSUME ClientInv, commands = 0, conf # None
               PROVE  grant[conf] >= -(MaxDelay + 1)
    BY DEF LeaseHonoured
  <2>1. /\ client.active # None /\ conf = client.active.addr
        /\ client.active.expiry <= grant[conf] + MaxDelay
    BY WorldIs DEF ClientInv, Sound, InUse
  <2>2. client.active \in Honoured(grant) /\ grant \in Grants
    BY Zenon, <2>1, WorldIs DEF ClientInv, Sound, Data, Clients
  <2>3. client.active.expiry \in Int /\ client.active.expiry >= -1 /\ grant[conf] \in Int
    BY <2>1, <2>2 DEF Honoured, Leases, Grants, Past
  <2> QED  BY <2>1, <2>3, DhclientAssumption
<1> QED  BY <1>1, ClientInvariant, PTL
===============================================================================
