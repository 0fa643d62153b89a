----------------------------- MODULE Dhc6Proofs -----------------------------
(***************************************************************************)
(* The DHCPv6 client of client/dhc6.c gives up every address by the time   *)
(* the server that granted it may give it to someone else, for any number  *)
(* of servers and identity associations, any lifetimes, answers, losses,   *)
(* restarts and releases, provided the constants are of the kinds that     *)
(* Settings says.                                                          *)
(*                                                                         *)
(* The argument: an address on the interface is an unexpired address of    *)
(* the active lease (Covered), do_expire() is set for no later than its    *)
(* end (Timed), and it ends no later than its server believes (Held).      *)
(* Every handler that takes a world with these leaves one with them, or    *)
(* ends the client (Over).  What a new process finds on the interface is   *)
(* in the lease file it reads, which is why start_bound() has to write     *)
(* the file before the script runs.                                        *)
(***************************************************************************)
EXTENDS Dhc6, FiniteSetTheorems, TLAPS

(***************************************************************************)
(* The invariant, of a world.                                              *)
(***************************************************************************)
Shape(w) ==
    /\ DOMAIN w = {"client", "net", "conf", "file", "grant"}
    /\ DOMAIN w.client = {"state", "handler", "active", "selected", "advertised", "timer",
                          "txcount", "age", "mrc", "mrd", "next_MRD", "refresh"}
    /\ DOMAIN w.client.timer = Timeouts /\ {Off, w.client.timer["do_expire"]} \subseteq Int
    /\ DOMAIN w.file = {"lease", "released"}

(* The lease's addresses end no later than their servers believe, late     *)
(* replies allowed for.                                                    *)
Held(lease, g) ==
    lease # None =>
        /\ lease \in Leases /\ IsFiniteSet(lease.addrs)
        /\ \A a \in lease.addrs :
              a.valid <= Valid[a.kind] /\ a.valid <= g[a.kind][a.srv] + MaxDelay

(* Replies under way grant no more than their servers believe.             *)
UnderWay(N, g) ==
    /\ N \in SUBSET Replied
    /\ \A m \in N : m.type # "ADVERTISE" =>
          \A k \in m.kinds : Valid[k] <= g[k][m.srv] + m.age

Granted(g) ==
    /\ g \in [Wanted -> [Servers -> Int]]
    /\ \A k \in Wanted, s \in Servers : -MaxDelay <= g[k][s]

Advertised(A) ==
    /\ A \in SUBSET Offers /\ IsFiniteSet(A)
    /\ \A a, b \in A : a.srv = b.srv => a = b

NamesOf(lease) == IF lease = None THEN {} ELSE Names(lease.addrs)

(* In any state.                                                           *)
Sound(w) ==
    /\ Shape(w) /\ Granted(w.grant) /\ UnderWay(w.net, w.grant)
    /\ Held(w.client.active, w.grant) /\ Held(w.file.lease, w.grant)
    /\ w.client.selected # None => w.client.selected \in Offers
    /\ Advertised(w.client.advertised)
    /\ w.conf \subseteq NamesOf(w.file.lease)

(* What is configured is in the active lease, and do_expire() is pending   *)
(* for it.                                                                 *)
Covered(w) ==
    w.conf \subseteq IF w.client.active = None THEN {} ELSE Names(Live(w.client.active.addrs))

Timed(w) ==
    \A a \in IF w.client.active = None THEN {} ELSE Live(w.client.active.addrs) :
        <<a.kind, a.srv>> \in w.conf => w.client.timer["do_expire"] <= a.valid

(* Nothing is configured yet while a lease is confirmed.                   *)
Quiet(w) == w.client.state = "REBOOTING" => w.conf = {}

Alive(w) == w.client.state \notin {"EXIT", "FATAL"}
Running(w) == Sound(w) /\ Alive(w) /\ Quiet(w) /\ Covered(w) /\ Timed(w)
Over(w) ==
    /\ Sound(w) /\ ~ Alive(w) /\ w.client.handler = "none"
    /\ \A f \in Timeouts : w.client.timer[f] = Off

Good(w) == Running(w) \/ Over(w)
AllGood(W) == \A w \in W : Good(w)

(* The inductive invariant.                                                *)
Dhc6Inv == Good(World)

-----------------------------------------------------------------------------
(***************************************************************************)
(* Finite sets: a smallest element of an order, and images.                *)
(***************************************************************************)
LEMMA SmallestExists ==
    ASSUME NEW T \in SUBSET Nat, T # {}
    PROVE  \E x \in T : \A y \in T : x <= y
<1>1. PICK x \in T : \A y \in T : ~ (<<y, x>> \in OpToRel(<, Nat))
  BY WFMin, NatLessThanWellFounded, Zenon
<1>2. \A y \in T : ~ (y < x)
  BY <1>1, Zenon DEF OpToRel
<1> QED  BY <1>2

(* The element with the fewest below it has none.                          *)
LEMMA LeastExists ==
    ASSUME NEW A, IsFiniteSet(A), A # {}, NEW R,
           \A a \in A : <<a, a>> \notin R,
           \A a, b, c \in A : <<a, b>> \in R /\ <<b, c>> \in R => <<a, c>> \in R
    PROVE  \E a \in A : \A b \in A : <<b, a>> \notin R
<1> DEFINE Below(a) == {b \in A : <<b, a>> \in R}
           T == {Cardinality(Below(a)) : a \in A}
<1>1. ASSUME NEW a PROVE IsFiniteSet(Below(a)) /\ Cardinality(Below(a)) \in Nat
  <2>1. Below(a) \in SUBSET A
    OBVIOUS
  <2> HIDE DEF Below
  <2>2. IsFiniteSet(Below(a))
    BY <2>1, FS_Subset
  <2> QED  BY <2>2, FS_CardinalityType
<1>2. T \in SUBSET Nat /\ T # {}
  <2> HIDE DEF Below
  <2>1. \A a \in A : Cardinality(Below(a)) \in Nat
    BY <1>1
  <2> QED  BY <2>1
<1>3. PICK x \in T : \A y \in T : x <= y
  BY Zenon, <1>2, SmallestExists
<1>4. PICK a \in A : x = Cardinality(Below(a))
  OBVIOUS
<1>5. ASSUME NEW b \in A, <<b, a>> \in R PROVE FALSE
  <2>1. Below(b) \in SUBSET Below(a) /\ b \in Below(a) /\ b \notin Below(b)
    BY <1>5
  <2>2. Cardinality(Below(b)) \in T
    BY Zenon
  <2>3. Below(a) # Below(b)
    BY <2>1
  <2> HIDE DEF Below, T
  <2>4. /\ Cardinality(Below(b)) <= Cardinality(Below(a))
        /\ Cardinality(Below(a)) # Cardinality(Below(b))
    BY <1>1, <2>1, <2>3, FS_Subset
  <2>5. Cardinality(Below(a)) <= Cardinality(Below(b))
    BY <1>3, <1>4, <2>2
  <2>6. Cardinality(Below(a)) \in Nat /\ Cardinality(Below(b)) \in Nat
    BY <1>1
  <2> QED  BY <2>4, <2>5, <2>6
<1> QED  BY <1>5

LEMMA MinIs ==
    ASSUME NEW S \in SUBSET Int, IsFiniteSet(S), S # {}
    PROVE  Min(S) \in S /\ \A y \in S : Min(S) <= y
<1> DEFINE R == {p \in S \X S : p[1] < p[2]}
<1>0. \A x, y \in S : <<x, y>> \in R <=> x < y
  OBVIOUS
<1> HIDE DEF R
<1>1. \A x \in S : <<x, x>> \notin R
  BY <1>0
<1>2. \A x, y, z \in S : <<x, y>> \in R /\ <<y, z>> \in R => <<x, z>> \in R
  BY <1>0
<1>3. PICK x \in S : \A y \in S : <<y, x>> \notin R
  BY Zenon, <1>1, <1>2, LeastExists
<1>4. \A y \in S : x <= y
  <2>1. \A y \in S : ~ (y < x) /\ y \in Int
    BY Zenon, <1>0, <1>3
  <2> QED  BY <2>1
<1> QED  BY Zenon, <1>4 DEF Min

LEMMA ImageFinite ==
    ASSUME NEW S, IsFiniteSet(S), NEW h, NEW T, T = {h[x] : x \in S}, S \subseteq DOMAIN h
    PROVE  IsFiniteSet(T)
<1> DEFINE f == [x \in S |-> h[x]]
<1>1. f \in [S -> T] /\ \A t \in T : \E x \in S : f[x] = t
  OBVIOUS
<1>2. f \in Surjection(S, T)
  BY <1>1 DEF Surjection
<1> HIDE DEF f
<1> QED  BY <1>2, FS_Surjection

(* Of the leases advertised one is better than the others.                 *)
LEMMA BestIs ==
    ASSUME Settings, NEW A, Advertised(A), A # {}
    PROVE  dhc6_best_lease(A) \in A
<1> DEFINE R == {p \in A \X A : Better(p[1], p[2])}
<1>0. \A a, b \in A : <<a, b>> \in R <=> Better(a, b)
  OBVIOUS
<1> HIDE DEF R
<1>1. \A a \in A : /\ a.srv \in Int /\ Preference[a.srv] \in Int
                   /\ dhc6_score_lease(a.kinds) \in Int
  <2> SUFFICES ASSUME NEW a \in A
               PROVE  /\ a.srv \in Int /\ Preference[a.srv] \in Int
                      /\ dhc6_score_lease(a.kinds) \in Int
    OBVIOUS
  <2>1. a.srv \in Servers /\ a.kinds \in SUBSET Wanted
    BY DEF Advertised, Offers
  <2>2. IsFiniteSet(Wanted) /\ Servers \subseteq Int /\ Preference \in [Servers -> Int]
    BY DEF Settings
  <2>3. IsFiniteSet(a.kinds)
    BY <2>1, <2>2, FS_Subset
  <2>4. Cardinality(a.kinds) \in Nat
    BY <2>3, FS_CardinalityType
  <2>5. a.srv \in Int /\ Preference[a.srv] \in Int
    BY Zenon, <2>1, <2>2
  <2>6. dhc6_score_lease(a.kinds) \in Int
    BY <2>4 DEF dhc6_score_lease
  <2> QED  BY <2>5, <2>6
<1>2. IsFiniteSet(A) /\ \A a, b \in A : a.srv = b.srv => a = b
  BY DEF Advertised
<1>3. \A a \in A : <<a, a>> \notin R
  BY <1>0, <1>1 DEF Better
<1>4. \A a, b, c \in A : <<a, b>> \in R /\ <<b, c>> \in R => <<a, c>> \in R
  BY <1>0, <1>1 DEF Better
<1>5. PICK a \in A : \A b \in A : <<b, a>> \notin R
  BY <1>2, <1>3, <1>4, LeastExists
<1>6. ASSUME NEW b \in A \ {a} PROVE Better(a, b)
  <2>1. ~ Better(b, a) /\ a.srv # b.srv
    BY Zenon, <1>0, <1>2, <1>5
  <2> QED  BY <1>1, <2>1 DEF Better
<1> QED  BY <1>6 DEF dhc6_best_lease

-----------------------------------------------------------------------------
(***************************************************************************)
(* Worlds that differ only in what an exchange uses.                       *)
(***************************************************************************)
Same(u, w) ==
    /\ Shape(u)
    /\ u.client.active = w.client.active /\ u.client.selected = w.client.selected
    /\ u.client.advertised = w.client.advertised
    /\ u.conf = w.conf /\ u.file = w.file /\ u.grant = w.grant
    /\ u.net \in SUBSET w.net

SameTimer(u, w) == u.client.timer["do_expire"] = w.client.timer["do_expire"]

LEMMA SameKeeps ==
    ASSUME NEW u, NEW w, Same(u, w), Sound(w)
    PROVE  /\ Sound(u)
           /\ Covered(w) => Covered(u)
           /\ SameTimer(u, w) /\ Timed(w) => Timed(u)
<1>1. Sound(u)
  <2>1. UnderWay(u.net, u.grant)
    BY DEF Same, Sound, UnderWay
  <2> QED  BY <2>1 DEF Same, Sound
<1>2. Covered(w) => Covered(u)
  BY DEF Same, Covered
<1>3. SameTimer(u, w) /\ Timed(w) => Timed(u)
  BY DEF Same, Timed, SameTimer
<1> QED  BY <1>1, <1>2, <1>3

LEMMA AddTimeout ==
    ASSUME NEW w, Shape(w), NEW f \in Timeouts, NEW t, f = "do_expire" => t \in Int
    PROVE  /\ Same(add_timeout(w, f, t), w)
           /\ add_timeout(w, f, t).client.state = w.client.state
           /\ add_timeout(w, f, t).client.handler = w.client.handler
           /\ add_timeout(w, f, t).client.timer[f] = t
           /\ f # "do_expire" => SameTimer(add_timeout(w, f, t), w)
<1> DEFINE u == add_timeout(w, f, t)
<1>1. /\ DOMAIN u = DOMAIN w /\ DOMAIN u.client = DOMAIN w.client
      /\ DOMAIN u.client.timer = DOMAIN w.client.timer
      /\ u.client.timer[f] = t
      /\ f # "do_expire" => u.client.timer["do_expire"] = w.client.timer["do_expire"]
      /\ u.client.state = w.client.state /\ u.client.handler = w.client.handler
      /\ u.client.active = w.client.active /\ u.client.selected = w.client.selected
      /\ u.client.advertised = w.client.advertised
      /\ u.conf = w.conf /\ u.file = w.file /\ u.grant = w.grant /\ u.net = w.net
  BY DEF add_timeout, Shape, Timeouts
<1> HIDE DEF u
<1>2. u.client.timer["do_expire"] \in Int
  BY <1>1 DEF Shape
<1> QED  BY <1>1, <1>2 DEF Same, Shape, SameTimer, u

LEMMA CancelTimeout ==
    ASSUME NEW w, Shape(w), NEW F
    PROVE  /\ Same(cancel_timeout(w, F), w)
           /\ cancel_timeout(w, F).client.state = w.client.state
           /\ cancel_timeout(w, F).client.handler = w.client.handler
           /\ cancel_timeout(w, F).net = w.net
           /\ \A f \in Timeouts : cancel_timeout(w, F).client.timer[f]
                                    = IF f \in F THEN Off ELSE w.client.timer[f]
           /\ "do_expire" \notin F => SameTimer(cancel_timeout(w, F), w)
<1> DEFINE u == cancel_timeout(w, F)
           t == [f \in Timeouts |-> IF f \in F THEN Off ELSE w.client.timer[f]]
<1>1. u = [w EXCEPT !.client.timer = t]
  BY DEF cancel_timeout
<1>2. DOMAIN t = Timeouts /\ t["do_expire"] \in Int /\ "do_expire" \in Timeouts
  BY DEF Timeouts, Shape
<1>3. \A f \in Timeouts : t[f] = IF f \in F THEN Off ELSE w.client.timer[f]
  OBVIOUS
<1> HIDE DEF u, t
<1>4. /\ DOMAIN u = DOMAIN w /\ DOMAIN u.client = DOMAIN w.client
      /\ u.client.timer = t
      /\ u.client.state = w.client.state /\ u.client.handler = w.client.handler
      /\ u.client.active = w.client.active /\ u.client.selected = w.client.selected
      /\ u.client.advertised = w.client.advertised
      /\ u.conf = w.conf /\ u.file = w.file /\ u.grant = w.grant /\ u.net = w.net
  BY <1>1 DEF Shape
<1>5. Same(u, w)
  BY <1>2, <1>4 DEF Same, Shape
<1>6. "do_expire" \notin F => SameTimer(u, w)
  BY <1>2, <1>3, <1>4 DEF SameTimer
<1> QED  BY <1>3, <1>4, <1>5, <1>6 DEF u

LEMMA RetransInit ==
    ASSUME NEW w, Shape(w), NEW h, NEW a, NEW b
    PROVE  /\ Same(dhc6_retrans_init(w, h, a, b), w)
           /\ dhc6_retrans_init(w, h, a, b).client.state = w.client.state
           /\ dhc6_retrans_init(w, h, a, b).client.handler = h
           /\ dhc6_retrans_init(w, h, a, b).client.timer = w.client.timer
           /\ SameTimer(dhc6_retrans_init(w, h, a, b), w)
<1> DEFINE u == dhc6_retrans_init(w, h, a, b)
<1>1. /\ DOMAIN u = DOMAIN w /\ DOMAIN u.client = DOMAIN w.client
      /\ u.client.timer = w.client.timer
      /\ u.client.state = w.client.state /\ u.client.handler = h
      /\ u.client.active = w.client.active /\ u.client.selected = w.client.selected
      /\ u.client.advertised = w.client.advertised
      /\ u.conf = w.conf /\ u.file = w.file /\ u.grant = w.grant /\ u.net = {}
  BY Zenon DEF dhc6_retrans_init, Shape
<1> HIDE DEF u
<1>2. Same(u, w)
  BY <1>1 DEF Same, Shape
<1>3. SameTimer(u, w)
  BY <1>1 DEF SameTimer
<1> QED  BY <1>1, <1>2, <1>3 DEF u

LEMMA SameTrans ==
    ASSUME NEW u, NEW v, NEW w, Same(u, v), Same(v, w)
    PROVE  /\ Same(u, w)
           /\ SameTimer(u, v) /\ SameTimer(v, w) => SameTimer(u, w)
BY DEF Same, SameTimer

(* A handler that only starts another exchange.                            *)
LEMMA StartInit ==
    ASSUME NEW w, Sound(w), Covered(w), Timed(w)
    PROVE  Running(start_init6(w)) /\ Same(start_init6(w), w)
<1> DEFINE v == [w EXCEPT !.client.state = "INIT"]
           r == dhc6_retrans_init(v, "init_handler", 0, 0)
           u == add_timeout(r, "do_init6", 0)
<1>1. Shape(w)
  BY DEF Sound
<1>2. Same(v, w) /\ SameTimer(v, w) /\ v.client.state = "INIT"
  BY <1>1 DEF Shape, Same, SameTimer
<1> HIDE DEF v
<1>3. Same(r, v) /\ SameTimer(r, v) /\ r.client.state = "INIT"
  <2>1. Shape(v)
    BY <1>2 DEF Same
  <2> QED  BY <1>2, <2>1, RetransInit
<1> HIDE DEF r
<1>4. Same(u, r) /\ SameTimer(u, r) /\ u.client.state = "INIT"
  <2>1. "do_init6" \in Timeouts
    BY DEF Timeouts
  <2>2. Shape(r)
    BY <1>3 DEF Same
  <2> QED  BY <1>3, <2>1, <2>2, AddTimeout
<1>5. start_init6(w) = u
  BY DEF start_init6, u, r, v
<1> HIDE DEF u
<1>6. Same(u, w) /\ SameTimer(u, w)
  BY <1>2, <1>3, <1>4, SameTrans
<1>7. Sound(u) /\ Covered(u) /\ Timed(u)
  BY <1>6, SameKeeps
<1> QED  BY <1>4, <1>5, <1>6, <1>7 DEF Running, Alive, Quiet

(* Without anything configured, the lease may be dropped.                  *)
LEMMA Dropped ==
    ASSUME NEW w, Sound(w), w.conf = {}
    PROVE  LET u == [w EXCEPT !.client.active = None]
           IN  Sound(u) /\ Covered(u) /\ Timed(u)
<1> DEFINE u == [w EXCEPT !.client.active = None]
<1>1. Shape(w)
  BY DEF Sound
<1>2. /\ DOMAIN u = DOMAIN w /\ DOMAIN u.client = DOMAIN w.client
      /\ u.client.timer = w.client.timer
      /\ u.client.active = None /\ u.client.selected = w.client.selected
      /\ u.client.advertised = w.client.advertised
      /\ u.conf = w.conf /\ u.file = w.file /\ u.grant = w.grant /\ u.net = w.net
  BY <1>1 DEF Shape
<1> HIDE DEF u
<1>3. Sound(u)
  <2>1. Held(u.client.active, u.grant)
    BY <1>2 DEF Held
  <2> QED  BY <1>2, <2>1 DEF Sound, Shape
<1>4. Covered(u) /\ Timed(u)
  BY <1>2 DEF Covered, Timed
<1> QED  BY <1>3, <1>4 DEF u

LEMMA FatalIs ==
    ASSUME NEW w, Sound(w)
    PROVE  AllGood(Fatal(w))
<1> DEFINE v == cancel_timeout(w, Timeouts)
           u == [v EXCEPT !.client.state = "FATAL", !.client.handler = "none"]
<1>1. Shape(w)
  BY DEF Sound
<1>2. Same(v, w) /\ \A f \in Timeouts : v.client.timer[f] = Off
  BY <1>1, CancelTimeout
<1> HIDE DEF v
<1>3. /\ Same(u, v) /\ u.client.timer = v.client.timer /\ u.client.state = "FATAL"
      /\ u.client.handler = "none"
  BY Zenon, <1>2 DEF Same, Shape
<1> HIDE DEF u
<1>4. Sound(u)
  BY <1>2, <1>3, SameTrans, SameKeeps
<1>5. Over(u)
  BY <1>2, <1>3, <1>4 DEF Over, Alive
<1>6. Fatal(w) = {u}
  BY DEF Fatal, u, v
<1> QED  BY <1>5, <1>6 DEF AllGood, Good

LEMMA FinishedIs ==
    ASSUME NEW w, Sound(w)
    PROVE  Good(Finished(w))
<1> DEFINE v == cancel_timeout(w, Timeouts)
           u == [v EXCEPT !.client.active = None, !.client.state = "EXIT",
                          !.client.handler = "none", !.net = {}]
<1>1. Shape(w)
  BY DEF Sound
<1>2. Same(v, w) /\ \A f \in Timeouts : v.client.timer[f] = Off
  BY <1>1, CancelTimeout
<1>3. Sound(v)
  BY <1>2, SameKeeps
<1> HIDE DEF v
<1>4. /\ DOMAIN u = DOMAIN v /\ DOMAIN u.client = DOMAIN v.client
      /\ u.client.timer = v.client.timer
      /\ u.client.active = None /\ u.client.selected = v.client.selected
      /\ u.client.advertised = v.client.advertised
      /\ u.conf = v.conf /\ u.file = v.file /\ u.grant = v.grant /\ u.net = {}
      /\ u.client.state = "EXIT" /\ u.client.handler = "none"
  BY Zenon, <1>2 DEF Same, Shape
<1>5. Finished(w) = u
  BY DEF Finished, u, v
<1> HIDE DEF u
<1>6. Sound(u)
  <2>1. Held(u.client.active, u.grant) /\ UnderWay(u.net, u.grant)
    BY <1>4 DEF Held, UnderWay
  <2> QED  BY <1>3, <1>4, <2>1 DEF Sound, Shape
<1>7. Over(u)
  BY <1>2, <1>4, <1>6 DEF Over, Alive
<1> QED  BY <1>5, <1>7 DEF Good

-----------------------------------------------------------------------------
(***************************************************************************)
(* Sending.                                                                *)
(***************************************************************************)
LEMMA RepliesAre ==
    ASSUME Settings, NEW type \in {"ADVERTISE", "REPLY", "RAPID"}, NEW s \in Servers,
           NEW r \in Replies(type, s)
    PROVE  r \in Replied /\ r.type = type /\ r.srv = s /\ r.age = 0
<1>1. PICK c \in Codes \cup {"Success"}, K \in SUBSET Wanted : r = Message(type, s, c, K)
  BY DEF Replies
<1>2. 0 \in 0 .. MaxDelay
  BY DEF Settings
<1> QED  BY <1>1, <1>2 DEF Message, Replied

(* A grant is renewed in full or stays as it was.                          *)
LEMMA HeldLonger ==
    ASSUME Settings, NEW lease, NEW g, NEW h, Held(lease, g),
           \A k \in Wanted, s \in Servers : h[k][s] = Valid[k] \/ h[k][s] = g[k][s]
    PROVE  Held(lease, h)
<1> SUFFICES ASSUME lease # None
             PROVE  \A a \in lease.addrs : a.valid <= h[a.kind][a.srv] + MaxDelay
  BY DEF Held
<1> TAKE a \in lease.addrs
<1>1. /\ a.kind \in Wanted /\ a.srv \in Servers /\ a.valid \in Int
      /\ a.valid <= Valid[a.kind] /\ a.valid <= g[a.kind][a.srv] + MaxDelay
  BY DEF Held, Leases, Addresses
<1>2. Valid[a.kind] \in Nat /\ MaxDelay \in Nat
  BY <1>1 DEF Settings
<1> QED  BY <1>1, <1>2

LEMMA ExchangeSound ==
    ASSUME Settings, NEW w, Sound(w), NEW type \in {"ADVERTISE", "REPLY", "RAPID"},
           NEW S \in SUBSET Servers, NEW v \in Exchange(w, type, S)
    PROVE  Sound(v) /\ v.client = w.client /\ v.conf = w.conf
<1>1. PICK R \in SUBSET UNION {Replies(type, s) : s \in S} :
         v = [w EXCEPT
                !.net = {m \in @ : <<m.type, m.srv>> \notin {<<r.type, r.srv>> : r \in R}} \cup R,
                !.grant = [k \in Wanted |-> [s \in Servers |->
                    IF type \in {"REPLY", "RAPID"} /\ \E r \in R : r.srv = s /\ k \in r.kinds
                    THEN Valid[k] ELSE @[k][s]]]]
  BY Zenon DEF Exchange
<1> DEFINE N == {m \in w.net : <<m.type, m.srv>> \notin {<<r.type, r.srv>> : r \in R}} \cup R
           g == [k \in Wanted |-> [s \in Servers |->
                    IF type \in {"REPLY", "RAPID"} /\ \E r \in R : r.srv = s /\ k \in r.kinds
                    THEN Valid[k] ELSE w.grant[k][s]]]
<1>2. v = [w EXCEPT !.net = N, !.grant = g]
  BY <1>1
<1>3. \A m \in N : m \in w.net \/ m \in R
  OBVIOUS
<1>4. \A r \in R : r \in Replied /\ r.type = type /\ r.age = 0
  BY RepliesAre
<1>5. \A k \in Wanted, s \in Servers :
         g[k][s] = IF type \in {"REPLY", "RAPID"} /\ \E r \in R : r.srv = s /\ k \in r.kinds
                   THEN Valid[k] ELSE w.grant[k][s]
  OBVIOUS
<1>6. \A k \in Wanted : Valid[k] \in Nat
  BY DEF Settings
<1>7. \A k \in Wanted, s \in Servers : w.grant[k][s] \in Int /\ -MaxDelay <= w.grant[k][s]
  BY DEF Sound, Granted
<1>8. Granted(g)
  <2>1. g \in [Wanted -> [Servers -> Int]]
    BY <1>6, <1>7
  <2> HIDE DEF g
  <2>2. \A k \in Wanted, s \in Servers : -MaxDelay <= g[k][s]
    BY <1>5, <1>6, <1>7 DEF Settings
  <2> QED  BY <2>1, <2>2 DEF Granted
<1> HIDE DEF g, N
<1>9. UnderWay(N, g)
  <2>1. N \in SUBSET Replied
    BY <1>3, <1>4 DEF Sound, UnderWay
  <2>2. ASSUME NEW m \in N, m.type # "ADVERTISE", NEW k \in m.kinds
        PROVE  Valid[k] <= g[k][m.srv] + m.age
    <3>1. m.srv \in Servers /\ k \in Wanted /\ m.age \in Nat
      BY <2>1, <2>2 DEF Replied, Settings
    <3>2. CASE m \in R
      BY <1>4, <1>5, <1>6, <2>2, <3>1, <3>2
    <3>3. CASE m \in w.net
      <4>1. Valid[k] <= w.grant[k][m.srv] + m.age
        BY <2>2, <3>3 DEF Sound, UnderWay
      <4>2. g[k][m.srv] = Valid[k] \/ g[k][m.srv] = w.grant[k][m.srv]
        BY <1>5, <3>1
      <4> QED  BY <1>6, <3>1, <4>1, <4>2
    <3> QED  BY <1>3, <3>2, <3>3
  <2> QED  BY <2>1, <2>2 DEF UnderWay
<1>10. \A k \in Wanted, s \in Servers : g[k][s] = Valid[k] \/ g[k][s] = w.grant[k][s]
  BY <1>5
<1>11. Held(w.client.active, g) /\ Held(w.file.lease, g)
  BY <1>10, HeldLonger DEF Sound
<1>12. /\ DOMAIN v = DOMAIN w /\ v.client = w.client /\ v.conf = w.conf /\ v.file = w.file
       /\ v.net = N /\ v.grant = g
  BY <1>2 DEF Sound, Shape
<1> QED  BY <1>8, <1>9, <1>11, <1>12 DEF Sound, Shape

LEMMA TransmitRuns ==
    ASSUME Settings, NEW w, Running(w), NEW f \in Timeouts \ {"do_expire"},
           NEW type \in {"ADVERTISE", "REPLY", "RAPID"}, NEW S \in SUBSET Servers
    PROVE  AllGood(Transmit(w, f, type, S))
<1> SUFFICES ASSUME NEW u \in Transmit(w, f, type, S) PROVE Running(u)
  BY DEF AllGood, Good
<1>1. PICK v \in Exchange(w, type, S) : \E t :
        u = add_timeout([v EXCEPT !.client.txcount = IF @ > REQ_MAX_RC THEN @ ELSE @ + 1], f, t)
  BY Zenon DEF Transmit
<1> DEFINE n == IF v.client.txcount > REQ_MAX_RC THEN v.client.txcount ELSE v.client.txcount + 1
           x == [v EXCEPT !.client.txcount = n]
<1>2. Sound(v) /\ v.client = w.client /\ v.conf = w.conf
  BY ExchangeSound DEF Running
<1>3. Alive(v) /\ Quiet(v) /\ Covered(v) /\ Timed(v)
  BY <1>2 DEF Running, Alive, Quiet, Covered, Timed
<1> HIDE DEF n
<1>4. Same(x, v) /\ SameTimer(x, v) /\ x.client.state = v.client.state
  BY <1>2 DEF Same, SameTimer, Sound, Shape
<1>5. PICK t : u = add_timeout(x, f, t)
  BY <1>1 DEF n
<1> HIDE DEF x
<1>6. Same(u, x) /\ SameTimer(u, x) /\ u.client.state = x.client.state
  <2>1. Shape(x)
    BY <1>4 DEF Same
  <2> QED  BY <1>5, <2>1, AddTimeout
<1>7. Same(u, v) /\ SameTimer(u, v)
  BY <1>4, <1>6, SameTrans
<1>8. Sound(u) /\ Covered(u) /\ Timed(u)
  BY <1>2, <1>3, <1>7, SameKeeps
<1>9. u.conf = v.conf
  BY <1>7 DEF Same
<1> QED  BY <1>3, <1>4, <1>6, <1>8, <1>9 DEF Running, Alive, Quiet

-----------------------------------------------------------------------------
(***************************************************************************)
(* Soliciting.                                                             *)
(***************************************************************************)
LEMMA RunningSame ==
    ASSUME NEW u, NEW w, Running(w), Same(u, w), SameTimer(u, w),
           u.client.state \notin {"EXIT", "FATAL"},
           u.client.state = "REBOOTING" => w.client.state = "REBOOTING"
    PROVE  Running(u)
<1>1. Sound(u) /\ Covered(u) /\ Timed(u)
  BY SameKeeps DEF Running
<1>2. u.conf = w.conf
  BY DEF Same
<1> QED  BY <1>1, <1>2 DEF Running, Alive, Quiet

(* The leases advertised may change.                                       *)
LEMMA Reoffered ==
    ASSUME NEW u, NEW w, Running(w), Shape(u), SameTimer(u, w),
           u.client.active = w.client.active, u.conf = w.conf, u.file = w.file,
           u.grant = w.grant, u.net = w.net,
           u.client.selected # None => u.client.selected \in Offers,
           Advertised(u.client.advertised),
           u.client.state \in {"SELECTING", w.client.state}
    PROVE  Running(u)
<1>1. Sound(u)
  BY DEF Running, Sound
<1>2. Covered(u) /\ Timed(u)
  BY DEF Running, Covered, Timed, SameTimer
<1>3. Alive(u) /\ Quiet(u)
  BY DEF Running, Alive, Quiet
<1> QED  BY <1>1, <1>2, <1>3 DEF Running

LEMMA Unselected ==
    ASSUME NEW w, Running(w)
    PROVE  LET u == [w EXCEPT !.client.selected = None]
           IN  /\ Running(u) /\ u.client.state = w.client.state
               /\ u.client.advertised = w.client.advertised
<1> DEFINE u == [w EXCEPT !.client.selected = None]
<1>1. Shape(w) /\ Advertised(w.client.advertised)
  BY DEF Running, Sound
<1>2. /\ DOMAIN u = DOMAIN w /\ DOMAIN u.client = DOMAIN w.client
      /\ u.client.timer = w.client.timer
      /\ u.client.active = w.client.active /\ u.client.selected = None
      /\ u.client.advertised = w.client.advertised /\ u.client.state = w.client.state
      /\ u.conf = w.conf /\ u.file = w.file /\ u.grant = w.grant /\ u.net = w.net
  BY <1>1 DEF Shape
<1> HIDE DEF u
<1>3. Shape(u) /\ SameTimer(u, w)
  BY <1>1, <1>2 DEF Shape, SameTimer
<1>4. Running(u)
  BY <1>1, <1>2, <1>3, Reoffered
<1> QED  BY <1>2, <1>4 DEF u

LEMMA Readvertised ==
    ASSUME NEW w, Running(w), NEW A, Advertised(A)
    PROVE  LET u == [w EXCEPT !.client.advertised = A]
           IN  Running(u) /\ u.client.state = w.client.state /\ Shape(u)
<1> DEFINE u == [w EXCEPT !.client.advertised = A]
<1>1. Shape(w) /\ (w.client.selected # None => w.client.selected \in Offers)
  BY DEF Running, Sound
<1>2. /\ DOMAIN u = DOMAIN w /\ DOMAIN u.client = DOMAIN w.client
      /\ u.client.timer = w.client.timer
      /\ u.client.active = w.client.active /\ u.client.selected = w.client.selected
      /\ u.client.advertised = A /\ u.client.state = w.client.state
      /\ u.conf = w.conf /\ u.file = w.file /\ u.grant = w.grant /\ u.net = w.net
  BY <1>1 DEF Shape
<1> HIDE DEF u
<1>3. Shape(u) /\ SameTimer(u, w)
  BY <1>1, <1>2 DEF Shape, SameTimer
<1>4. Running(u)
  BY <1>1, <1>2, <1>3, Reoffered
<1> QED  BY <1>2, <1>3, <1>4 DEF u

LEMMA RequestRuns ==
    ASSUME Settings, NEW w, Running(w), w.client.selected # None
    PROVE  AllGood(SendRequest6(w))
<1>1. {w.client.selected.srv} \in SUBSET Servers
  BY DEF Running, Sound, Offers
<1>2. "do_select6" \in Timeouts \ {"do_expire"}
  BY DEF Timeouts
<1> QED  BY <1>1, <1>2, TransmitRuns DEF SendRequest6

LEMMA SelectingRuns ==
    ASSUME Settings, NEW w, Running(w)
    PROVE  AllGood(start_selecting6(w))
<1>1. CASE w.client.advertised = {}
  BY <1>1 DEF start_selecting6, AllGood, Good
<1>2. CASE w.client.advertised # {}
  <2> DEFINE A == w.client.advertised
             best == dhc6_best_lease(A)
             x == [w EXCEPT !.client.state = "SELECTING", !.client.selected = best,
                            !.client.advertised = A \ {best}]
             r == dhc6_retrans_init(x, "reply_handler", REQ_MAX_RC, 0)
  <2>1. Shape(w) /\ Advertised(A)
    BY DEF Running, Sound
  <2> HIDE DEF A
  <2>2. best \in A /\ best \in Offers
    BY <1>2, <2>1, BestIs DEF A, Advertised
  <2>3. Advertised(A \ {best})
    <3>1. IsFiniteSet(A \ {best})
      BY <2>1, FS_RemoveElement DEF Advertised
    <3> QED  BY <2>1, <3>1 DEF Advertised
  <2> HIDE DEF best
  <2>4. /\ DOMAIN x = DOMAIN w /\ DOMAIN x.client = DOMAIN w.client
        /\ x.client.timer = w.client.timer
        /\ x.client.active = w.client.active /\ x.client.selected = best
        /\ x.client.advertised = A \ {best} /\ x.client.state = "SELECTING"
        /\ x.conf = w.conf /\ x.file = w.file /\ x.grant = w.grant /\ x.net = w.net
    BY Zenon, <2>1 DEF Shape
  <2>5. start_selecting6(w) = SendRequest6(r)
    BY <1>2 DEF start_selecting6, A, best
  <2> HIDE DEF x
  <2>6. Shape(x) /\ SameTimer(x, w)
    BY <2>1, <2>4 DEF Shape, SameTimer
  <2>7. Running(x)
    BY <2>2, <2>3, <2>4, <2>6, Reoffered
  <2>8. Same(r, x) /\ SameTimer(r, x) /\ r.client.state = "SELECTING"
    BY <2>4, <2>6, RetransInit
  <2> HIDE DEF r
  <2>9. Running(r)
    BY <2>7, <2>8, RunningSame
  <2>10. r.client.selected # None
    BY <2>2, <2>4, <2>8 DEF Same, Settings
  <2> QED  BY <2>5, <2>9, <2>10, RequestRuns
<1> QED  BY <1>1, <1>2

-----------------------------------------------------------------------------
(***************************************************************************)
(* The times of the lease: dhc6_check_times() sets do_expire() for the     *)
(* first address to end.                                                   *)
(***************************************************************************)
FirstEnd(w) == Min({a.valid : a \in Live(w.client.active.addrs)})

LEMMA FirstEndIs ==
    ASSUME NEW w, Sound(w), w.client.active # None, Live(w.client.active.addrs) # {}
    PROVE  /\ FirstEnd(w) \in Int
           /\ \A a \in Live(w.client.active.addrs) : FirstEnd(w) <= a.valid
<1> DEFINE A == w.client.active.addrs
           L == Live(A)
           h == [a \in L |-> a.valid]
           V == {a.valid : a \in L}
<1>1. A \in SUBSET Addresses /\ IsFiniteSet(A)
  BY DEF Sound, Held, Leases
<1>2. L \in SUBSET A
  BY DEF Live
<1> HIDE DEF A, L
<1>3. IsFiniteSet(L) /\ L \in SUBSET Addresses
  BY <1>1, <1>2, FS_Subset
<1>4. V \in SUBSET Int /\ V # {}
  BY <1>3 DEF Addresses, L, A
<1>5. V = {h[a] : a \in L} /\ L \subseteq DOMAIN h
  OBVIOUS
<1>6. \A a \in L : a.valid \in V
  OBVIOUS
<1> HIDE DEF V, h
<1>7. IsFiniteSet(V)
  BY <1>3, <1>5, ImageFinite
<1>8. Min(V) \in V /\ \A y \in V : Min(V) <= y
  BY <1>4, <1>7, MinIs
<1>9. FirstEnd(w) = Min(V)
  BY DEF FirstEnd, V, L, A
<1> QED  BY Zenon, <1>4, <1>6, <1>8, <1>9 DEF L, A

LEMMA EventsRun ==
    ASSUME NEW w, Sound(w), Quiet(w), Covered(w), w.client.active # None,
           Live(w.client.active.addrs) # {}, NEW y, Same(y, w),
           y.client.state = w.client.state, Alive(w)
    PROVE  Running(add_timeout(y, "do_expire", FirstEnd(w)))
<1> DEFINE e == add_timeout(y, "do_expire", FirstEnd(w))
<1>1. FirstEnd(w) \in Int /\ \A a \in Live(w.client.active.addrs) : FirstEnd(w) <= a.valid
  BY FirstEndIs
<1>2. Shape(y) /\ "do_expire" \in Timeouts
  BY DEF Same, Timeouts
<1>3. /\ Same(e, y) /\ e.client.state = y.client.state
      /\ e.client.timer["do_expire"] = FirstEnd(w)
  BY <1>1, <1>2, AddTimeout
<1> HIDE DEF e
<1>4. Same(e, w)
  BY <1>3, SameTrans
<1>5. Sound(e) /\ Covered(e)
  BY <1>4, SameKeeps
<1>6. Timed(e)
  BY <1>1, <1>3, <1>4 DEF Timed, Same
<1>7. Alive(e) /\ Quiet(e)
  BY <1>3, <1>4 DEF Alive, Quiet, Same
<1> QED  BY <1>5, <1>6, <1>7 DEF Running, e

LEMMA CheckTimesGood ==
    ASSUME NEW w, Sound(w), Alive(w), Quiet(w), Covered(w), w.client.active # None
    PROVE  AllGood(dhc6_check_times(w))
<1> DEFINE v == cancel_timeout(w, {"start_renew6", "start_rebind6", "do_depref", "do_expire"})
           A == w.client.active.addrs
           depref == {a.pref : a \in {b \in A : ~b.depreffed}}
           Events(u) == add_timeout(IF depref = {} THEN u
                                    ELSE add_timeout(u, "do_depref", Min(depref)),
                                    "do_expire", FirstEnd(w))
<1>1. Shape(w)
  BY DEF Sound
<1>2. Same(v, w) /\ v.client.state = w.client.state
  BY <1>1, CancelTimeout
<1>3. Sound(v) /\ Covered(v)
  BY <1>2, SameKeeps
<1> HIDE DEF v
<1>4. ASSUME NEW u, Same(u, v), u.client.state = v.client.state, Live(A) # {}
      PROVE  Running(Events(u))
  <2> DEFINE y == IF depref = {} THEN u ELSE add_timeout(u, "do_depref", Min(depref))
  <2>1. Same(u, w) /\ Shape(u)
    <3>1. Same(u, w)
      BY <1>2, <1>4, SameTrans
    <3> QED  BY <3>1 DEF Same
  <2>2. "do_depref" \in Timeouts
    BY DEF Timeouts
  <2> HIDE DEF depref
  <2>3. Same(y, w) /\ y.client.state = w.client.state
    <3>1. CASE depref = {}
      BY <1>2, <1>4, <2>1, <3>1
    <3>2. CASE depref # {}
      <4>1. /\ Same(add_timeout(u, "do_depref", Min(depref)), u)
            /\ add_timeout(u, "do_depref", Min(depref)).client.state = u.client.state
        BY <2>1, <2>2, AddTimeout
      <4>2. Same(add_timeout(u, "do_depref", Min(depref)), w)
        BY <2>1, <4>1, SameTrans
      <4> QED  BY <1>2, <1>4, <3>2, <4>1, <4>2
    <3> QED  BY <3>1, <3>2
  <2> HIDE DEF y
  <2>4. Running(add_timeout(y, "do_expire", FirstEnd(w)))
    BY <1>4, <2>3, EventsRun
  <2> QED  BY <2>4 DEF y
<1> DEFINE renew == T1 - w.client.active.age
           rebind == T2 - w.client.active.age
           hi == Max({a.valid : a \in Live(A)})
           u1 == add_timeout([v EXCEPT !.client.next_MRD = rebind], "start_renew6", renew)
           u2 == add_timeout([v EXCEPT !.client.mrd = rebind, !.client.next_MRD = hi],
                             "start_rebind6", rebind)
           u3 == [v EXCEPT !.client.mrd = hi]
<1>5. dhc6_check_times(w) =
         IF Live(A) = {} THEN {start_init6([v EXCEPT !.client.active = None])}
         ELSE IF w.client.state = "BOUND" /\ rebind > 0 THEN {Events(u1)}
         ELSE IF w.client.state \in {"BOUND", "RENEWING"} THEN {Events(u2)}
         ELSE IF w.client.state = "REBINDING" THEN {Events(u3)}
         ELSE IF \E a \in Live(A) : ~a.depreffed THEN Fatal(v)
         ELSE {Events(v)}
  BY DEF dhc6_check_times, FirstEnd, v
<1> HIDE DEF renew, rebind, hi
<1>6. Shape(v) /\ Same(v, v)
  BY <1>2 DEF Same
<1>7. "start_renew6" \in Timeouts /\ "start_rebind6" \in Timeouts
  BY DEF Timeouts
<1>8. Same(u1, v) /\ u1.client.state = v.client.state
  <2> DEFINE x == [v EXCEPT !.client.next_MRD = rebind]
  <2>1. Same(x, v) /\ x.client.state = v.client.state /\ Shape(x)
    BY <1>6 DEF Same, Shape
  <2> HIDE DEF x
  <2>2. /\ Same(add_timeout(x, "start_renew6", renew), x)
        /\ add_timeout(x, "start_renew6", renew).client.state = x.client.state
    BY <1>7, <2>1, AddTimeout
  <2>3. Same(add_timeout(x, "start_renew6", renew), v)
    BY <2>1, <2>2, SameTrans
  <2> QED  BY <2>1, <2>2, <2>3 DEF x
<1>9. Same(u2, v) /\ u2.client.state = v.client.state
  <2> DEFINE x == [v EXCEPT !.client.mrd = rebind, !.client.next_MRD = hi]
  <2>1. Same(x, v) /\ x.client.state = v.client.state /\ Shape(x)
    BY Zenon, <1>6 DEF Same, Shape
  <2> HIDE DEF x
  <2>2. /\ Same(add_timeout(x, "start_rebind6", rebind), x)
        /\ add_timeout(x, "start_rebind6", rebind).client.state = x.client.state
    BY <1>7, <2>1, AddTimeout
  <2>3. Same(add_timeout(x, "start_rebind6", rebind), v)
    BY <2>1, <2>2, SameTrans
  <2> QED  BY <2>1, <2>2, <2>3 DEF x
<1>10. Same(u3, v) /\ u3.client.state = v.client.state
  BY <1>6 DEF Same, Shape
<1> HIDE DEF u1, u2, u3, Events
<1>11. CASE Live(A) = {}
  <2> DEFINE d == [v EXCEPT !.client.active = None]
  <2>1. v.conf = {}
    BY <1>2, <1>3, <1>11 DEF Covered, Same, Names
  <2>2. Sound(d) /\ Covered(d) /\ Timed(d)
    BY <1>3, <2>1, Dropped
  <2> HIDE DEF d
  <2>3. Running(start_init6(d))
    BY <2>2, StartInit
  <2>4. dhc6_check_times(w) = {start_init6(d)}
    BY <1>5, <1>11 DEF d
  <2> QED  BY <2>3, <2>4 DEF AllGood, Good
<1>12. CASE Live(A) # {}
  <2>1. Running(Events(u1)) /\ Running(Events(u2)) /\ Running(Events(u3)) /\ Running(Events(v))
    BY <1>4, <1>6, <1>8, <1>9, <1>10, <1>12
  <2>2. AllGood(Fatal(v))
    BY <1>3, FatalIs
  <2> QED  BY <1>5, <1>12, <2>1, <2>2 DEF AllGood, Good
<1> QED  BY <1>11, <1>12

-----------------------------------------------------------------------------
(***************************************************************************)
(* The addresses of the active lease change.                               *)
(***************************************************************************)
Bounded(B, g) ==
    /\ B \in SUBSET Addresses /\ IsFiniteSet(B)
    /\ \A a \in B : a.valid <= Valid[a.kind] /\ a.valid <= g[a.kind][a.srv] + MaxDelay

LEMMA Readdressed ==
    ASSUME Settings, NEW w, Sound(w), w.client.active # None, NEW B, Bounded(B, w.grant)
    PROVE  LET u == [w EXCEPT !.client.active.addrs = B]
           IN  /\ Sound(u) /\ u.client.active # None /\ u.client.active.addrs = B
               /\ u.client.state = w.client.state /\ u.conf = w.conf
<1> DEFINE u == [w EXCEPT !.client.active.addrs = B]
           l == [w.client.active EXCEPT !.addrs = B]
<1>1. Shape(w) /\ w.client.active \in Leases
  BY DEF Sound, Held
<1>2. l \in Leases /\ l.addrs = B
  BY <1>1 DEF Leases, Bounded
<1>3. u = [w EXCEPT !.client.active = l]
  BY <1>1 DEF Shape
<1> HIDE DEF l, u
<1>4. /\ DOMAIN u = DOMAIN w /\ DOMAIN u.client = DOMAIN w.client
      /\ u.client.timer = w.client.timer
      /\ u.client.active = l /\ u.client.selected = w.client.selected
      /\ u.client.advertised = w.client.advertised /\ u.client.state = w.client.state
      /\ u.conf = w.conf /\ u.file = w.file /\ u.grant = w.grant /\ u.net = w.net
  BY <1>1, <1>3 DEF Shape
<1>5. Held(l, u.grant)
  BY <1>2, <1>4 DEF Held, Bounded
<1>6. l # None
  BY <1>2 DEF Settings
<1>7. Sound(u)
  BY <1>4, <1>5 DEF Sound, Shape
<1> QED  BY <1>2, <1>4, <1>6, <1>7 DEF u

(* Addresses that keep kind, server and at most their time are bounded.    *)
LEMMA StillBounded ==
    ASSUME Settings, NEW w, Sound(w), w.client.active # None,
           NEW h \in [w.client.active.addrs -> Addresses],
           \A a \in w.client.active.addrs :
              /\ h[a].kind = a.kind /\ h[a].srv = a.srv
              /\ h[a].valid = a.valid \/ h[a].valid = 0
    PROVE  Bounded({h[a] : a \in w.client.active.addrs}, w.grant)
<1> DEFINE A == w.client.active.addrs
           B == {h[a] : a \in A}
<1>1. /\ A \in SUBSET Addresses /\ IsFiniteSet(A)
      /\ \A a \in A : a.valid <= Valid[a.kind] /\ a.valid <= w.grant[a.kind][a.srv] + MaxDelay
  BY DEF Sound, Held, Leases
<1>2. B \in SUBSET Addresses /\ A \subseteq DOMAIN h
  OBVIOUS
<1> HIDE DEF A
<1>3. IsFiniteSet(B)
  BY <1>1, <1>2, ImageFinite
<1>4. ASSUME NEW b \in B
      PROVE  b.valid <= Valid[b.kind] /\ b.valid <= w.grant[b.kind][b.srv] + MaxDelay
  <2>1. PICK a \in A : b = h[a]
    OBVIOUS
  <2>2. a.kind \in Wanted /\ a.srv \in Servers
    BY <1>1 DEF Addresses
  <2>3. /\ Valid[a.kind] \in Nat /\ MaxDelay \in Nat
        /\ w.grant[a.kind][a.srv] \in Int /\ -MaxDelay <= w.grant[a.kind][a.srv]
    <3>1. Granted(w.grant)
      BY DEF Sound
    <3>2. w.grant[a.kind][a.srv] \in Int /\ -MaxDelay <= w.grant[a.kind][a.srv]
      BY <2>2, <3>1 DEF Granted
    <3>3. Valid[a.kind] \in Nat /\ MaxDelay \in Nat
      BY <2>2 DEF Settings
    <3> QED  BY <3>2, <3>3
  <2>4. b.kind = a.kind /\ b.srv = a.srv /\ (b.valid = a.valid \/ b.valid = 0)
    BY <2>1 DEF A
  <2> QED  BY <1>1, <2>1, <2>3, <2>4
<1> QED  BY <1>2, <1>3, <1>4 DEF Bounded, A

LEMMA DeprefGood ==
    ASSUME Settings, NEW w, Running(w)
    PROVE  AllGood(do_depref(w))
<1>1. CASE w.client.active = None
  BY <1>1 DEF do_depref, AllGood, Good
<1>2. CASE w.client.active # None
  <2> DEFINE A == w.client.active.addrs
             h == [a \in A |-> [a EXCEPT !.depreffed = @ \/ a.pref <= 0]]
             B == {h[a] : a \in A}
             u == [w EXCEPT !.client.active.addrs = B]
  <2>1. Sound(w) /\ A \in SUBSET Addresses
    BY <1>2 DEF Running, Sound, Held, Leases
  <2> HIDE DEF A
  <2>2. \A a \in A : /\ h[a] \in Addresses
                     /\ h[a].kind = a.kind /\ h[a].srv = a.srv /\ h[a].valid = a.valid
                     /\ h[a].expired = a.expired
    BY Zenon, <2>1 DEF Addresses
  <2>3. B = {[a EXCEPT !.depreffed = @ \/ a.pref <= 0] : a \in A} /\ h \in [A -> Addresses]
    BY <2>2
  <2> HIDE DEF h
  <2>4. Bounded(B, w.grant)
    BY Zenon, <1>2, <2>1, <2>2, <2>3, StillBounded DEF A
  <2>5. Names(Live(A)) \subseteq Names(Live(B))
    BY <2>2 DEF Names, Live
  <2>6. do_depref(w) = dhc6_check_times(u)
    BY Zenon, <1>2, <2>3 DEF do_depref, A
  <2> HIDE DEF B
  <2>7. /\ Sound(u) /\ u.client.active # None /\ u.client.active.addrs = B
        /\ u.client.state = w.client.state /\ u.conf = w.conf
    BY <1>2, <2>1, <2>4, Readdressed
  <2> HIDE DEF u
  <2>8. Covered(u) /\ Alive(u) /\ Quiet(u)
    BY <1>2, <2>5, <2>7 DEF Running, Covered, Alive, Quiet, A
  <2> QED  BY <2>6, <2>7, <2>8, CheckTimesGood
<1> QED  BY <1>1, <1>2

(* do_expire() takes what has run out from the interface.  It is called    *)
(* with its own timeout gone.                                              *)
LEMMA ExpireGood ==
    ASSUME Settings, NEW w, Sound(w), Alive(w), Quiet(w), Covered(w)
    PROVE  AllGood(do_expire(w))
<1>1. CASE w.client.active = None
  <2>1. do_expire(w) = {w} /\ Timed(w)
    BY <1>1 DEF do_expire, Timed
  <2> QED  BY <2>1 DEF AllGood, Good, Running
<1>2. CASE w.client.active # None
  <2> DEFINE A == w.client.active.addrs
             h == [a \in A |-> [a EXCEPT !.expired = @ \/ a.valid <= 0]]
             marked == {h[a] : a \in A}
             kept == {a \in marked : a.kind \in Kinds(Live(marked))}
             v == Removed(w, marked \ Live(marked))
             u == [v EXCEPT !.client.active.addrs = kept]
             n == [v EXCEPT !.client.active = None]
  <2>1. Sound(w) /\ A \in SUBSET Addresses
    BY <1>2 DEF Sound, Held, Leases
  <2>a. A = w.client.active.addrs
    OBVIOUS
  <2> HIDE DEF A
  <2>2. \A a \in A : /\ h[a] \in Addresses
                     /\ h[a].kind = a.kind /\ h[a].srv = a.srv /\ h[a].valid = a.valid
    BY Zenon, <2>1 DEF Addresses
  <2>3. marked = {[a EXCEPT !.expired = @ \/ a.valid <= 0] : a \in A} /\ h \in [A -> Addresses]
    BY Zenon, <2>2
  <2>4. do_expire(w) = IF kept = {} THEN {start_init6(n)} ELSE dhc6_check_times(u)
    BY Zenon, <1>2, <2>3, <2>a DEF do_expire
  <2> HIDE DEF h
  <2>5. Bounded(marked, w.grant)
    BY Zenon, <1>2, <2>1, <2>2, <2>3, <2>a, StillBounded
  <2>6. \A x \in Names(Live(A)) : x \in Names(marked)
    BY <2>2 DEF Names, Live
  <2> HIDE DEF marked
  <2>7. \A x \in Names(marked) : x \in Names(marked \ Live(marked)) \/ x \in Names(Live(kept))
    BY DEF Names, Live, Kinds
  <2>8. kept \in SUBSET marked
    OBVIOUS
  <2> HIDE DEF kept
  <2>9. Bounded(kept, w.grant)
    <3>1. IsFiniteSet(kept)
      BY <2>5, <2>8, FS_Subset DEF Bounded
    <3> QED  BY <2>5, <2>8, <3>1 DEF Bounded
  <2>10. Shape(w)
    BY <2>1 DEF Sound
  <2>11. /\ DOMAIN v = DOMAIN w /\ v.client = w.client /\ v.net = w.net /\ v.file = w.file
         /\ v.grant = w.grant /\ v.conf = w.conf \ Names(marked \ Live(marked))
    BY <2>10 DEF Removed, Shape
  <2> HIDE DEF v
  <2>12. Sound(v)
    BY <2>1, <2>11 DEF Sound, Shape
  <2>13. \A x \in v.conf : x \in Names(Live(kept))
    BY <1>2, <2>6, <2>7, <2>11, <2>a DEF Covered
  <2>14. CASE kept = {}
    <3>1. v.conf = {}
      BY <2>13, <2>14 DEF Names, Live
    <3>2. AllGood({start_init6(n)})
      <4>1. Shape(v) /\ v.client.active # None
        BY <1>2, <2>11, <2>12 DEF Sound
      <4>2. /\ DOMAIN n = DOMAIN v /\ DOMAIN n.client = DOMAIN v.client
            /\ n.client.timer = v.client.timer
            /\ n.client.active = None /\ n.client.selected = v.client.selected
            /\ n.client.advertised = v.client.advertised /\ n.client.state = v.client.state
            /\ n.conf = v.conf /\ n.file = v.file /\ n.grant = v.grant /\ n.net = v.net
        BY <4>1 DEF Shape
      <4> HIDE DEF n
      <4>3. Sound(n)
        BY Zenon, <2>12, <4>2 DEF Sound, Shape, Held
      <4>4. Covered(n) /\ Timed(n)
        BY <3>1, <4>2 DEF Covered, Timed
      <4> QED  BY <4>3, <4>4, StartInit DEF AllGood, Good, Running
    <3> QED  BY <2>4, <2>14, <3>2
  <2>15. CASE kept # {}
    <3>1. /\ Sound(u) /\ u.client.active # None /\ u.client.active.addrs = kept
          /\ u.client.state = v.client.state /\ u.conf = v.conf
      BY Zenon, <1>2, <2>9, <2>11, <2>12, Readdressed
    <3> HIDE DEF u
    <3>2. Covered(u) /\ Alive(u) /\ Quiet(u)
      BY <2>11, <2>13, <3>1 DEF Covered, Alive, Quiet
    <3> QED  BY <2>4, <2>15, <3>1, <3>2, CheckTimesGood
  <2> QED  BY <2>14, <2>15
<1> QED  BY <1>1, <1>2

LEMMA WithdrawGood ==
    ASSUME Settings, NEW w, Running(w)
    PROVE  AllGood(dhc6_withdraw_lease(w))
<1>1. CASE w.client.active = None
  BY <1>1 DEF dhc6_withdraw_lease, AllGood, Good
<1>2. CASE w.client.active # None
  <2> DEFINE A == w.client.active.addrs
             h == [a \in A |-> [a EXCEPT !.pref = 0, !.valid = 0]]
             B == {h[a] : a \in A}
             u == [w EXCEPT !.client.active.addrs = B]
  <2>1. Sound(w) /\ A \in SUBSET Addresses
    BY <1>2 DEF Running, Sound, Held, Leases
  <2>a. A = w.client.active.addrs
    OBVIOUS
  <2> HIDE DEF A
  <2>2. \A a \in A : /\ h[a] \in Addresses
                     /\ h[a].kind = a.kind /\ h[a].srv = a.srv /\ h[a].valid = 0
                     /\ h[a].expired = a.expired
    <3> TAKE a \in A
    <3> DEFINE p == [a EXCEPT !.pref = 0]
    <3>1. a \in Addresses /\ h[a] = [p EXCEPT !.valid = 0]
      BY <2>1
    <3>2. /\ p \in Addresses /\ p.kind = a.kind /\ p.srv = a.srv
          /\ p.expired = a.expired
      BY <3>1 DEF Addresses
    <3> HIDE DEF p, h
    <3> QED  BY <3>1, <3>2 DEF Addresses
  <2>3. B = {[a EXCEPT !.pref = 0, !.valid = 0] : a \in A} /\ h \in [A -> Addresses]
    BY Zenon, <2>2
  <2> HIDE DEF h
  <2>4. Bounded(B, w.grant)
    BY Zenon, <1>2, <2>1, <2>2, <2>3, <2>a, StillBounded
  <2>5. Names(Live(A)) \subseteq Names(Live(B))
    BY <2>2 DEF Names, Live
  <2>6. dhc6_withdraw_lease(w) = do_expire(u)
    BY Zenon, <1>2, <2>3, <2>a DEF dhc6_withdraw_lease
  <2> HIDE DEF B
  <2>7. /\ Sound(u) /\ u.client.active # None /\ u.client.active.addrs = B
        /\ u.client.state = w.client.state /\ u.conf = w.conf
    BY <1>2, <2>1, <2>4, Readdressed
  <2> HIDE DEF u
  <2>8. Covered(u) /\ Alive(u) /\ Quiet(u)
    BY <1>2, <2>5, <2>7, <2>a DEF Running, Covered, Alive, Quiet
  <2> QED  BY <2>6, <2>7, <2>8, ExpireGood
<1> QED  BY <1>1, <1>2

(* start_bound() writes the lease before the script configures it.         *)
LEMMA BoundGood ==
    ASSUME NEW w, Sound(w), Alive(w), Quiet(w), Covered(w)
    PROVE  AllGood(start_bound(w))
<1>1. CASE w.client.active = None
  <2>1. start_bound(w) = {w} /\ Timed(w)
    BY <1>1 DEF start_bound, Timed
  <2> QED  BY <2>1 DEF AllGood, Good, Running
<1>2. CASE /\ w.client.active # None
           /\ w.client.state \notin {"SELECTING", "REBOOTING", "RENEWING", "REBINDING"}
  <2>1. start_bound(w) = Fatal(w)
    BY <1>2 DEF start_bound
  <2> QED  BY <2>1, FatalIs
<1>3. CASE /\ w.client.active # None
           /\ w.client.state \in {"SELECTING", "REBOOTING", "RENEWING", "REBINDING"}
  <2> DEFINE v == [w EXCEPT !.client.state = "BOUND", !.client.handler = "bound_handler"]
             L == Live(v.client.active.addrs)
             x == Configured(write_client6_lease(v, FALSE), L)
  <2>1. Shape(w)
    BY DEF Sound
  <2>2. /\ DOMAIN v = DOMAIN w /\ DOMAIN v.client = DOMAIN w.client
        /\ v.client.timer = w.client.timer
        /\ v.client.active = w.client.active /\ v.client.selected = w.client.selected
        /\ v.client.advertised = w.client.advertised /\ v.client.state = "BOUND"
        /\ v.conf = w.conf /\ v.file = w.file /\ v.grant = w.grant /\ v.net = w.net
    BY Zenon, <2>1 DEF Shape
  <2>3. start_bound(w) = dhc6_check_times(x)
    BY Zenon, <1>3 DEF start_bound
  <2> HIDE DEF v
  <2>4. L = Live(w.client.active.addrs)
    BY <2>2
  <2> HIDE DEF L
  <2>5. /\ DOMAIN x = DOMAIN v /\ x.client = v.client /\ x.grant = v.grant /\ x.net = v.net
        /\ x.conf = v.conf \cup Names(L)
        /\ x.file = [lease |-> v.client.active, released |-> FALSE]
    BY <2>1, <2>2 DEF Configured, write_client6_lease, Shape
  <2> HIDE DEF x
  <2>6. x.file.lease = w.client.active /\ DOMAIN x.file = {"lease", "released"}
    BY <2>2, <2>5
  <2>7. /\ x.conf \subseteq Names(L)
        /\ Names(L) \subseteq NamesOf(x.file.lease)
    <3>1. w.conf \subseteq Names(L)
      BY <1>3, <2>4 DEF Covered
    <3>2. Names(L) \subseteq Names(w.client.active.addrs)
      BY <2>4 DEF Names, Live
    <3> QED  BY <1>3, <2>2, <2>5, <2>6, <3>1, <3>2 DEF NamesOf
  <2>8. Shape(x)
    BY <2>1, <2>2, <2>5, <2>6 DEF Shape
  <2>9. Sound(x)
    BY Zenon, <2>2, <2>5, <2>6, <2>7, <2>8 DEF Sound
  <2>10. Alive(x) /\ Quiet(x) /\ Covered(x) /\ x.client.active # None
    BY <1>3, <2>2, <2>4, <2>5, <2>7 DEF Alive, Quiet, Covered
  <2> QED  BY <2>3, <2>9, <2>10, CheckTimesGood
<1> QED  BY <1>1, <1>2, <1>3

(* A reply that grants no more than its server believes.                   *)
Honest(m, g) ==
    /\ m \in Replied
    /\ m.type # "ADVERTISE" => \A k \in m.kinds : Valid[k] <= g[k][m.srv] + m.age

LEMMA LeaseHeld ==
    ASSUME Settings, NEW g, Granted(g), NEW m, Honest(m, g), m.type # "ADVERTISE"
    PROVE  /\ Held(Lease(m.srv, m.kinds), g) /\ Lease(m.srv, m.kinds) \in Leases
           /\ Live(Lease(m.srv, m.kinds).addrs) = Lease(m.srv, m.kinds).addrs
<1> DEFINE h == [k \in Wanted |-> Address(k, m.srv)]
           N == {h[k] : k \in m.kinds}
           l == Lease(m.srv, m.kinds)
<1>1. m.srv \in Servers /\ m.kinds \in SUBSET Wanted /\ m.age \in 0 .. MaxDelay
  BY DEF Honest, Replied
<1>2. \A k \in Wanted : /\ h[k] \in Addresses /\ h[k].kind = k /\ h[k].srv = m.srv
                        /\ h[k].valid = Valid[k] /\ h[k].expired = FALSE
  BY <1>1 DEF Address, Addresses, Settings
<1>3. l = [srv |-> m.srv, addrs |-> N, age |-> 0]
  BY Zenon, <1>1 DEF Lease
<1>4. IsFiniteSet(m.kinds) /\ m.kinds \subseteq DOMAIN h
  BY <1>1, FS_Subset DEF Settings
<1> HIDE DEF h
<1>5. IsFiniteSet(N)
  BY <1>4, ImageFinite
<1>6. ASSUME NEW a \in N
      PROVE  /\ a \in Addresses /\ a.expired = FALSE
             /\ a.valid <= Valid[a.kind] /\ a.valid <= g[a.kind][a.srv] + MaxDelay
  <2>1. PICK k \in m.kinds : a = h[k]
    OBVIOUS
  <2>2. /\ g[k][m.srv] \in Int /\ Valid[k] \in Nat /\ MaxDelay \in Nat
        /\ Valid[k] <= g[k][m.srv] + m.age
    <3>1. k \in Wanted
      BY <1>1
    <3>2. g[k][m.srv] \in Int
      BY <1>1, <3>1 DEF Granted
    <3>3. Valid[k] \in Nat /\ MaxDelay \in Nat
      BY <3>1 DEF Settings
    <3> QED  BY <3>2, <3>3 DEF Honest
  <2> QED  BY <1>1, <1>2, <2>1, <2>2
<1> HIDE DEF N, l
<1>7. l \in Leases
  BY Zenon, <1>1, <1>3, <1>6 DEF Leases
<1>8. l.addrs = N
  BY <1>3
<1>9. Held(l, g)
  BY Zenon, <1>5, <1>6, <1>7, <1>8 DEF Held
<1>10. Live(N) = N
  BY Zenon, <1>6 DEF Live
<1> QED  BY <1>7, <1>8, <1>9, <1>10 DEF l

(* The lease of a reply and what dhc6_merge_lease() keeps of the old one.  *)
LEMMA MergedHeld ==
    ASSUME Settings, NEW g, Granted(g), NEW m, Honest(m, g), m.type # "ADVERTISE",
           NEW old, Held(old, g)
    PROVE  LET l == dhc6_merge_lease(old, Lease(m.srv, m.kinds))
           IN  /\ Held(l, g) /\ l # None
               /\ old # None => Names(Live(old.addrs)) \subseteq Names(Live(l.addrs))
<1> DEFINE dst == Lease(m.srv, m.kinds)
           l == dhc6_merge_lease(old, dst)
<1>1. Held(dst, g) /\ dst \in Leases /\ Live(dst.addrs) = dst.addrs
  BY LeaseHeld
<1>2. dst # None
  BY <1>1 DEF Settings
<1> HIDE DEF dst
<1>3. CASE old = None
  <2>1. l = dst
    BY <1>3 DEF dhc6_merge_lease
  <2> QED  BY <1>1, <1>2, <1>3, <2>1 DEF dst
<1>4. CASE old # None
  <2> DEFINE D == dst.addrs
             O == {a \in old.addrs : \A b \in D : b.kind # a.kind \/ b.srv # a.srv}
  <2>1. l = [dst EXCEPT !.addrs = D \cup O]
    BY <1>4 DEF dhc6_merge_lease
  <2>2. /\ old \in Leases /\ IsFiniteSet(old.addrs) /\ O \in SUBSET old.addrs
        /\ dst \in Leases /\ IsFiniteSet(D)
    BY <1>1, <1>2, <1>4 DEF Held
  <2>3. IsFiniteSet(D \cup O)
    BY Zenon, <2>2, FS_Subset, FS_Union
  <2>4. l \in Leases /\ l.addrs = D \cup O
    BY <2>1, <2>2 DEF Leases
  <2>5. \A a \in D \cup O : a.valid <= Valid[a.kind] /\ a.valid <= g[a.kind][a.srv] + MaxDelay
    BY <1>1, <1>2, <1>4 DEF Held
  <2>6. \A x \in Live(old.addrs) : \E y \in Live(D \cup O) : y.kind = x.kind /\ y.srv = x.srv
    <3> TAKE x \in Live(old.addrs)
    <3>1. x \in old.addrs /\ ~ x.expired
      BY DEF Live
    <3>2. CASE \A b \in D : b.kind # x.kind \/ b.srv # x.srv
      BY <3>1, <3>2 DEF Live
    <3>3. CASE \E b \in D : b.kind = x.kind /\ b.srv = x.srv
      BY <1>1, <3>3 DEF Live
    <3> QED  BY <3>2, <3>3
  <2> HIDE DEF D, O, l
  <2>7. Held(l, g)
    BY <2>3, <2>4, <2>5 DEF Held
  <2>8. l # None
    BY <2>4 DEF Settings
  <2>9. Names(Live(old.addrs)) \subseteq Names(Live(l.addrs))
    BY <2>4, <2>6 DEF Names
  <2> QED  BY <2>7, <2>8, <2>9 DEF l, dst
<1> QED  BY <1>3, <1>4

LEMMA TakeGood ==
    ASSUME Settings, NEW w, Sound(w), Alive(w), Quiet(w), Covered(w),
           NEW m, Honest(m, w.grant), m.type # "ADVERTISE"
    PROVE  AllGood(Take(w, m))
<1> DEFINE old == w.client.active
           l == dhc6_merge_lease(old, Lease(m.srv, m.kinds))
           u == [w EXCEPT !.client.active = l, !.client.advertised = {}]
<1>1. Shape(w) /\ Granted(w.grant) /\ Held(old, w.grant)
  BY DEF Sound
<1>2. /\ Held(l, w.grant) /\ l # None
      /\ old # None => Names(Live(old.addrs)) \subseteq Names(Live(l.addrs))
  <2> HIDE DEF old
  <2> QED  BY <1>1, MergedHeld
<1>3. Take(w, m) = start_bound(u)
  BY DEF Take
<1> HIDE DEF l
<1>4. /\ DOMAIN u = DOMAIN w /\ DOMAIN u.client = DOMAIN w.client
      /\ u.client.timer = w.client.timer
      /\ u.client.active = l /\ u.client.selected = w.client.selected
      /\ u.client.advertised = {} /\ u.client.state = w.client.state
      /\ u.conf = w.conf /\ u.file = w.file /\ u.grant = w.grant /\ u.net = w.net
  BY Zenon, <1>1 DEF Shape
<1> HIDE DEF u
<1>5. Sound(u)
  <2>1. Advertised({})
    BY FS_EmptySet DEF Advertised
  <2> QED  BY Zenon, <1>2, <1>4, <2>1 DEF Sound, Shape
<1>6. Covered(u)
  BY <1>2, <1>4 DEF Covered
<1>7. Alive(u) /\ Quiet(u)
  BY <1>4 DEF Alive, Quiet
<1> QED  BY <1>3, <1>5, <1>6, <1>7, BoundGood

-----------------------------------------------------------------------------
(***************************************************************************)
(* Renewing, rebinding, confirming and releasing.                          *)
(***************************************************************************)
LEMMA RefreshGood ==
    ASSUME Settings, NEW w, Running(w)
    PROVE  AllGood(do_refresh6(w))
<1>1. CASE w.client.active = None
  BY <1>1 DEF do_refresh6, AllGood, Good
<1>2. CASE w.client.active # None /\ Exceeded(w.client)
  <2>1. do_refresh6(w) = dhc6_check_times(w)
    BY <1>2 DEF do_refresh6
  <2> QED  BY <1>2, <2>1, CheckTimesGood DEF Running
<1>3. CASE w.client.active # None /\ ~ Exceeded(w.client)
  <2> DEFINE to == IF w.client.refresh = "RENEW" THEN {w.client.active.srv} ELSE Servers
  <2>1. do_refresh6(w) = Transmit(w, "do_refresh6", "REPLY", to)
    BY <1>3 DEF do_refresh6
  <2>2. to \in SUBSET Servers
    BY Zenon, <1>3 DEF Running, Sound, Held, Leases
  <2>3. "do_refresh6" \in Timeouts \ {"do_expire"}
    BY DEF Timeouts
  <2> HIDE DEF to
  <2> QED  BY <2>1, <2>2, <2>3, TransmitRuns
<1> QED  BY <1>1, <1>2, <1>3

(* Another exchange starts in another state.                               *)
LEMMA Restated ==
    ASSUME NEW w, Sound(w), NEW s, NEW r
    PROVE  LET u == [w EXCEPT !.client.state = s, !.client.refresh = r]
               v == [w EXCEPT !.client.state = s]
           IN  /\ Same(u, w) /\ SameTimer(u, w) /\ u.client.state = s
               /\ Same(v, w) /\ SameTimer(v, w) /\ v.client.state = s
<1>1. Shape(w)
  BY DEF Sound
<1> QED  BY Zenon, <1>1 DEF Same, SameTimer, Shape

LEMMA RenewGood ==
    ASSUME Settings, NEW w, Running(w)
    PROVE  AllGood(start_renew6(w)) /\ AllGood(start_rebind6(w))
<1>1. ASSUME NEW s \in {"RENEWING", "REBINDING"}, NEW r
      PROVE  AllGood(do_refresh6(dhc6_retrans_init(
                 [w EXCEPT !.client.state = s, !.client.refresh = r],
                 "reply_handler", 0, w.client.next_MRD)))
  <2> DEFINE v == [w EXCEPT !.client.state = s, !.client.refresh = r]
             u == dhc6_retrans_init(v, "reply_handler", 0, w.client.next_MRD)
  <2>1. Same(v, w) /\ SameTimer(v, w) /\ v.client.state = s
    <3>1. Shape(w)
      BY DEF Running, Sound
    <3> QED  BY Zenon, <3>1 DEF Same, SameTimer, Shape
  <2> HIDE DEF v
  <2>2. Running(v) /\ Shape(v)
    <3>1. Running(v)
      BY <2>1, RunningSame
    <3> QED  BY <3>1 DEF Running, Sound
  <2>3. Same(u, v) /\ SameTimer(u, v) /\ u.client.state = s
    BY <2>1, <2>2, RetransInit
  <2> HIDE DEF u
  <2>4. Running(u)
    BY <2>2, <2>3, RunningSame
  <2> QED  BY <2>4, RefreshGood DEF u, v
<1> QED  BY Zenon, <1>1 DEF start_renew6, start_rebind6

LEMMA ConfirmGood ==
    ASSUME Settings, NEW w, Running(w)
    PROVE  AllGood(do_confirm6(w))
<1>0. Sound(w) /\ Alive(w) /\ Quiet(w) /\ Covered(w)
  BY DEF Running
<1>1. CASE w.client.active = None
  <2>1. do_confirm6(w) = Fatal(w)
    BY <1>1 DEF do_confirm6
  <2> QED  BY <1>0, <2>1, FatalIs
<1>2. CASE w.client.active # None /\ Exceeded(w.client)
  <2>1. do_confirm6(w) = start_bound(w)
    BY <1>2 DEF do_confirm6
  <2> QED  BY <1>0, <2>1, BoundGood
<1>3. CASE w.client.active # None /\ ~ Exceeded(w.client)
  <2>1. do_confirm6(w) = Transmit(w, "do_confirm6", "REPLY", Servers)
    BY <1>3 DEF do_confirm6
  <2>2. "do_confirm6" \in Timeouts \ {"do_expire"}
    BY DEF Timeouts
  <2> QED  BY <2>1, <2>2, TransmitRuns
<1> QED  BY <1>1, <1>2, <1>3

LEMMA DoReleaseGood ==
    ASSUME Settings, NEW w, Running(w)
    PROVE  AllGood(do_release6(w))
<1>1. CASE w.client.active = None
  BY <1>1 DEF do_release6, AllGood, Good
<1>2. CASE w.client.active # None /\ Exceeded(w.client)
  <2>1. do_release6(w) = {Finished(w)} /\ Sound(w)
    BY <1>2 DEF do_release6, Running
  <2> QED  BY <2>1, FinishedIs DEF AllGood
<1>3. CASE w.client.active # None /\ ~ Exceeded(w.client)
  <2>1. do_release6(w) = Transmit(w, "do_release6", "REPLY", {w.client.active.srv})
    BY <1>3 DEF do_release6
  <2>2. {w.client.active.srv} \in SUBSET Servers
    BY Zenon, <1>3 DEF Running, Sound, Held, Leases
  <2>3. "do_release6" \in Timeouts \ {"do_expire"}
    BY DEF Timeouts
  <2> QED  BY <2>1, <2>2, <2>3, TransmitRuns
<1> QED  BY <1>1, <1>2, <1>3

(* start_release6() takes the whole lease from the interface: what is      *)
(* configured is in the lease that it has read.                            *)
LEMMA StartReleaseGood ==
    ASSUME Settings, NEW w, Sound(w), w.client.active = w.file.lease
    PROVE  AllGood(start_release6(w))
<1> DEFINE c == cancel_timeout(w, Retransmissions)
           v == [c EXCEPT !.client.state = "STOPPED"]
<1>1. Shape(w) /\ w.conf \subseteq NamesOf(w.file.lease)
  BY DEF Sound
<1>2. Same(c, w) /\ Sound(c)
  BY Zenon, <1>1, CancelTimeout, SameKeeps
<1>3. start_release6(w) =
        IF v.client.active = None THEN {Finished(v)}
        ELSE do_release6(dhc6_retrans_init(
                 write_client6_lease(Removed(v, v.client.active.addrs), TRUE),
                 "reply_handler", REQ_MAX_RC, 0))
  BY DEF start_release6
<1> HIDE DEF c
<1>4. Same(v, c) /\ v.client.state = "STOPPED"
  BY Zenon, <1>2, Restated
<1> HIDE DEF v
<1>5. Same(v, w) /\ Sound(v)
  BY <1>2, <1>4, SameTrans, SameKeeps
<1>6. CASE v.client.active = None
  BY <1>3, <1>5, <1>6, FinishedIs DEF AllGood
<1>7. CASE v.client.active # None
  <2> DEFINE A == v.client.active.addrs
             x == write_client6_lease(Removed(v, A), TRUE)
             u == dhc6_retrans_init(x, "reply_handler", REQ_MAX_RC, 0)
  <2>1. v.conf = w.conf /\ v.client.active = w.file.lease
    BY <1>5 DEF Same
  <2>2. v.conf \subseteq Names(A)
    BY <1>1, <1>7, <2>1 DEF NamesOf
  <2>3. Shape(v)
    BY <1>5 DEF Sound
  <2> HIDE DEF A
  <2>4. /\ DOMAIN x = DOMAIN v /\ x.client = v.client /\ x.grant = v.grant /\ x.net = v.net
        /\ x.conf = v.conf \ Names(A)
        /\ x.file = [lease |-> v.client.active, released |-> TRUE]
    BY <2>3 DEF Removed, write_client6_lease, Shape
  <2> HIDE DEF x
  <2>5. x.conf = {} /\ x.file.lease = v.client.active /\ DOMAIN x.file = {"lease", "released"}
    BY <2>2, <2>4
  <2>6. Shape(x)
    BY <2>3, <2>4, <2>5 DEF Shape
  <2>7. Sound(x)
    BY Zenon, <1>5, <2>4, <2>5, <2>6 DEF Sound
  <2>8. Running(x)
    BY <1>4, <2>4, <2>5, <2>7 DEF Running, Alive, Quiet, Covered, Timed
  <2>9. Same(u, x) /\ SameTimer(u, x) /\ u.client.state = "STOPPED"
    BY <1>4, <2>4, <2>6, RetransInit
  <2>10. start_release6(w) = do_release6(u)
    BY <1>3, <1>7 DEF u, x, A
  <2> HIDE DEF u
  <2>11. Running(u)
    BY <2>8, <2>9, RunningSame
  <2> QED  BY <2>10, <2>11, DoReleaseGood
<1> QED  BY <1>6, <1>7

(* dhclient starts anew: with nothing configured.                          *)
LEMMA StartConfirmGood ==
    ASSUME NEW w, Sound(w), w.conf = {}
    PROVE  Running(start_confirm6(w))
<1> DEFINE v == dhc6_retrans_init(w, "reply_handler", 0, CNF_MAX_RD)
           a == [v EXCEPT !.client.state = "REBINDING", !.client.refresh = "REBIND"]
           b == [v EXCEPT !.client.state = "REBOOTING"]
<1>1. Shape(w)
  BY DEF Sound
<1>2. Same(v, w)
  BY <1>1, RetransInit
<1>3. \/ start_confirm6(w) = add_timeout(a, "do_refresh6", 0)
      \/ start_confirm6(w) = add_timeout(b, "do_confirm6", 0)
  BY DEF start_confirm6
<1> HIDE DEF v
<1>4. Sound(v)
  BY <1>2, SameKeeps
<1>5. /\ Same(a, v) /\ a.client.state = "REBINDING"
      /\ Same(b, v) /\ b.client.state = "REBOOTING"
  <2>1. Shape(v)
    BY <1>4 DEF Sound
  <2> QED  BY Zenon, <2>1 DEF Same, Shape
<1> HIDE DEF a, b
<1>6. Shape(a) /\ Shape(b)
  BY <1>5 DEF Same
<1>7. ASSUME NEW f \in Timeouts \ {"do_expire"}, NEW y, y = a \/ y = b
      PROVE  Running(add_timeout(y, f, 0))
  <2> DEFINE u == add_timeout(y, f, 0)
  <2>1. Same(u, y) /\ u.client.state = y.client.state
    BY <1>6, <1>7, AddTimeout
  <2> HIDE DEF u
  <2>2. Same(u, w) /\ Alive(u)
    BY <1>2, <1>5, <1>7, <2>1, SameTrans DEF Alive
  <2>3. Sound(u) /\ u.conf = {}
    BY Zenon, <2>2, SameKeeps DEF Same
  <2> QED  BY <2>2, <2>3 DEF u, Running, Quiet, Covered, Timed
<1>8. "do_refresh6" \in Timeouts \ {"do_expire"} /\ "do_confirm6" \in Timeouts \ {"do_expire"}
  BY DEF Timeouts
<1> QED  BY <1>3, <1>7, <1>8

-----------------------------------------------------------------------------
(***************************************************************************)
(* The other handlers.                                                     *)
(***************************************************************************)
LEMMA CancelRuns ==
    ASSUME NEW w, NEW F, "do_expire" \notin F
    PROVE  /\ Running(w) => /\ Running(cancel_timeout(w, F))
                            /\ cancel_timeout(w, F).client.state = w.client.state
                            /\ Same(cancel_timeout(w, F), w)
           /\ Good(w) => Good(cancel_timeout(w, F))
<1> DEFINE u == cancel_timeout(w, F)
<1>1. ASSUME Sound(w)
      PROVE  /\ Same(u, w) /\ SameTimer(u, w) /\ u.client.state = w.client.state
             /\ u.client.handler = w.client.handler
             /\ \A f \in Timeouts : u.client.timer[f] = IF f \in F THEN Off ELSE w.client.timer[f]
  <2>1. Shape(w)
    BY <1>1 DEF Sound
  <2> QED  BY <2>1, CancelTimeout
<1> HIDE DEF u
<1>2. ASSUME Running(w)
      PROVE  Running(u) /\ u.client.state = w.client.state /\ Same(u, w)
  <2>1. Sound(w) /\ w.client.state \notin {"EXIT", "FATAL"}
    BY <1>2 DEF Running, Alive
  <2> QED  BY <1>1, <1>2, <2>1, RunningSame
<1>3. ASSUME Over(w)
      PROVE  Over(u)
  <2>1. Sound(w)
    BY <1>3 DEF Over
  <2>2. Sound(u)
    BY <1>1, <2>1, SameKeeps
  <2> QED  BY <1>1, <1>3, <2>1, <2>2 DEF Over, Alive
<1> QED  BY <1>2, <1>3 DEF Good, u

LEMMA InitGood ==
    ASSUME NEW w, Running(w)
    PROVE  AllGood({start_init6(w)})
<1>1. Running(start_init6(w))
  BY StartInit DEF Running
<1> QED  BY <1>1 DEF AllGood, Good

LEMMA NextServerGood ==
    ASSUME Settings, NEW w, Running(w)
    PROVE  AllGood(NextServer(w)) /\ AllGood(start_selecting6([w EXCEPT !.client.selected = None]))
<1> DEFINE v == [w EXCEPT !.client.selected = None]
<1>1. Running(v)
  BY Zenon, Unselected
<1>2. NextServer(w) = start_selecting6(v) \/ NextServer(w) = {start_init6(v)}
  BY DEF NextServer
<1> HIDE DEF v
<1>3. AllGood(start_selecting6(v)) /\ AllGood({start_init6(v)})
  BY <1>1, SelectingRuns, InitGood
<1> QED  BY <1>2, <1>3 DEF v

LEMMA DoSelectGood ==
    ASSUME Settings, NEW w, Running(w)
    PROVE  AllGood(do_select6(w))
<1>1. CASE w.client.selected = None
  BY <1>1 DEF do_select6, AllGood, Good
<1>2. CASE w.client.selected # None /\ Exceeded(w.client)
  BY Zenon, <1>2, NextServerGood DEF do_select6
<1>3. CASE w.client.selected # None /\ ~ Exceeded(w.client)
  BY <1>3, RequestRuns DEF do_select6
<1> QED  BY <1>1, <1>2, <1>3

LEMMA DoInitGood ==
    ASSUME Settings, NEW w, Running(w)
    PROVE  AllGood(do_init6(w))
<1> DEFINE x == [w EXCEPT !.client.handler = "rapid_commit_handler"]
           v == IF RapidCommit THEN x ELSE w
           type == IF RapidCommit THEN "RAPID" ELSE "ADVERTISE"
<1>1. \/ do_init6(w) = start_selecting6(w)
      \/ do_init6(w) = {w}
      \/ do_init6(w) = {Finished(w)}
      \/ do_init6(w) = Transmit(v, "do_init6", type, Servers)
  BY DEF do_init6
<1>2. AllGood(start_selecting6(w))
  BY SelectingRuns
<1>3. AllGood({w})
  BY DEF AllGood, Good
<1>4. AllGood({Finished(w)})
  BY FinishedIs DEF Running, AllGood
<1>5. AllGood(Transmit(v, "do_init6", type, Servers))
  <2>1. Shape(w) /\ w.client.state \notin {"EXIT", "FATAL"}
    BY DEF Running, Sound, Alive
  <2>2. Same(x, w) /\ SameTimer(x, w) /\ x.client.state = w.client.state
    BY <2>1 DEF Same, SameTimer, Shape
  <2> HIDE DEF x
  <2>3. Running(x)
    BY <2>1, <2>2, RunningSame
  <2>4. Running(v) /\ type \in {"ADVERTISE", "REPLY", "RAPID"}
    BY <2>3
  <2>5. "do_init6" \in Timeouts \ {"do_expire"}
    BY DEF Timeouts
  <2> HIDE DEF v, type
  <2> QED  BY <2>4, <2>5, TransmitRuns
<1> QED  BY <1>1, <1>2, <1>3, <1>4, <1>5

LEMMA InitHandlerGood ==
    ASSUME Settings, NEW w, Running(w), NEW m \in Replied
    PROVE  AllGood(init_handler(w, m))
<1> DEFINE o == [srv |-> m.srv, kinds |-> m.kinds]
           B == {a \in w.client.advertised : a.srv # m.srv}
           v == [w EXCEPT !.client.advertised = B \cup {o}]
           u == cancel_timeout(v, {"do_init6"})
<1>1. \/ init_handler(w, m) = {w}
      \/ init_handler(w, m) = start_selecting6(u)
      \/ init_handler(w, m) = {v}
  BY DEF init_handler
<1>2. Advertised(B \cup {o})
  <2>1. Advertised(w.client.advertised)
    BY DEF Running, Sound
  <2>2. B \in SUBSET w.client.advertised /\ \A a \in B : a.srv # m.srv
    OBVIOUS
  <2>3. o \in Offers /\ o.srv = m.srv
    BY DEF Offers, Replied
  <2> HIDE DEF B, o
  <2>4. IsFiniteSet(B \cup {o})
    BY <2>1, <2>2, FS_Subset, FS_AddElement DEF Advertised
  <2> QED  BY <2>1, <2>2, <2>3, <2>4 DEF Advertised
<1> HIDE DEF B, o
<1>3. Running(v)
  BY Zenon, <1>2, Readvertised
<1> HIDE DEF v
<1>4. Running(u)
  BY <1>3, CancelRuns
<1> HIDE DEF u
<1>5. AllGood(start_selecting6(u))
  BY <1>4, SelectingRuns
<1> QED  BY <1>1, <1>3, <1>5 DEF AllGood, Good

(* Information-requests.                                                   *)
LEMMA StartInfoRequest ==
    ASSUME NEW w, Sound(w), Covered(w), Timed(w)
    PROVE  Running(start_info_request6(w)) /\ Same(start_info_request6(w), w)
<1> DEFINE v == [w EXCEPT !.client.state = "INIT"]
           r == dhc6_retrans_init(v, "info_request_handler", 0, 0)
           u == add_timeout(r, "do_info_request6", 0)
<1>1. Same(v, w) /\ SameTimer(v, w) /\ v.client.state = "INIT"
  BY Zenon, Restated
<1>2. start_info_request6(w) = u
  BY DEF start_info_request6
<1> HIDE DEF v
<1>3. Shape(v)
  BY <1>1 DEF Same
<1>4. Same(r, v) /\ SameTimer(r, v) /\ r.client.state = "INIT"
  BY <1>1, <1>3, RetransInit
<1> HIDE DEF r
<1>5. Shape(r) /\ "do_info_request6" \in Timeouts /\ "do_info_request6" # "do_expire"
  BY <1>4 DEF Same, Timeouts
<1>6. Same(u, r) /\ SameTimer(u, r) /\ u.client.state = "INIT"
  BY <1>4, <1>5, AddTimeout
<1> HIDE DEF u
<1>7. Same(u, w) /\ SameTimer(u, w)
  BY <1>1, <1>4, <1>6, SameTrans
<1>8. Sound(u) /\ Covered(u) /\ Timed(u)
  BY <1>7, SameKeeps
<1> QED  BY <1>2, <1>6, <1>7, <1>8 DEF Running, Alive, Quiet

LEMMA InfoGood ==
    ASSUME Settings, NEW w, Running(w)
    PROVE  AllGood(do_info_request6(w)) /\ AllGood(refresh_info_request6(w))
<1>1. AllGood({Finished(w)})
  BY FinishedIs DEF Running, AllGood
<1>2. AllGood(Transmit(w, "do_info_request6", "REPLY", Servers))
  <2>1. "do_info_request6" \in Timeouts \ {"do_expire"}
    BY DEF Timeouts
  <2> QED  BY <2>1, TransmitRuns
<1>3. Running(start_info_request6(w))
  BY StartInfoRequest DEF Running
<1>4. AllGood(do_info_request6(w))
  BY <1>1, <1>2 DEF do_info_request6
<1>5. AllGood(refresh_info_request6(w))
  BY <1>3 DEF refresh_info_request6, AllGood, Good
<1> QED  BY <1>4, <1>5

LEMMA InformedGood ==
    ASSUME Settings, NEW w, Running(w), NEW m
    PROVE  AllGood(info_request_handler(w, m))
<1> DEFINE x == cancel_timeout(w, {"do_info_request6"})
           y == cancel_timeout(x, {"refresh_info_request6"})
           v == [y EXCEPT !.client.state = "BOUND", !.client.handler = "informed_handler"]
           u == add_timeout(v, "refresh_info_request6", T1)
<1>1. \/ info_request_handler(w, m) = {w}
      \/ info_request_handler(w, m) = {v, u}
  BY DEF info_request_handler, start_informed
<1>2. Running(x)
  BY CancelRuns
<1> HIDE DEF x
<1>3. Running(y)
  BY <1>2, CancelRuns
<1> HIDE DEF y
<1>4. Same(v, y) /\ SameTimer(v, y) /\ v.client.state = "BOUND"
  <2>1. Shape(y)
    BY <1>3 DEF Running, Sound
  <2> QED  BY Zenon, <2>1 DEF Same, SameTimer, Shape
<1> HIDE DEF v
<1>5. Running(v)
  BY <1>3, <1>4, RunningSame
<1>6. Same(u, v) /\ SameTimer(u, v) /\ u.client.state = "BOUND"
  <2>1. Shape(v) /\ "refresh_info_request6" \in Timeouts
    BY <1>5 DEF Running, Sound, Timeouts
  <2> QED  BY <1>4, <2>1, AddTimeout
<1> HIDE DEF u
<1>7. Running(u)
  BY <1>5, <1>6, RunningSame
<1> QED  BY <1>1, <1>5, <1>7 DEF AllGood, Good

-----------------------------------------------------------------------------
(***************************************************************************)
(* Replies.                                                                *)
(***************************************************************************)
StatusCodes == {"Success", "UnspecFail", "NoAddrsAvail", "NotOnLink", "NoBinding", "UseMulticast"}

LEMMA SelectActionGood ==
    ASSUME Settings, NEW w, Running(w), NEW code \in StatusCodes
    PROVE  AllGood(dhc6_select_action(w, code))
<1> DEFINE n == [w EXCEPT !.client.active = None]
           o == [w EXCEPT !.client.selected = None, !.client.advertised = {}]
<1>1. \/ dhc6_select_action(w, code) = {}
      \/ dhc6_select_action(w, code) = start_selecting6([w EXCEPT !.client.selected = None])
      \/ dhc6_select_action(w, code) = Fatal(w)
      \/ dhc6_select_action(w, code) = NextServer(w)
      \/ w.client.state = "REBOOTING" /\ dhc6_select_action(w, code) = {start_init6(n)}
      \/ dhc6_select_action(w, code) = {start_init6(o)}
  <2>1. CASE code \in {"Success", "NoBinding", "UseMulticast"}
    BY <2>1 DEF dhc6_select_action
  <2>2. CASE code = "UnspecFail"
    BY <2>2 DEF dhc6_select_action
  <2>3. CASE code = "NoAddrsAvail"
    BY <2>3 DEF dhc6_select_action
  <2>4. CASE code = "NotOnLink"
    BY <2>4 DEF dhc6_select_action
  <2> QED  BY <2>1, <2>2, <2>3, <2>4 DEF StatusCodes
<1>2. AllGood({})
  BY DEF AllGood
<1>3. AllGood(Fatal(w))
  BY FatalIs DEF Running
<1>4. w.client.state = "REBOOTING" => AllGood({start_init6(n)})
  <2> SUFFICES ASSUME w.client.state = "REBOOTING" PROVE Running(start_init6(n))
    BY DEF AllGood, Good
  <2>1. Sound(w) /\ w.conf = {}
    BY DEF Running, Quiet
  <2>2. Sound(n) /\ Covered(n) /\ Timed(n)
    BY <2>1, Dropped
  <2> QED  BY <2>2, StartInit
<1>5. AllGood({start_init6(o)})
  <2> DEFINE x == [w EXCEPT !.client.selected = None]
  <2>1. Running(x)
    BY Zenon, Unselected
  <2>2. o = [x EXCEPT !.client.advertised = {}]
    <3>1. Shape(w)
      BY DEF Running, Sound
    <3> QED  BY <3>1 DEF Shape
  <2> HIDE DEF x, o
  <2>3. Advertised({})
    BY FS_EmptySet DEF Advertised
  <2>4. Running(o)
    BY Zenon, <2>1, <2>2, <2>3, Readvertised
  <2> QED  BY <2>4, InitGood
<1> QED  BY <1>1, <1>2, <1>3, <1>4, <1>5, NextServerGood

LEMMA ReplyActionGood ==
    ASSUME Settings, NEW w, Running(w), NEW code \in StatusCodes
    PROVE  AllGood(dhc6_reply_action(w, code))
<1> DEFINE o == [srv |-> w.client.active.srv, kinds |-> Kinds(w.client.active.addrs)]
           x == [w EXCEPT !.client.advertised = {o}]
<1>1. \/ dhc6_reply_action(w, code) = {}
      \/ dhc6_reply_action(w, code) = dhc6_withdraw_lease(w)
      \/ dhc6_reply_action(w, code) = {start_init6(w)}
      \/ dhc6_reply_action(w, code) = Fatal(w)
      \/ w.client.active # None /\ dhc6_reply_action(w, code) = start_selecting6(x)
  <2>1. CASE code \in {"Success", "UnspecFail", "UseMulticast"}
    BY <2>1 DEF dhc6_reply_action
  <2>2. CASE code = "NotOnLink"
    BY <2>2 DEF dhc6_reply_action
  <2>3. CASE code = "NoAddrsAvail"
    BY <2>3 DEF dhc6_reply_action
  <2>4. CASE code = "NoBinding"
    BY <2>4 DEF dhc6_reply_action
  <2> QED  BY <2>1, <2>2, <2>3, <2>4 DEF StatusCodes
<1>2. AllGood({})
  BY DEF AllGood
<1>3. AllGood(Fatal(w))
  BY FatalIs DEF Running
<1>4. AllGood({start_init6(w)}) /\ AllGood(dhc6_withdraw_lease(w))
  BY InitGood, WithdrawGood
<1>5. w.client.active # None => AllGood(start_selecting6(x))
  <2> SUFFICES ASSUME w.client.active # None PROVE AllGood(start_selecting6(x))
    OBVIOUS
  <2>1. o \in Offers
    <3>1. w.client.active \in Leases
      BY DEF Running, Sound, Held
    <3> QED  BY <3>1 DEF Leases, Addresses, Kinds, Offers
  <2> HIDE DEF o
  <2>2. Advertised({o})
    BY Zenon, <2>1, FS_Singleton DEF Advertised
  <2>3. Running(x)
    BY Zenon, <2>2, Readvertised
  <2> HIDE DEF x
  <2> QED  BY <2>3, SelectingRuns
<1> QED  BY <1>1, <1>2, <1>3, <1>4, <1>5

LEMMA ActionGood ==
    ASSUME Settings, NEW w, Running(w), NEW code \in StatusCodes
    PROVE  AllGood(Action(w, code))
<1>1. AllGood({}) /\ AllGood({w})
  BY DEF AllGood, Good
<1>2. AllGood(Fatal(w))
  BY FatalIs DEF Running
<1>3. \/ Action(w, code) = {} \/ Action(w, code) = {w} \/ Action(w, code) = Fatal(w)
      \/ Action(w, code) = dhc6_select_action(w, code)
      \/ Action(w, code) = dhc6_reply_action(w, code)
  <2>1. CASE w.client.state = "INIT"
    BY <2>1 DEF Action, dhc6_init_action
  <2>2. CASE w.client.state \in {"SELECTING", "REBOOTING"}
    BY <2>2 DEF Action
  <2>3. CASE w.client.state \in {"RENEWING", "REBINDING"}
    BY <2>3 DEF Action
  <2>4. CASE w.client.state = "STOPPED"
    BY <2>4 DEF Action, dhc6_stop_action
  <2>5. CASE w.client.state \notin {"INIT", "SELECTING", "REBOOTING", "RENEWING", "REBINDING",
                                    "STOPPED"}
    BY <2>5 DEF Action
  <2> QED  BY Zenon, <2>1, <2>2, <2>3, <2>4, <2>5
<1> QED  BY <1>1, <1>2, <1>3, SelectActionGood, ReplyActionGood

LEMMA CheckReplyGood ==
    ASSUME Settings, NEW w, Running(w), NEW m \in Replied
    PROVE  AllGood(dhc6_check_reply(w, m))
<1>1. m.code \in StatusCodes /\ "NoAddrsAvail" \in StatusCodes
  BY Zenon DEF Replied, Settings, StatusCodes
<1>2. AllGood(Action(w, m.code)) /\ AllGood(Action(w, "NoAddrsAvail"))
  BY <1>1, ActionGood
<1>3. AllGood({})
  BY DEF AllGood
<1>4. \/ dhc6_check_reply(w, m) = {}
      \/ dhc6_check_reply(w, m) = Action(w, m.code)
      \/ dhc6_check_reply(w, m) = Action(w, "NoAddrsAvail")
      \/ dhc6_check_reply(w, m) = start_selecting6([w EXCEPT !.client.selected = None])
  BY Zenon DEF dhc6_check_reply
<1> QED  BY <1>2, <1>3, <1>4, NextServerGood

LEMMA RapidGood ==
    ASSUME Settings, NEW w, Running(w), NEW m, Honest(m, w.grant)
    PROVE  AllGood(rapid_commit_handler(w, m))
<1> DEFINE x == cancel_timeout(w, {"do_init6"})
           v == [x EXCEPT !.client.state = "SELECTING"]
<1>1. m \in Replied
  BY DEF Honest
<1>2. \/ rapid_commit_handler(w, m) = init_handler(w, m)
      \/ rapid_commit_handler(w, m) = {w}
      \/ m.type # "ADVERTISE" /\ rapid_commit_handler(w, m) = Take(v, m)
  BY DEF rapid_commit_handler
<1>3. AllGood(init_handler(w, m)) /\ AllGood({w})
  BY <1>1, InitHandlerGood DEF AllGood, Good
<1>4. Running(x) /\ Same(x, w)
  BY CancelRuns
<1> HIDE DEF x
<1>5. Same(v, x) /\ SameTimer(v, x) /\ v.client.state = "SELECTING"
  BY Zenon, <1>4, Restated DEF Running
<1> HIDE DEF v
<1>6. Running(v) /\ v.grant = w.grant
  BY Zenon, <1>4, <1>5, RunningSame DEF Same
<1>7. m.type # "ADVERTISE" => AllGood(Take(v, m))
  BY <1>6, TakeGood DEF Running
<1> QED  BY Zenon, <1>2, <1>3, <1>7

LEMMA ReplyGood ==
    ASSUME Settings, NEW w, Running(w), NEW m, Honest(m, w.grant)
    PROVE  AllGood(reply_handler(w, m))
<1> DEFINE acted == dhc6_check_reply(w, m)
           v == cancel_timeout(w, Retransmissions)
           x == [v EXCEPT !.client.selected = None]
           C == {cancel_timeout(u, Retransmissions) : u \in acted}
<1>1. m \in Replied /\ "do_expire" \notin Retransmissions
  BY DEF Honest, Retransmissions
<1>2. \/ reply_handler(w, m) = {w}
      \/ reply_handler(w, m) = {Finished(v)}
      \/ reply_handler(w, m) = C
      \/ reply_handler(w, m) = start_bound(x)
      \/ m.type # "ADVERTISE" /\ reply_handler(w, m) = Take(x, m)
  BY Zenon DEF reply_handler
<1>3. AllGood(acted)
  BY <1>1, CheckReplyGood
<1> HIDE DEF acted
<1>4. AllGood(C)
  BY <1>1, <1>3, CancelRuns DEF AllGood
<1>5. Running(v) /\ Same(v, w)
  BY <1>1, CancelRuns
<1> HIDE DEF v, C
<1>6. AllGood({w}) /\ AllGood({Finished(v)})
  BY <1>5, FinishedIs DEF Running, AllGood, Good
<1>7. Running(x) /\ x.grant = w.grant
  <2>1. Running(x)
    BY Zenon, <1>5, Unselected
  <2>2. Shape(v)
    BY Zenon, <1>5 DEF Running, Sound
  <2>3. x.grant = v.grant
    BY <2>2 DEF Shape
  <2> QED  BY <1>5, <2>1, <2>3 DEF Same
<1> HIDE DEF x
<1>8. AllGood(start_bound(x))
  BY <1>7, BoundGood DEF Running
<1>9. m.type # "ADVERTISE" => AllGood(Take(x, m))
  BY <1>7, TakeGood DEF Running
<1> QED  BY <1>2, <1>4, <1>6, <1>8, <1>9

-----------------------------------------------------------------------------
(***************************************************************************)
(* The steps.                                                              *)
(***************************************************************************)
LEMMA WorldIs ==
    /\ DOMAIN World = {"client", "net", "conf", "file", "grant"}
    /\ World.client = client /\ World.net = net /\ World.conf = conf
    /\ World.file = file /\ World.grant = grant
    /\ DOMAIN World' = {"client", "net", "conf", "file", "grant"}
    /\ World'.client = client' /\ World'.net = net' /\ World'.conf = conf'
    /\ World'.file = file' /\ World'.grant = grant'
BY DEF World

(* What a handler leaves becomes the state.                                *)
LEMMA BecomesGood ==
    ASSUME NEW w, Good(w), Becomes(w)
    PROVE  Dhc6Inv'
<1> DEFINE u == World'
           c == w.client
<1>1. Sound(w) /\ Shape(w)
  BY Zenon DEF Good, Running, Over, Sound
<1>2. \/ client' = [c EXCEPT !.txcount = 0, !.age = 0, !.mrc = 0, !.mrd = 0]
      \/ client' = c
  BY DEF Becomes
<1>3. /\ DOMAIN client' = DOMAIN c /\ client'.timer = c.timer /\ client'.state = c.state
      /\ client'.handler = c.handler /\ client'.active = c.active
      /\ client'.selected = c.selected /\ client'.advertised = c.advertised
  BY Zenon, <1>1, <1>2 DEF Shape
<1>4. net' \in SUBSET w.net /\ conf' = w.conf /\ file' = w.file /\ grant' = w.grant
  BY DEF Becomes
<1>5. /\ DOMAIN u = DOMAIN w /\ u.client = client' /\ u.net = net' /\ u.conf = conf'
      /\ u.file = file' /\ u.grant = grant'
  BY <1>1, WorldIs DEF Shape
<1> HIDE DEF u
<1>6. Same(u, w) /\ SameTimer(u, w) /\ u.client.state = w.client.state
  <2>1. Shape(u)
    BY <1>1, <1>3, <1>4, <1>5 DEF Shape
  <2> QED  BY <1>3, <1>4, <1>5, <2>1 DEF Same, SameTimer
<1>7. CASE Running(w)
  <2>1. w.client.state \notin {"EXIT", "FATAL"}
    BY <1>7 DEF Running, Alive
  <2>2. Running(u)
    BY <1>6, <1>7, <2>1, RunningSame
  <2> QED  BY <2>2 DEF Dhc6Inv, Good, u
<1>8. CASE Over(w)
  <2>1. Sound(u)
    BY <1>1, <1>6, SameKeeps
  <2>2. Over(u)
    BY <1>3, <1>5, <1>8, <2>1 DEF Over, Alive
  <2> QED  BY <2>2 DEF Dhc6Inv, Good, u
<1> QED  BY <1>7, <1>8 DEF Good

LEMMA HandlerGood ==
    ASSUME Settings, NEW f \in Timeouts, NEW w, f # "do_expire" => Running(w),
           Sound(w), Alive(w), Quiet(w), Covered(w)
    PROVE  AllGood(Handler(w, f))
<1>1. CASE f = "do_init6"
  BY <1>1, DoInitGood DEF Handler
<1>2. CASE f = "do_confirm6"
  BY <1>2, ConfirmGood DEF Handler
<1>3. CASE f = "do_select6"
  BY <1>3, DoSelectGood DEF Handler
<1>4. CASE f = "do_refresh6"
  BY <1>4, RefreshGood DEF Handler
<1>5. CASE f = "do_release6"
  BY <1>5, DoReleaseGood DEF Handler
<1>6. CASE f = "start_renew6"
  BY <1>6, RenewGood DEF Handler
<1>7. CASE f = "start_rebind6"
  BY <1>7, RenewGood DEF Handler
<1>8. CASE f = "do_depref"
  BY <1>8, DeprefGood DEF Handler
<1>9. CASE f = "do_expire"
  BY <1>9, ExpireGood DEF Handler
<1>10. CASE f = "do_info_request6"
  BY <1>10, InfoGood DEF Handler
<1>11. CASE f = "refresh_info_request6"
  BY <1>11, InfoGood DEF Handler
<1> QED
  BY <1>1, <1>2, <1>3, <1>4, <1>5, <1>6, <1>7, <1>8, <1>9, <1>10, <1>11 DEF Timeouts

LEMMA FireGood ==
    ASSUME Settings, Dhc6Inv, Fire
    PROVE  Dhc6Inv'
<1>1. PICK f \in Timeouts : /\ client.timer[f] <= 0
                            /\ \E w \in Handler(cancel_timeout(World, {f}), f) : Becomes(w)
  BY Zenon DEF Fire
<1>2. Running(World)
  <2>1. ~ Over(World)
    BY <1>1, WorldIs DEF Over, Settings
  <2> QED  BY <2>1 DEF Dhc6Inv, Good
<1> DEFINE u == cancel_timeout(World, {f})
<1>3. Sound(World) /\ Shape(World)
  BY Zenon, <1>2 DEF Running, Sound
<1>4. Same(u, World) /\ u.client.state = World.client.state
  BY <1>3, CancelTimeout
<1>5. f # "do_expire" => Running(u)
  BY <1>2, CancelRuns
<1> HIDE DEF u
<1>6. Sound(u) /\ Covered(u)
  BY <1>2, <1>4, SameKeeps DEF Running
<1>7. Alive(u) /\ Quiet(u)
  BY <1>2, <1>4 DEF Running, Alive, Quiet, Same
<1>8. AllGood(Handler(u, f))
  BY <1>5, <1>6, <1>7, HandlerGood
<1>9. PICK w \in Handler(u, f) : Becomes(w)
  BY <1>1 DEF u
<1> QED  BY <1>8, <1>9, BecomesGood DEF AllGood

LEMMA ReceiveGood ==
    ASSUME Settings, Dhc6Inv, Receive
    PROVE  Dhc6Inv'
<1>1. PICK m \in net : \E w \in Received([World EXCEPT !.net = @ \ {m}], m) : Becomes(w)
  BY Zenon DEF Receive
<1> DEFINE u == [World EXCEPT !.net = net \ {m}]
<1>2. PICK w \in Received(u, m) : Becomes(w)
  BY <1>1, WorldIs
<1>3. Sound(World) /\ Shape(World)
  BY DEF Dhc6Inv, Good, Running, Over, Sound
<1>4. /\ Same(u, World) /\ SameTimer(u, World) /\ u.client = client /\ u.grant = grant
  BY <1>3, WorldIs DEF Same, SameTimer, Shape
<1>5. Honest(m, grant)
  BY <1>3, WorldIs DEF Sound, UnderWay, Honest
<1> HIDE DEF u
<1>6. CASE Running(World)
  <2>1. Running(u)
    BY Zenon, <1>4, <1>6, WorldIs, RunningSame DEF Running, Alive
  <2>2. m \in Replied /\ AllGood({u})
    BY <1>5, <2>1 DEF Honest, AllGood, Good
  <2>3. /\ AllGood(init_handler(u, m)) /\ AllGood(rapid_commit_handler(u, m))
        /\ AllGood(reply_handler(u, m)) /\ AllGood(info_request_handler(u, m))
    BY <1>4, <1>5, <2>1, <2>2, InitHandlerGood, RapidGood, ReplyGood, InformedGood
  <2>4. \/ Received(u, m) = init_handler(u, m) \/ Received(u, m) = rapid_commit_handler(u, m)
        \/ Received(u, m) = reply_handler(u, m) \/ Received(u, m) = info_request_handler(u, m)
        \/ Received(u, m) = {u}
    BY DEF Received
  <2> QED  BY <1>2, <2>2, <2>3, <2>4, BecomesGood DEF AllGood
<1>7. CASE Over(World)
  <2>1. Received(u, m) = {u}
    BY <1>7, WorldIs DEF Over, Received
  <2>2. Sound(u)
    BY <1>3, <1>4, SameKeeps
  <2>3. Over(u)
    BY <1>4, <1>7, <2>2, WorldIs DEF Over, Alive
  <2> QED  BY <1>2, <2>1, <2>3, BecomesGood DEF Good
<1> QED  BY <1>6, <1>7 DEF Dhc6Inv, Good

LEMMA AgedHeld ==
    ASSUME Settings, NEW lease, NEW g, NEW h, Granted(g), Held(lease, g),
           h = [k \in Wanted |-> [s \in Servers |->
                  IF g[k][s] > -MaxDelay THEN g[k][s] - 1 ELSE g[k][s]]]
    PROVE  /\ Held(Aged(lease), h)
           /\ Aged(lease) = None <=> lease = None
           /\ NamesOf(Aged(lease)) = NamesOf(lease)
           /\ lease # None => Names(Live(Aged(lease).addrs)) = Names(Live(lease.addrs))
           /\ lease # None =>
                \A b \in Aged(lease).addrs : \E a \in lease.addrs :
                   /\ b.kind = a.kind /\ b.srv = a.srv /\ b.expired = a.expired
                   /\ (b = a /\ a.valid <= 0) \/ b.valid = a.valid - 1
<1>1. \A k \in Wanted, s \in Servers :
         /\ g[k][s] \in Int /\ -MaxDelay <= g[k][s] /\ MaxDelay \in Nat
         /\ h[k][s] = IF g[k][s] > -MaxDelay THEN g[k][s] - 1 ELSE g[k][s]
  BY DEF Granted, Settings
<1>2. CASE lease = None
  BY <1>2 DEF Aged, Held, NamesOf
<1>3. CASE lease # None /\ {a \in lease.addrs : a.valid > 0} = {}
  <2>1. Aged(lease) = lease
    BY <1>3 DEF Aged
  <2>2. /\ lease \in Leases /\ IsFiniteSet(lease.addrs)
        /\ \A a \in lease.addrs : a \in Addresses /\ a.valid <= Valid[a.kind]
    BY <1>3 DEF Held, Leases
  <2>3. \A a \in lease.addrs : a.kind \in Wanted /\ a.srv \in Servers /\ a.valid \in Int
    BY <2>2 DEF Addresses
  <2>4. \A a \in lease.addrs : a.valid <= 0
    BY <1>3, <2>3
  <2>5. \A a \in lease.addrs : a.valid <= h[a.kind][a.srv] + MaxDelay
    BY <1>1, <2>3, <2>4
  <2> QED  BY Zenon, <1>3, <2>1, <2>2, <2>4, <2>5 DEF Held
<1>4. CASE lease # None /\ {a \in lease.addrs : a.valid > 0} # {}
  <2> DEFINE A == lease.addrs
             f == [a \in A |-> [a EXCEPT !.pref = @ - 1, !.valid = @ - 1]]
             B == {f[a] : a \in A}
             l == [lease EXCEPT !.age = @ + 1, !.addrs = B]
  <2>1. /\ lease \in Leases /\ IsFiniteSet(A) /\ A \in SUBSET Addresses
        /\ \A a \in A : a.valid <= Valid[a.kind] /\ a.valid <= g[a.kind][a.srv] + MaxDelay
    BY <1>4 DEF Held, Leases
  <2>2. Aged(lease) = l
    BY Zenon, <1>4 DEF Aged
  <2>a. A = lease.addrs
    OBVIOUS
  <2> HIDE DEF A
  <2>3. \A a \in A : /\ f[a] \in Addresses
                     /\ f[a].kind = a.kind /\ f[a].srv = a.srv /\ f[a].valid = a.valid - 1
                     /\ f[a].expired = a.expired
    <3> TAKE a \in A
    <3> DEFINE p == [a EXCEPT !.pref = @ - 1]
    <3>1. a \in Addresses
      BY <2>1
    <3>2. f[a] = [p EXCEPT !.valid = a.valid - 1] /\ a.valid - 1 \in Int
      BY <3>1 DEF Addresses
    <3>3. /\ p \in Addresses /\ p.kind = a.kind /\ p.srv = a.srv
          /\ p.expired = a.expired
      BY <3>1 DEF Addresses
    <3> HIDE DEF p, f
    <3> QED  BY <3>2, <3>3 DEF Addresses
  <2>4. A \subseteq DOMAIN f
    OBVIOUS
  <2> HIDE DEF f
  <2>5. IsFiniteSet(B)
    BY <2>1, <2>4, ImageFinite
  <2>6. \A b \in B : \E a \in A : b = f[a]
    OBVIOUS
  <2>7. \A a \in A : f[a] \in B
    OBVIOUS
  <2> HIDE DEF B
  <2>8. \A b \in B : b.valid <= Valid[b.kind] /\ b.valid <= h[b.kind][b.srv] + MaxDelay
    <3> TAKE b \in B
    <3>1. PICK a \in A : b = f[a]
      BY <2>6
    <3>2. a.kind \in Wanted /\ a.srv \in Servers /\ a.valid \in Int
      BY <2>1 DEF Addresses
    <3>3. Valid[a.kind] \in Nat
      BY <3>2 DEF Settings
    <3>4. b.kind = a.kind /\ b.srv = a.srv /\ b.valid = a.valid - 1
      BY <2>3, <3>1
    <3> QED  BY <1>1, <2>1, <3>2, <3>3, <3>4
  <2>9. l \in Leases /\ l.addrs = B
    <3>1. B \in SUBSET Addresses
      BY <2>3, <2>6
    <3> DEFINE x == [lease EXCEPT !.age = @ + 1]
    <3>2. x \in Leases /\ l = [x EXCEPT !.addrs = B]
      BY <2>1 DEF Leases
    <3> HIDE DEF x, l
    <3> QED  BY <3>1, <3>2 DEF Leases
  <2>10. Held(l, h) /\ l # None
    BY <2>5, <2>8, <2>9 DEF Held, Settings
  <2> HIDE DEF l
  <2>11. Names(B) = Names(A) /\ Names(Live(B)) = Names(Live(A))
    BY <2>3, <2>6, <2>7 DEF Names, Live
  <2>12. NamesOf(l) = NamesOf(lease)
    BY <1>4, <2>9, <2>10, <2>11, <2>a DEF NamesOf
  <2>13. \A b \in B : \E a \in A : /\ b.kind = a.kind /\ b.srv = a.srv /\ b.expired = a.expired
                                   /\ b.valid = a.valid - 1
    BY <2>3, <2>6
  <2> QED  BY <1>4, <2>2, <2>9, <2>10, <2>11, <2>12, <2>13, <2>a
<1> QED  BY <1>2, <1>3, <1>4

(* A second passes for the servers and for the replies under way.          *)
LEMMA AgedNet ==
    ASSUME Settings, NEW N, NEW g, NEW h, Granted(g), UnderWay(N, g),
           h = [k \in Wanted |-> [s \in Servers |->
                  IF g[k][s] > -MaxDelay THEN g[k][s] - 1 ELSE g[k][s]]]
    PROVE  /\ Granted(h)
           /\ UnderWay({[m EXCEPT !.age = @ + 1] : m \in {n \in N : n.age < MaxDelay}}, h)
<1> DEFINE M == {[m EXCEPT !.age = @ + 1] : m \in {n \in N : n.age < MaxDelay}}
<1>1. \A k \in Wanted, s \in Servers :
         /\ g[k][s] \in Int /\ -MaxDelay <= g[k][s] /\ MaxDelay \in Nat
         /\ h[k][s] = IF g[k][s] > -MaxDelay THEN g[k][s] - 1 ELSE g[k][s]
  BY DEF Granted, Settings
<1>2. Granted(h)
  <2>1. \A k \in Wanted, s \in Servers : h[k][s] \in Int /\ -MaxDelay <= h[k][s]
    BY <1>1
  <2>2. h \in [Wanted -> [Servers -> Int]]
    <3>1. ASSUME NEW k \in Wanted PROVE h[k] \in [Servers -> Int]
      BY <1>1
    <3> QED  BY <3>1
  <2> QED  BY <2>1, <2>2 DEF Granted
<1>3. ASSUME NEW r \in M
      PROVE  /\ r \in Replied
             /\ r.type # "ADVERTISE" => \A k \in r.kinds : Valid[k] <= h[k][r.srv] + r.age
  <2>1. PICK m \in N : m.age < MaxDelay /\ r = [m EXCEPT !.age = @ + 1]
    OBVIOUS
  <2>2. m \in Replied /\ MaxDelay \in Nat
    BY DEF UnderWay, Settings
  <2>3. /\ r \in Replied /\ r.type = m.type /\ r.srv = m.srv /\ r.kinds = m.kinds
        /\ r.age = m.age + 1 /\ m.age \in Int
    BY <2>1, <2>2 DEF Replied
  <2>4. ASSUME r.type # "ADVERTISE", NEW k \in r.kinds
        PROVE  Valid[k] <= h[k][r.srv] + r.age
    <3>1. k \in Wanted /\ m.srv \in Servers
      BY <2>2, <2>3, <2>4 DEF Replied
    <3>2. Valid[k] <= g[k][m.srv] + m.age
      BY <2>3, <2>4 DEF UnderWay
    <3>3. Valid[k] \in Nat
      BY <3>1 DEF Settings
    <3> QED  BY <1>1, <2>3, <3>1, <3>2, <3>3
  <2> QED  BY Zenon, <2>3, <2>4
<1> HIDE DEF M
<1>4. UnderWay(M, h)
  BY Zenon, <1>3 DEF UnderWay
<1> QED  BY <1>2, <1>4 DEF M

LEMMA TickSound ==
    ASSUME Settings, Sound(World), Tick
    PROVE  /\ Sound(World') /\ client'.state = client.state
           /\ client'.handler = client.handler /\ client'.active = Aged(client.active)
           /\ \A f \in Timeouts : client'.timer[f] = IF client.timer[f] = Off THEN Off
                                                     ELSE client.timer[f] - 1
<1> DEFINE T == [f \in Timeouts |-> IF client.timer[f] = Off THEN Off ELSE client.timer[f] - 1]
<1>1. Shape(World)
  BY DEF Sound
<1>2. \E x, y : client' = [client EXCEPT !.timer = T, !.active = Aged(client.active),
                                         !.next_MRD = x, !.age = y]
  BY Zenon DEF Tick
<1>3. T["do_expire"] \in Int /\ DOMAIN T = Timeouts
  <2>1. "do_expire" \in Timeouts /\ client.timer["do_expire"] \in Int /\ Off \in Int
    BY <1>1, WorldIs DEF Shape, Timeouts
  <2> QED  BY <2>1
<1>a. \A f \in Timeouts : T[f] = IF client.timer[f] = Off THEN Off ELSE client.timer[f] - 1
  OBVIOUS
<1> HIDE DEF T
<1>4. /\ DOMAIN client' = DOMAIN client /\ client'.timer = T
      /\ client'.active = Aged(client.active) /\ client'.state = client.state
      /\ client'.handler = client.handler /\ client'.selected = client.selected
      /\ client'.advertised = client.advertised
  BY <1>1, <1>2, WorldIs DEF Shape
<1>5. DOMAIN file' = DOMAIN file /\ file'.lease = Aged(file.lease)
  BY <1>1, WorldIs DEF Shape, Tick
<1>6. Shape(World')
  BY <1>1, <1>3, <1>4, <1>5, WorldIs DEF Shape
<1>7. /\ Granted(grant) /\ UnderWay(net, grant) /\ Held(client.active, grant)
      /\ Held(file.lease, grant) /\ conf \subseteq NamesOf(file.lease)
      /\ client.selected # None => client.selected \in Offers
      /\ Advertised(client.advertised)
  BY WorldIs DEF Sound
<1>8. /\ net' = {[m EXCEPT !.age = @ + 1] : m \in {n \in net : n.age < MaxDelay}}
      /\ grant' = [k \in Wanted |-> [s \in Servers |->
                     IF grant[k][s] > -MaxDelay THEN grant[k][s] - 1 ELSE grant[k][s]]]
      /\ conf' = conf
  BY DEF Tick
<1>9. Granted(grant') /\ UnderWay(net', grant')
  BY Zenon, <1>7, <1>8, AgedNet
<1>10. /\ Held(client'.active, grant') /\ Held(file'.lease, grant')
       /\ NamesOf(file'.lease) = NamesOf(file.lease)
  <2>1. Held(Aged(client.active), grant')
    BY <1>7, <1>8, AgedHeld
  <2>2. Held(Aged(file.lease), grant') /\ NamesOf(Aged(file.lease)) = NamesOf(file.lease)
    BY <1>7, <1>8, AgedHeld
  <2> QED  BY <1>4, <1>5, <2>1, <2>2
<1>11. Sound(World')
  BY <1>4, <1>6, <1>7, <1>8, <1>9, <1>10, WorldIs DEF Sound
<1> QED  BY <1>4, <1>11, <1>a

LEMMA TickGood ==
    ASSUME Settings, Dhc6Inv, Tick
    PROVE  Dhc6Inv'
<1>1. Sound(World)
  BY DEF Dhc6Inv, Good, Running, Over
<1>2. /\ Sound(World') /\ client'.state = client.state
      /\ client'.handler = client.handler /\ client'.active = Aged(client.active)
      /\ \A f \in Timeouts : client'.timer[f] = IF client.timer[f] = Off THEN Off
                                                ELSE client.timer[f] - 1
  BY <1>1, TickSound
<1>3. conf' = conf /\ \A f \in Timeouts : client.timer[f] > 0
  BY DEF Tick
<1>4. CASE Over(World)
  <2>1. Over(World')
    BY <1>2, <1>4, WorldIs DEF Over, Alive
  <2> QED  BY <2>1 DEF Dhc6Inv, Good
<1>5. CASE Running(World)
  <2>1. Alive(World') /\ Quiet(World')
    BY <1>2, <1>3, <1>5, WorldIs DEF Running, Alive, Quiet
  <2>2. /\ Granted(grant) /\ Held(client.active, grant)
        /\ grant' = [k \in Wanted |-> [s \in Servers |->
                       IF grant[k][s] > -MaxDelay THEN grant[k][s] - 1 ELSE grant[k][s]]]
    BY <1>1, WorldIs DEF Sound, Tick
  <2>3. /\ Aged(client.active) = None <=> client.active = None
        /\ client.active # None =>
             Names(Live(Aged(client.active).addrs)) = Names(Live(client.active.addrs))
        /\ client.active # None =>
             \A b \in Aged(client.active).addrs : \E a \in client.active.addrs :
                /\ b.kind = a.kind /\ b.srv = a.srv /\ b.expired = a.expired
                /\ (b = a /\ a.valid <= 0) \/ b.valid = a.valid - 1
    BY Zenon, <2>2, AgedHeld
  <2>4. Covered(World')
    BY Zenon, <1>2, <1>3, <1>5, <2>3, WorldIs DEF Running, Covered
  <2>5. Timed(World')
    <3> SUFFICES ASSUME client.active # None,
                        NEW b \in Live(client'.active.addrs), <<b.kind, b.srv>> \in conf
                 PROVE  client'.timer["do_expire"] <= b.valid
      BY Zenon, <1>2, <1>3, <2>3, WorldIs DEF Timed
    <3>1. b \in Aged(client.active).addrs /\ ~ b.expired
      BY <1>2 DEF Live
    <3>2. PICK a \in client.active.addrs :
             /\ b.kind = a.kind /\ b.srv = a.srv /\ b.expired = a.expired
             /\ (b = a /\ a.valid <= 0) \/ b.valid = a.valid - 1
      BY <2>3, <3>1
    <3>3. a \in Live(client.active.addrs) /\ <<a.kind, a.srv>> \in conf
      BY <3>1, <3>2 DEF Live
    <3>4. client.timer["do_expire"] <= a.valid
      BY <1>5, <3>3, WorldIs DEF Running, Timed
    <3>5. a.valid \in Int /\ a.valid <= Valid[a.kind] /\ a.kind \in Wanted
      BY <2>2 DEF Held, Leases, Addresses
    <3>6. Valid[a.kind] \in Nat /\ Valid[a.kind] < Off /\ Off \in Nat
      BY <3>5 DEF Settings
    <3>7. "do_expire" \in Timeouts /\ client.timer["do_expire"] \in Int
      BY <1>1, WorldIs DEF Sound, Shape, Timeouts
    <3>8. client.timer["do_expire"] > 0 /\ client.timer["do_expire"] # Off
      BY <1>3, <3>4, <3>5, <3>6, <3>7
    <3> QED  BY <1>2, <3>2, <3>4, <3>5, <3>7, <3>8
  <2> QED  BY <1>2, <2>1, <2>4, <2>5 DEF Dhc6Inv, Good, Running
<1> QED  BY <1>4, <1>5 DEF Dhc6Inv, Good

(* A new process: what it finds configured is what it has read.            *)
LEMMA NewClientSound ==
    ASSUME Settings, Sound(World), NEW C \in {{}, conf}, NEW w, DOMAIN w = DOMAIN World,
           w.client = NewClient, w.net = {}, w.conf = C, w.file = file, w.grant = grant
    PROVE  Sound(w) /\ w.client.active = w.file.lease /\ w.conf = C
<1>1. Shape(World)
  BY DEF Sound
<1>3. /\ DOMAIN NewClient = {"state", "handler", "active", "selected", "advertised", "timer",
                             "txcount", "age", "mrc", "mrd", "next_MRD", "refresh"}
      /\ NewClient.active = file.lease /\ NewClient.selected = None
      /\ NewClient.advertised = {} /\ NewClient.timer = [f \in Timeouts |-> Off]
  BY Zenon DEF NewClient
<1>4. DOMAIN NewClient.timer = Timeouts /\ {Off, NewClient.timer["do_expire"]} \subseteq Int
  BY <1>3 DEF Timeouts, Settings
<1>5. Shape(w)
  BY <1>1, <1>3, <1>4, WorldIs DEF Shape
<1>6. Advertised({}) /\ UnderWay({}, grant)
  BY Zenon, FS_EmptySet DEF Advertised, UnderWay
<1>7. /\ Granted(grant) /\ Held(file.lease, grant) /\ conf \subseteq NamesOf(file.lease)
  BY WorldIs DEF Sound
<1>8. Sound(w)
  BY <1>3, <1>5, <1>6, <1>7 DEF Sound
<1> QED  BY <1>3, <1>8

LEMMA StartedRuns ==
    ASSUME NEW w, Sound(w), w.conf = {}
    PROVE  Running(Started(w))
<1>1. Covered(w) /\ Timed(w)
  BY Zenon DEF Covered, Timed
<1> QED  BY Zenon, <1>1, StartInit, StartInfoRequest, StartConfirmGood DEF Started

LEMMA RestartGood ==
    ASSUME Settings, Dhc6Inv, Restart
    PROVE  Dhc6Inv'
<1> DEFINE w == [World EXCEPT !.client = NewClient, !.net = {}, !.conf = {}]
<1>1. Sound(World)
  BY DEF Dhc6Inv, Good, Running, Over
<1>2. Becomes(Started(w))
  BY DEF Restart
<1>3. Sound(w) /\ w.conf = {}
  <2>1. /\ DOMAIN w = DOMAIN World /\ w.client = NewClient /\ w.net = {} /\ w.conf = {}
        /\ w.file = file /\ w.grant = grant
    BY WorldIs
  <2> HIDE DEF w
  <2> QED  BY <1>1, <2>1, NewClientSound
<1> HIDE DEF w
<1>4. Good(Started(w))
  BY <1>3, StartedRuns DEF Good
<1> QED  BY <1>2, <1>4, BecomesGood

LEMMA ReleaseGood ==
    ASSUME Settings, Dhc6Inv, Release
    PROVE  Dhc6Inv'
<1> DEFINE w == [World EXCEPT !.client = NewClient, !.net = {}]
<1>1. Sound(World)
  BY DEF Dhc6Inv, Good, Running, Over
<1>2. PICK u \in start_release6(w) : Becomes(u)
  BY DEF Release
<1>3. /\ DOMAIN w = DOMAIN World /\ w.client = NewClient /\ w.net = {} /\ w.conf = conf
      /\ w.file = file /\ w.grant = grant
  BY WorldIs
<1> HIDE DEF w
<1>4. Sound(w) /\ w.client.active = w.file.lease
  BY <1>1, <1>3, NewClientSound
<1>5. AllGood(start_release6(w))
  BY <1>4, StartReleaseGood
<1> QED  BY <1>2, <1>5, BecomesGood DEF AllGood

LEMMA InitIsGood ==
    ASSUME Settings, Init
    PROVE  Dhc6Inv
<1> DEFINE N == [NewClient EXCEPT !.active = None]
           w == [client |-> N, net |-> net, conf |-> conf, file |-> file, grant |-> grant]
<1>1. /\ file = [lease |-> None, released |-> FALSE] /\ net = {} /\ conf = {}
      /\ grant = [k \in Wanted |-> [s \in Servers |-> -MaxDelay]]
      /\ client = Started(w).client
  BY DEF Init
<1>2. /\ DOMAIN N = {"state", "handler", "active", "selected", "advertised", "timer",
                     "txcount", "age", "mrc", "mrd", "next_MRD", "refresh"}
      /\ N.active = None /\ N.selected = None /\ N.advertised = {}
      /\ N.timer = [f \in Timeouts |-> Off]
  BY DEF NewClient
<1> HIDE DEF N
<1>3. /\ DOMAIN w = {"client", "net", "conf", "file", "grant"} /\ w.client = N
      /\ w.net = {} /\ w.conf = {} /\ w.file = file /\ w.grant = grant
      /\ file.lease = None /\ DOMAIN file = {"lease", "released"}
  BY Zenon, <1>1
<1> HIDE DEF w
<1>4. Shape(w)
  BY <1>2, <1>3 DEF Shape, Timeouts, Settings
<1>5. Advertised({}) /\ UnderWay({}, grant) /\ Held(None, grant)
  BY FS_EmptySet DEF Advertised, UnderWay, Held
<1>6. Granted(grant)
  BY <1>1 DEF Granted, Settings
<1>7. Sound(w) /\ Covered(w) /\ Timed(w)
  <2>1. Sound(w)
    BY <1>2, <1>3, <1>4, <1>5, <1>6 DEF Sound
  <2> QED  BY <1>3, <2>1 DEF Covered, Timed
<1>8. Running(Started(w)) /\ Same(Started(w), w)
  BY Zenon, <1>2, <1>3, <1>7, StartInit, StartInfoRequest DEF Started
<1> DEFINE u == Started(w)
<1> HIDE DEF u
<1>9. Running(u) /\ Same(u, w) /\ client = u.client
  BY <1>1, <1>8 DEF u
<1>10. Same(World, u) /\ SameTimer(World, u) /\ World.client.state = u.client.state
  <2>1. Shape(World)
    BY <1>3, <1>9, WorldIs DEF Same, Shape
  <2> QED  BY <1>1, <1>3, <1>9, <2>1, WorldIs DEF Same, SameTimer
<1>11. u.client.state \notin {"EXIT", "FATAL"}
  BY <1>9 DEF Running, Alive
<1>12. Running(World)
  BY <1>9, <1>10, <1>11, RunningSame
<1> QED  BY <1>12 DEF Dhc6Inv, Good

(* What is configured is leased, or do_expire() is due.                    *)
LEMMA InvHonours ==
    ASSUME Settings, Dhc6Inv
    PROVE  LeaseHonoured6
<1> SUFFICES ASSUME client.state \notin {"EXIT", "FATAL"},
                    NEW k \in Wanted, NEW s \in Servers, <<k, s>> \in conf,
                    ~ (client.timer["do_expire"] <= 0)
             PROVE  grant[k][s] > -MaxDelay
  BY DEF LeaseHonoured6
<1>1. Running(World)
  BY WorldIs DEF Dhc6Inv, Good, Over, Alive
<1>2. client.active # None /\ <<k, s>> \in Names(Live(client.active.addrs))
  BY <1>1, WorldIs DEF Running, Covered
<1>3. PICK a \in Live(client.active.addrs) : a.kind = k /\ a.srv = s
  BY <1>2 DEF Names
<1>4. client.timer["do_expire"] <= a.valid /\ client.timer["do_expire"] \in Int
  BY Zenon, <1>1, <1>2, <1>3, WorldIs DEF Running, Timed, Sound, Shape
<1>5. a.valid <= grant[k][s] + MaxDelay /\ a.valid \in Int
  BY Zenon, <1>1, <1>2, <1>3, WorldIs DEF Running, Sound, Held, Live, Leases, Addresses
<1>6. grant[k][s] \in Int /\ MaxDelay \in Nat
  <2>1. Granted(grant)
    BY Zenon, <1>1, WorldIs DEF Running, Sound
  <2>2. grant[k][s] \in Int
    BY <2>1 DEF Granted
  <2> QED  BY <2>2 DEF Settings
<1> QED  BY <1>4, <1>5, <1>6

(***************************************************************************)
(* The invariant: through every timeout, packet, second, restart and       *)
(* release of the client in client/dhc6.c.                                 *)
(***************************************************************************)
THEOREM AddressesCovered ==
    ASSUME Settings
    PROVE  Spec => []Dhc6Inv
<1>1. Init => Dhc6Inv
  BY InitIsGood
<1>2. Dhc6Inv /\ [Next]_vars => Dhc6Inv'
  <2> SUFFICES ASSUME Dhc6Inv, [Next]_vars PROVE Dhc6Inv'
    OBVIOUS
  <2>1. CASE Fire
    BY <2>1, FireGood
  <2>2. CASE Receive
    BY <2>2, ReceiveGood
  <2>3. CASE Tick
    BY <2>3, TickGood
  <2>4. CASE Restart
    BY <2>4, RestartGood
  <2>5. CASE Release
    BY <2>5, ReleaseGood
  <2>6. CASE Calm \/ UNCHANGED vars
    <3>1. World' = World
      BY <2>6 DEF Calm, vars, World
    <3> QED  BY <3>1 DEF Dhc6Inv
  <2> QED  BY <2>1, <2>2, <2>3, <2>4, <2>5, <2>6 DEF Next
<1> QED  BY <1>1, <1>2, PTL DEF Spec

(***************************************************************************)
(* While dhclient -6 runs, an address or prefix that its script configured *)
(* is still leased to it by the server that granted it, late replies       *)
(* allowed for, or do_expire(), which removes it, is due.                  *)
(***************************************************************************)
THEOREM AddressesHonoured ==
    ASSUME Settings
    PROVE  Spec => []LeaseHonoured6
<1>1. Dhc6Inv => LeaseHonoured6
  BY InvHonours
<1> QED  BY <1>1, AddressesCovered, PTL

=============================================================================
