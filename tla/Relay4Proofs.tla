---------------------------- MODULE Relay4Proofs ----------------------------
(***************************************************************************)
(* The replies of relay/dhcrelay.c come home, for any relays, interfaces   *)
(* and servers, in any of the four modes, and however relays forward to    *)
(* each other.  The relay that a request reaches first is the one that its *)
(* giaddr names, and the only one that reply is sent to.                   *)
(***************************************************************************)
EXTENDS Relay4, SequenceTheorems, TLAPS

(* What a message that has passed a relay says of the link it came from.   *)
KnowsHome(p) ==
    /\ p.giaddr[1] = p.link[1]
    /\ p.by \subseteq {p.link[1]} =>
          \/ p.cids = <<>> /\ p.giaddr = p.link
          \/ p.cids = <<p.link[2]>> /\ p.link[1] \in AddOptions /\ p.dhcp

(* A message under way: a request that has passed no relay is on its link, *)
(* and a reply is on its way to the relay that giaddr names.               *)
OnItsWay(m) ==
    /\ m.msg \in Message
    /\ m.msg.giaddr = NoAddr =>
          m.msg.op = "BOOTREQUEST" /\ m.to = m.msg.link /\ m.msg.cids = <<>> /\ m.msg.by = {}
    /\ m.msg.giaddr # NoAddr => KnowsHome(m.msg)
    /\ m.msg.op = "BOOTREPLY" => m.to[1] = m.msg.giaddr[1]

(* The inductive invariant.                                                *)
RelayInv ==
    /\ \A m \in net : OnItsWay(m)
    /\ OwnOptionComesHome /\ OptionStaysInside

-----------------------------------------------------------------------------
LEMMA Addresses ==
    ASSUME Configured, NEW i \in Interfaces
    PROVE  /\ i # NoAddr /\ i[1] \in Relays /\ i[2] \in Names /\ i = <<i[1], i[2]>>
           /\ <<i[1], Arrival[i[1]]>> \in Interfaces
           /\ <<i[1], Arrival[i[1]]>>[1] = i[1]
BY DEF Configured, Interfaces, NoAddr

LEMMA Fields ==
    ASSUME Configured, NEW i \in Interfaces, NEW p \in Message
    PROVE  /\ Append(p.cids, i[2]) \in Seq(Names)
           /\ p.by \union {i[1]} \in SUBSET Relays
           /\ <<>> \in Seq(Names)
<1>1. i[1] \in Relays /\ i[2] \in Names
  BY Zenon, Addresses
<1>2. p.cids \in Seq(Names) /\ p.by \in SUBSET Relays
  BY DEF Message
<1>3. Append(p.cids, i[2]) \in Seq(Names)
  BY <1>1, <1>2, AppendProperties
<1>4. <<>> \in Seq(Names)
  OBVIOUS
<1> QED  BY <1>1, <1>2, <1>3, <1>4

LEMMA TaggedIs ==
    ASSUME Configured, NEW i \in Interfaces, NEW p \in Message, NEW room \in BOOLEAN
    PROVE  /\ Tagged(i, p, room) \in Message
           /\ Tagged(i, p, room).link = p.link /\ Tagged(i, p, room).op = p.op
           /\ Tagged(i, p, room).dhcp = p.dhcp
           /\ ~ room => Tagged(i, p, room) = p
           /\ room => /\ Tagged(i, p, room).cids = Append(p.cids, i[2])
                      /\ Tagged(i, p, room).by = p.by \union {i[1]}
                      /\ p.giaddr # NoAddr => Tagged(i, p, room).giaddr = p.giaddr
                      /\ p.giaddr = NoAddr => Tagged(i, p, room).giaddr \in {NoAddr, <<i[1], Arrival[i[1]]>>}
<1>1. CASE ~ room
  BY <1>1 DEF Tagged
<1>2. CASE room
  <2> DEFINE g == IF i[1] \in LinkSelect /\ p.giaddr = NoAddr THEN <<i[1], Arrival[i[1]]>> ELSE p.giaddr
  <2>1. Tagged(i, p, room) = [p EXCEPT !.cids = Append(p.cids, i[2]), !.by = p.by \union {i[1]}, !.giaddr = g]
    BY <1>2 DEF Tagged
  <2>2. Append(p.cids, i[2]) \in Seq(Names) /\ p.by \union {i[1]} \in SUBSET Relays
    BY Fields
  <2>3. g \in Interfaces \union {NoAddr}
    BY Addresses DEF Message
  <2> HIDE DEF g
  <2>4. /\ Tagged(i, p, room) \in Message /\ Tagged(i, p, room).link = p.link
        /\ Tagged(i, p, room).op = p.op /\ Tagged(i, p, room).dhcp = p.dhcp
        /\ Tagged(i, p, room).cids = Append(p.cids, i[2])
        /\ Tagged(i, p, room).by = p.by \union {i[1]} /\ Tagged(i, p, room).giaddr = g
    BY Zenon, <2>1, <2>2, <2>3 DEF Message
  <2> QED  BY Zenon, <1>2, <2>4 DEF g
<1> QED  BY <1>1, <1>2

(* The relay on the client's link: it names itself in giaddr, and in the   *)
(* option if it adds one.                                                  *)
LEMMA FirstRelay ==
    ASSUME Configured, NEW i \in Interfaces, NEW p \in Message, NEW room \in BOOLEAN,
           p.giaddr = NoAddr, p.link = i, p.cids = <<>>, p.by = {},
           NEW q \in add_relay_agent_options(i, p, room)
    PROVE  /\ Gateway(i, q) \in Message /\ Gateway(i, q).giaddr # NoAddr
           /\ KnowsHome(Gateway(i, q)) /\ Gateway(i, q).op = p.op
<1>1. \/ q = p
      \/ q = Tagged(i, p, room) /\ i[1] \in AddOptions /\ p.dhcp
  BY DEF add_relay_agent_options
<1>2. /\ q \in Message /\ q.link = i /\ q.op = p.op /\ q.dhcp = p.dhcp
      /\ q.giaddr \in {NoAddr, <<i[1], Arrival[i[1]]>>}
      /\ \/ q.cids = <<>> /\ q.giaddr = NoAddr
         \/ q.cids = <<i[2]>> /\ i[1] \in AddOptions /\ q.dhcp
  <2>1. Append(<<>>, i[2]) = <<i[2]>>
    OBVIOUS
  <2> QED  BY <1>1, <2>1, TaggedIs
<1> DEFINE g == IF q.giaddr = NoAddr THEN i ELSE q.giaddr
<1>3. Gateway(i, q) = [q EXCEPT !.giaddr = g]
  BY DEF Gateway
<1>4. g \in Interfaces /\ g # NoAddr /\ g[1] = i[1] /\ (q.giaddr = NoAddr => g = i)
  <2> DEFINE a == <<i[1], Arrival[i[1]]>>
  <2>1. i # NoAddr /\ a \in Interfaces /\ a[1] = i[1]
    BY Addresses
  <2>2. q.giaddr = NoAddr \/ q.giaddr = a
    BY <1>2
  <2> HIDE DEF a
  <2>3. a # NoAddr
    BY Zenon, <2>1, Addresses
  <2> QED  BY <2>1, <2>2, <2>3
<1> HIDE DEF g
<1>5. /\ Gateway(i, q) \in Message /\ Gateway(i, q).giaddr = g /\ Gateway(i, q).link = i
      /\ Gateway(i, q).op = p.op /\ Gateway(i, q).cids = q.cids /\ Gateway(i, q).dhcp = q.dhcp
  BY <1>2, <1>3, <1>4 DEF Message
<1> QED  BY <1>2, <1>4, <1>5 DEF KnowsHome

(* A relay further up: what it does to the option it signs.                *)
LEMMA FurtherRelay ==
    ASSUME Configured, NEW i \in Interfaces, NEW p \in Message, NEW room \in BOOLEAN,
           p.giaddr # NoAddr, KnowsHome(p), p.giaddr[1] # i[1],
           NEW q \in add_relay_agent_options(i, p, room)
    PROVE  /\ Gateway(i, q) \in Message /\ Gateway(i, q).giaddr # NoAddr
           /\ KnowsHome(Gateway(i, q)) /\ Gateway(i, q).op = p.op
<1> DEFINE e == [p EXCEPT !.cids = <<>>, !.by = p.by \union {i[1]}]
<1>1. e \in Message /\ e.giaddr = p.giaddr /\ e.link = p.link /\ e.op = p.op /\ i[1] \in e.by
  <2>1. <<>> \in Seq(Names) /\ p.by \union {i[1]} \in SUBSET Relays
    BY Fields
  <2> QED  BY Zenon, <2>1 DEF Message
<1>2. \/ q = p
      \/ q = Tagged(i, p, room)
      \/ q = Tagged(i, e, room)
  BY DEF add_relay_agent_options
<1> HIDE DEF e
<1>3. /\ q \in Message /\ q.giaddr = p.giaddr /\ q.link = p.link /\ q.op = p.op
      /\ q = p \/ i[1] \in q.by
  BY <1>1, <1>2, TaggedIs
<1>4. Gateway(i, q) = [q EXCEPT !.giaddr = q.giaddr]
  BY <1>3 DEF Gateway
<1>5. Gateway(i, q) = q
  BY <1>3, <1>4 DEF Message
<1>6. i[1] # p.link[1]
  BY DEF KnowsHome
<1> QED  BY <1>3, <1>5, <1>6 DEF KnowsHome

(* do_relay4() on a request, and on a reply.                               *)
LEMMA RequestStep ==
    ASSUME Configured, NEW m, OnItsWay(m), m.msg.op = "BOOTREQUEST", NEW room \in BOOLEAN, NEW x,
           NEW q \in relay_request(m.to, m.msg, room)
    PROVE  OnItsWay([to |-> x, msg |-> q])
<1> DEFINE i == m.to
<1>1. i \in Interfaces /\ OutFor(i[1], m.msg.giaddr) = NoAddr
  BY DEF Configured, relay_request, Interfaces
<1>2. PICK o \in add_relay_agent_options(i, m.msg, room) : q \in Hop(Gateway(i, o))
  BY DEF relay_request
<1> DEFINE p == Gateway(i, o)
<1>3. p \in Message /\ p.giaddr # NoAddr /\ KnowsHome(p) /\ p.op = "BOOTREQUEST"
  <2>1. CASE m.msg.giaddr = NoAddr
    BY <1>1, <2>1, FirstRelay DEF OnItsWay
  <2>2. CASE m.msg.giaddr # NoAddr
    BY <1>1, <2>2, FurtherRelay DEF OnItsWay, OutFor
  <2> QED  BY <2>1, <2>2
<1> HIDE DEF p, i
<1>4. q = [p EXCEPT !.hops = p.hops + 1] /\ p.hops < max_hop_count
  BY <1>2 DEF Hop, p
<1>5. p.hops + 1 \in 0..max_hop_count
  BY <1>3, <1>4 DEF Configured, Message
<1>6. /\ q \in Message /\ q.giaddr = p.giaddr /\ q.link = p.link /\ q.cids = p.cids
      /\ q.by = p.by /\ q.dhcp = p.dhcp /\ q.op = p.op
  BY <1>3, <1>4, <1>5 DEF Message
<1> DEFINE n == [to |-> x, msg |-> q]
<1>7. n.msg = q
  OBVIOUS
<1> HIDE DEF n
<1>8. OnItsWay(n)
  BY <1>3, <1>6, <1>7 DEF OnItsWay, KnowsHome
<1> QED  BY <1>8 DEF n

LEMMA ReplyStep ==
    ASSUME Configured, NEW m, OnItsWay(m), m.msg.op = "BOOTREPLY", NEW x \in relay_reply(m.to, m.msg)
    PROVE  /\ x[2].by \subseteq {x[1][1]} => x[1] = x[2].link
           /\ x[1][1] \in AddOptions /\ x[2].dhcp => x[2].cids = <<>>
<1> DEFINE r == m.to[1]
           p == m.msg
           found == find_interface_by_agent_option(r, p.cids)
           out == OutFor(r, p.giaddr)
<1>1. /\ p \in Message /\ p.giaddr # NoAddr /\ KnowsHome(p) /\ r = p.giaddr[1] /\ r = p.link[1]
      /\ p.link \in Interfaces
  BY DEF OnItsWay, KnowsHome, Message
<1>2. p.link = <<r, p.link[2]>> /\ p.link # NoAddr /\ p.link[2] \in Names
  BY Zenon, <1>1, Addresses
<1>3. out = p.giaddr
  BY <1>1 DEF OutFor
<1>4. found = NoAddr \/ found[1] = r
  BY DEF find_interface_by_agent_option
<1>5. p.by \subseteq {r} =>
        \/ p.cids = <<>> /\ found = NoAddr /\ out = p.link
        \/ found = p.link /\ r \in AddOptions /\ p.dhcp
  <2>1. p.cids = <<>> => found = NoAddr
    BY DEF find_interface_by_agent_option
  <2>2. p.cids = <<p.link[2]>> => found = p.link
    <3> SUFFICES ASSUME p.cids = <<p.link[2]>> PROVE found = p.link
      OBVIOUS
    <3>1. p.cids # <<>> /\ p.cids[Len(p.cids)] = p.link[2]
      OBVIOUS
    <3> QED  BY <1>2, <3>1 DEF find_interface_by_agent_option
  <2> QED  BY <1>1, <1>3, <2>1, <2>2 DEF KnowsHome
<1>6. x \in strip_relay_agent_options(r, out, p) /\ x[1] # NoAddr
  BY DEF relay_reply
<1> HIDE DEF r, p, found, out
<1>7. \/ x = <<out, p>> /\ (r \notin AddOptions \/ ~ p.dhcp)
      \/ /\ x = <<IF found = NoAddr THEN out ELSE found, [p EXCEPT !.cids = <<>>]>>
         /\ r \in AddOptions /\ p.dhcp
  BY <1>6 DEF strip_relay_agent_options, found
<1>8. CASE x = <<out, p>> /\ (r \notin AddOptions \/ ~ p.dhcp)
  <2>1. x[1] = out /\ x[2] = p
    BY <1>8
  <2> QED  BY Zenon, <1>1, <1>3, <1>5, <1>8, <2>1
<1>9. CASE /\ x = <<IF found = NoAddr THEN out ELSE found, [p EXCEPT !.cids = <<>>]>>
           /\ r \in AddOptions /\ p.dhcp
  <2>1. x[1] = (IF found = NoAddr THEN out ELSE found) /\ x[2] = [p EXCEPT !.cids = <<>>]
    BY <1>9
  <2>2. x[2].by = p.by /\ x[2].link = p.link /\ x[2].cids = <<>>
    BY <1>1, <2>1 DEF Message
  <2>3. x[1][1] = r
    BY Zenon, <1>1, <1>3, <1>4, <2>1
  <2> QED  BY <1>2, <1>5, <2>1, <2>2, <2>3
<1> QED  BY <1>7, <1>8, <1>9

(***************************************************************************)
(* The actions.                                                            *)
(***************************************************************************)
LEMMA Sends ==
    ASSUME Configured, RelayInv, ClientSends
    PROVE  RelayInv'
<1>1. PICK i \in Downstream, d \in BOOLEAN :
        net' = net \union {[to |-> i, msg |-> [op |-> "BOOTREQUEST", dhcp |-> d, giaddr |-> NoAddr,
                                               hops |-> 0, cids |-> <<>>, link |-> i, by |-> {}]]}
  BY DEF ClientSends
<1> DEFINE p == [op |-> "BOOTREQUEST", dhcp |-> d, giaddr |-> NoAddr,
                 hops |-> 0, cids |-> <<>>, link |-> i, by |-> {}]
           n == [to |-> i, msg |-> p]
<1>2. i \in Interfaces /\ 0 \in 0..max_hop_count /\ <<>> \in Seq(Names)
  BY DEF Configured, Interfaces
<1>3. p \in Message
  BY <1>2 DEF Message
<1>4. p.giaddr = NoAddr /\ p.op = "BOOTREQUEST" /\ p.link = i /\ p.cids = <<>> /\ p.by = {}
  OBVIOUS
<1> HIDE DEF p
<1>5. n.to = i /\ n.msg = p
  OBVIOUS
<1> HIDE DEF n
<1>6. OnItsWay(n)
  BY <1>3, <1>4, <1>5 DEF OnItsWay
<1>7. seen' = seen /\ net' = net \union {n}
  BY <1>1 DEF ClientSends, n, p
<1> QED  BY <1>6, <1>7 DEF RelayInv, OwnOptionComesHome, OptionStaysInside

LEMMA Relays4 ==
    ASSUME Configured, RelayInv, do_relay4
    PROVE  RelayInv'
<1>1. PICK m \in net, room \in BOOLEAN :
        IF m.msg.op = "BOOTREPLY"
        THEN /\ net' = net \ {m}
             /\ seen' = seen \union {[on |-> x[1], msg |-> x[2]] : x \in relay_reply(m.to, m.msg)}
        ELSE /\ net' = (net \ {m}) \union
                           {[to |-> Target(s), msg |-> q] :
                               s \in Servers[m.to[1]], q \in relay_request(m.to, m.msg, room)}
             /\ seen' = seen
  BY DEF do_relay4
<1>2. OnItsWay(m)
  BY DEF RelayInv
<1>3. CASE m.msg.op = "BOOTREPLY"
  <2>1. \A n \in net' : OnItsWay(n)
    BY <1>1, <1>3 DEF RelayInv
  <2>2. ASSUME NEW y \in seen'
        PROVE  /\ y.msg.by \subseteq {y.on[1]} => y.on = y.msg.link
               /\ y.on[1] \in AddOptions /\ y.msg.dhcp => y.msg.cids = <<>>
    <3>1. CASE y \in seen
      BY <3>1 DEF RelayInv, OwnOptionComesHome, OptionStaysInside
    <3>2. CASE y \notin seen
      <4>1. PICK x \in relay_reply(m.to, m.msg) : y = [on |-> x[1], msg |-> x[2]]
        BY <1>1, <1>3, <2>2, <3>2
      <4>2. y.on = x[1] /\ y.msg = x[2]
        BY <4>1
      <4> QED  BY <1>2, <1>3, <4>2, ReplyStep
    <3> QED  BY <3>1, <3>2
  <2> QED  BY <2>1, <2>2 DEF RelayInv, OwnOptionComesHome, OptionStaysInside
<1>4. CASE m.msg.op # "BOOTREPLY"
  <2>1. m.msg.op = "BOOTREQUEST"
    BY <1>2, <1>4 DEF OnItsWay, Message
  <2>2. ASSUME NEW n \in net' PROVE OnItsWay(n)
    <3>1. CASE n \in net
      BY <3>1 DEF RelayInv
    <3>2. CASE n \notin net
      <4>1. PICK s \in Servers[m.to[1]], q \in relay_request(m.to, m.msg, room) :
              n = [to |-> Target(s), msg |-> q]
        BY <1>1, <1>4, <2>2, <3>2
      <4> QED  BY <1>2, <2>1, <4>1, RequestStep
    <3> QED  BY <3>1, <3>2
  <2>3. seen' = seen
    BY <1>1, <1>4
  <2> QED  BY <2>2, <2>3 DEF RelayInv, OwnOptionComesHome, OptionStaysInside
<1> QED  BY <1>3, <1>4

LEMMA Answers ==
    ASSUME Configured, RelayInv, ServerAnswers
    PROVE  RelayInv'
<1>1. PICK m \in net :
        /\ m.msg.giaddr # NoAddr
        /\ net' = (net \ {m}) \union {[to |-> <<m.msg.giaddr[1], Arrival[m.msg.giaddr[1]]>>,
                                       msg |-> [m.msg EXCEPT !.op = "BOOTREPLY", !.hops = 0]]}
        /\ seen' = seen
  BY Zenon DEF ServerAnswers
<1>2. m.msg \in Message /\ KnowsHome(m.msg)
  BY <1>1 DEF RelayInv, OnItsWay
<1> DEFINE p == [m.msg EXCEPT !.op = "BOOTREPLY", !.hops = 0]
           t == <<m.msg.giaddr[1], Arrival[m.msg.giaddr[1]]>>
           n == [to |-> t, msg |-> p]
<1>3. 0 \in 0..max_hop_count
  BY DEF Configured
<1>4. /\ p \in Message /\ p.giaddr = m.msg.giaddr /\ p.link = m.msg.link /\ p.cids = m.msg.cids
      /\ p.by = m.msg.by /\ p.dhcp = m.msg.dhcp
  BY Zenon, <1>2, <1>3 DEF Message
<1>5. t[1] = m.msg.giaddr[1]
  OBVIOUS
<1>6. net' = (net \ {m}) \union {n}
  BY <1>1
<1> HIDE DEF p, t
<1>7. n.to = t /\ n.msg = p
  OBVIOUS
<1> HIDE DEF n
<1>8. OnItsWay(n)
  BY <1>1, <1>2, <1>4, <1>5, <1>7 DEF OnItsWay, KnowsHome
<1> QED  BY <1>1, <1>6, <1>8 DEF RelayInv, OwnOptionComesHome, OptionStaysInside

LEMMA RelaysKeep ==
    ASSUME Configured, RelayInv, [Next]_vars
    PROVE  RelayInv'
<1>1. CASE Lose
  BY <1>1 DEF Lose, RelayInv, OwnOptionComesHome, OptionStaysInside
<1>2. CASE UNCHANGED vars
  BY <1>2 DEF vars, RelayInv, OwnOptionComesHome, OptionStaysInside
<1> QED  BY <1>1, <1>2, Sends, Relays4, Answers DEF Next

(***************************************************************************)
(* However many relays a request passes, its reply leaves by the interface *)
(* it came in on unless a relay behind the first changed the option, and   *)
(* no relay that adds options lets one out to a client.                    *)
(***************************************************************************)
THEOREM RepliesFindHome ==
    ASSUME Configured
    PROVE  Spec => [](OwnOptionComesHome /\ OptionStaysInside)
<1>1. Init => RelayInv
  BY DEF Init, RelayInv, OwnOptionComesHome, OptionStaysInside
<1>2. RelayInv => OwnOptionComesHome /\ OptionStaysInside
  BY DEF RelayInv
<1>3. RelayInv /\ [Next]_vars => RelayInv'
  BY RelaysKeep
<1> QED  BY <1>1, <1>2, <1>3, PTL DEF Spec

=============================================================================
