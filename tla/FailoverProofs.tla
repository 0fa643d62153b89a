--------------------------- MODULE FailoverProofs ---------------------------
(***************************************************************************)
(* Theorems about FailoverState for any number of faults and any           *)
(* configuration: type correctness, what a server knows of its partner     *)
(* once it has read its mail, and the timeout of the recovery.             *)
(***************************************************************************)
EXTENDS FailoverState, TLAPS

-----------------------------------------------------------------------------
(***************************************************************************)
(* What the operations on one server return.                               *)
(***************************************************************************)

Results == [r : Server, out : Seq(Message), wrote : BOOLEAN]

(* The state a server reports is one of the protocol's: "startup" is only  *)
(* its own.                                                                *)
LEMMA EffectiveType ==
    ASSUME NEW r \in Server
    PROVE  Effective(r) \in States
BY DEF Effective, Server

LEMMA SendStateType ==
    ASSUME NEW r \in Server
    PROVE  /\ send_state(r) \in Message
           /\ send_state(r).type = "state"
           /\ send_state(r).state = Effective(r)
BY EffectiveType DEF send_state, Message

LEMMA MovedType ==
    ASSUME NEW r \in Server, NEW new \in States \cup {"startup"}, NEW d \in BOOLEAN
    PROVE  /\ Moved(r, new, d) \in Server
           /\ Moved(r, new, d).state = new
           /\ Moved(r, new, d).partner = r.partner
           /\ Moved(r, new, d).link = r.link
           /\ new # "startup" => Moved(r, new, d).saved_state = r.saved_state
<1>1. AutoPartnerDown \in BOOLEAN
  BY FailoverAssumption
<1> DEFINE saved == IF new = "startup" /\ r.state # "startup" THEN r.state
                                                             ELSE r.saved_state
           old == \/ r.old /\ (new \in {"recover_wait", "startup"} \/ r.state = "startup")
                  \/ /\ new = "recover" /\ r.state = "shut_down"
                     /\ r.partner = "partner_down" /\ d
           start == new = "startup" \/ (r.startup_timeout /\ r.state # "startup")
           auto == AutoPartnerDown /\ new = "communications_interrupted"
           rec == r.recover_timeout \/ (new = "recover_wait" /\ ~ r.old)
<1>2. saved \in States /\ (new # "startup" => saved = r.saved_state)
  BY DEF Server
<1>3. old \in BOOLEAN /\ start \in BOOLEAN /\ auto \in BOOLEAN /\ rec \in BOOLEAN
  OBVIOUS
<1>4. Moved(r, new, d) =
        [r EXCEPT !.state = new, !.saved_state = saved, !.old = old,
                  !.startup_timeout = start, !.auto_timeout = auto, !.recover_timeout = rec]
  BY DEF Moved
<1> HIDE DEF saved, old, start, auto, rec
<1> QED
  BY ZenonT(30), <1>2, <1>3, <1>4 DEF Server

LEMMA MessagesType ==
    ASSUME NEW s \in Servers, NEW r \in Server, NEW new
    PROVE  Messages(s, r, new) \in Seq(Message)
<1>1. UPDREQ \in Message
  BY DEF UPDREQ, Message
<1>2. send_state(r) \in Message
  BY SendStateType
<1> QED
  BY <1>1, <1>2 DEF Messages

LEMMA SetStateType ==
    ASSUME NEW s \in Servers, NEW r \in Server, NEW new \in States \cup {"startup"},
           NEW ok \in BOOLEAN
    PROVE  set_state(s, r, new, ok) \in Results
<1> DEFINE m == Moved(r, new, FALSE)
           n == Moved(m, "recover_done", FALSE)
<1>1. m \in Server
  BY Zenon, MovedType
<1>2. n \in Server
  <2> HIDE DEF m
  <2> QED BY Zenon, <1>1, MovedType DEF States
<1>3. [r EXCEPT !.saved_state = m.saved_state] \in Server
  BY Zenon, <1>1 DEF Server
<1>4. /\ Messages(s, m, new) \in Seq(Message)
      /\ Messages(s, n, "recover_done") \in Seq(Message)
  BY Zenon, <1>1, <1>2, MessagesType
<1>5. set_state(s, r, new, ok) =
        CASE ~ ok -> Nothing([r EXCEPT !.saved_state = m.saved_state])
          [] ok /\ new = "recover_wait" /\ m.old ->
                 Result(n, Messages(s, m, new) \o Messages(s, n, "recover_done"), TRUE)
          [] OTHER -> Result(m, Messages(s, m, new), TRUE)
  BY DEF set_state
<1> HIDE DEF m, n
<1>6. /\ Messages(s, m, new) \o Messages(s, n, "recover_done") \in Seq(Message)
      /\ << >> \in Seq(Message)
  BY <1>4
<1>7. CASE ~ ok
  BY <1>3, <1>5, <1>6, <1>7 DEF Nothing, Result, Results
<1>8. CASE ok /\ new = "recover_wait" /\ m.old
  BY <1>2, <1>5, <1>6, <1>8 DEF Result, Results
<1>9. CASE ok /\ ~ (new = "recover_wait" /\ m.old)
  BY <1>1, <1>4, <1>5, <1>9 DEF Result, Results
<1> QED
  BY <1>7, <1>8, <1>9

(* What a server moves to on its partner's news.                           *)
LEMMA ReactionType ==
    ASSUME NEW r \in Server, NEW new \in States, NEW b \in BOOLEAN
    PROVE  Reaction(r, new, b) \in States \cup {"stay", "log_fatal"}
<1>1. {"recover", "potential_conflict", "shut_down", "partner_down", "normal",
       "communications_interrupted"} \subseteq States
  BY DEF States
<1> QED
  BY <1>1 DEF Reaction

-----------------------------------------------------------------------------
(***************************************************************************)
(* What a server that believes its partner to be in state w believes after *)
(* reading the messages c.                                                 *)
(***************************************************************************)
Tells(c, w, v) ==
    \/ w = v /\ \A i \in DOMAIN c : c[i].type # "state"
    \/ \E i \in DOMAIN c : /\ c[i].type = "state" /\ c[i].state = v
                           /\ \A j \in DOMAIN c : j > i => c[j].type # "state"

LEMMA TellsNothing ==
    ASSUME NEW w
    PROVE  Tells(<< >>, w, w)
BY DEF Tells

LEMMA TellsRequest ==
    ASSUME NEW w
    PROVE  /\ Tells(<<UPDREQ>>, w, w)
           /\ Tells(<<UPDDONE>>, w, w)
BY DEF Tells, UPDREQ, UPDDONE

(* Messages sent after others.                                             *)
LEMMA TellsMore ==
    ASSUME NEW c \in Seq(Message), NEW d \in Seq(Message),
           NEW u, NEW v, NEW w, Tells(c, w, v), Tells(d, v, u)
    PROVE  Tells(c \o d, w, u)
<1> DEFINE e == c \o d
<1>1. /\ Len(c) \in Nat /\ Len(d) \in Nat /\ Len(e) = Len(c) + Len(d)
      /\ DOMAIN c = 1 .. Len(c) /\ DOMAIN d = 1 .. Len(d) /\ DOMAIN e = 1 .. Len(e)
      /\ \A i \in 1 .. Len(c) : e[i] = c[i]
      /\ \A i \in 1 .. Len(d) : e[Len(c) + i] = d[i]
  OBVIOUS
<1>2. \A i \in DOMAIN e : i > Len(c) => i - Len(c) \in DOMAIN d /\ e[i] = d[i - Len(c)]
  BY <1>1
<1> HIDE DEF e
<1>3. CASE \E i \in DOMAIN d : /\ d[i].type = "state" /\ d[i].state = u
                              /\ \A j \in DOMAIN d : j > i => d[j].type # "state"
  <2>1. PICK i \in DOMAIN d : /\ d[i].type = "state" /\ d[i].state = u
                              /\ \A j \in DOMAIN d : j > i => d[j].type # "state"
    BY <1>3
  <2>2. Len(c) + i \in DOMAIN e /\ e[Len(c) + i] = d[i]
    BY <1>1, <2>1
  <2>3. \A j \in DOMAIN e : j > Len(c) + i => e[j].type # "state"
    BY <1>1, <1>2, <2>1
  <2> QED
    BY <2>1, <2>2, <2>3 DEF Tells, e
<1>4. CASE v = u /\ \A i \in DOMAIN d : d[i].type # "state"
  <2>1. \A j \in DOMAIN e : j > Len(c) => e[j].type # "state"
    BY <1>2, <1>4
  <2>2. CASE w = v /\ \A i \in DOMAIN c : c[i].type # "state"
    <3>1. \A j \in DOMAIN e : e[j].type # "state"
      BY <1>1, <2>1, <2>2
    <3> QED
      BY <1>4, <2>2, <3>1 DEF Tells, e
  <2>3. CASE \E i \in DOMAIN c : /\ c[i].type = "state" /\ c[i].state = v
                                /\ \A j \in DOMAIN c : j > i => c[j].type # "state"
    <3>1. PICK i \in DOMAIN c : /\ c[i].type = "state" /\ c[i].state = v
                                /\ \A j \in DOMAIN c : j > i => c[j].type # "state"
      BY <2>3
    <3>2. i \in DOMAIN e /\ e[i] = c[i]
      BY <1>1, <3>1
    <3>3. \A j \in DOMAIN e : j > i => e[j].type # "state"
      BY <1>1, <2>1, <3>1
    <3> QED
      BY <1>4, <3>1, <3>2, <3>3 DEF Tells, e
  <2> QED
    BY <2>2, <2>3 DEF Tells
<1> QED
  BY <1>3, <1>4 DEF Tells

(* One message read.                                                       *)
LEMMA TellsRest ==
    ASSUME NEW c \in Seq(Message), c # << >>, NEW v, NEW w, Tells(c, w, v)
    PROVE  Tells(Tail(c), IF Head(c).type = "state" THEN Head(c).state ELSE w, v)
<1> DEFINE t == Tail(c)
<1>1. /\ Len(c) \in Nat \ {0} /\ DOMAIN c = 1 .. Len(c) /\ DOMAIN t = 1 .. (Len(c) - 1)
      /\ \A i \in 1 .. (Len(c) - 1) : t[i] = c[i + 1]
      /\ Head(c) = c[1]
  OBVIOUS
<1> HIDE DEF t
<1>2. CASE w = v /\ \A i \in DOMAIN c : c[i].type # "state"
  <2>1. \A i \in DOMAIN t : t[i].type # "state"
    BY <1>1, <1>2
  <2>2. Head(c).type # "state"
    BY <1>1, <1>2
  <2> QED
    BY <1>2, <2>1, <2>2 DEF Tells, t
<1>3. CASE \E i \in DOMAIN c : /\ c[i].type = "state" /\ c[i].state = v
                              /\ \A j \in DOMAIN c : j > i => c[j].type # "state"
  <2>1. PICK i \in DOMAIN c : /\ c[i].type = "state" /\ c[i].state = v
                              /\ \A j \in DOMAIN c : j > i => c[j].type # "state"
    BY <1>3
  <2>2. CASE i = 1
    <3>1. \A j \in DOMAIN t : t[j].type # "state"
      BY <1>1, <2>1, <2>2
    <3> QED
      BY <1>1, <2>1, <2>2, <3>1 DEF Tells, t
  <2>3. CASE i # 1
    <3>1. i - 1 \in DOMAIN t /\ t[i - 1] = c[i]
      BY <1>1, <2>1, <2>3
    <3>2. ASSUME NEW j \in DOMAIN t, j > i - 1
          PROVE  t[j].type # "state"
      <4>1. j + 1 \in DOMAIN c /\ j + 1 > i /\ t[j] = c[j + 1]
        BY <1>1, <2>1, <3>2
      <4> QED
        BY <2>1, <4>1
    <3> QED
      BY <2>1, <3>1, <3>2 DEF Tells, t
  <2> QED
    BY <2>2, <2>3
<1> QED
  BY <1>2, <1>3 DEF Tells

-----------------------------------------------------------------------------
(***************************************************************************)
(* A handler's result x, begun with r: it has a server's type, keeps the   *)
(* connection, and tells the partner the state it leaves the server in.    *)
(***************************************************************************)
Announced(x, r) ==
    /\ x \in Results
    /\ x.r.link = r.link
    /\ r.link => Tells(x.out, Effective(r), Effective(x.r))

LEMMA MessagesTell ==
    ASSUME NEW s \in Servers, NEW r \in Server, NEW new, NEW w, r.link
    PROVE  Tells(Messages(s, r, new), w, Effective(r))
<1> DEFINE c == <<send_state(r)>>
           d == IF \/ new = "recover"
                   \/ new = "potential_conflict" /\ (s = "primary" \/ r.partner = "conflict_done")
                THEN <<UPDREQ>> ELSE << >>
<1>1. c \in Seq(Message) /\ Tells(c, w, Effective(r))
  BY SendStateType DEF Tells
<1>2. d \in Seq(Message) /\ Tells(d, Effective(r), Effective(r))
  <2>1. <<UPDREQ>> \in Seq(Message) /\ << >> \in Seq(Message)
    BY DEF UPDREQ, Message
  <2> QED
    BY <2>1, TellsNothing, TellsRequest
<1>3. Messages(s, r, new) = c \o d
  BY DEF Messages
<1> HIDE DEF c, d
<1> QED
  BY <1>1, <1>2, <1>3, TellsMore

LEMMA SetStateTells ==
    ASSUME NEW s \in Servers, NEW r \in Server, NEW new \in States, NEW ok \in BOOLEAN
    PROVE  /\ Announced(set_state(s, r, new, ok), r)
           /\ set_state(s, r, new, ok).r.partner = r.partner
<1> DEFINE m == Moved(r, new, FALSE)
           n == Moved(m, "recover_done", FALSE)
           x == set_state(s, r, new, ok)
<1>1. new # "startup" /\ "recover_done" \in States /\ "startup" \notin States
  BY DEF States
<1>2. /\ m \in Server /\ m.state = new /\ m.partner = r.partner /\ m.link = r.link
      /\ m.saved_state = r.saved_state
  BY Zenon, <1>1, MovedType
<1>3. /\ n \in Server /\ n.state = "recover_done" /\ n.partner = m.partner /\ n.link = m.link
  <2> HIDE DEF m
  <2> QED BY Zenon, <1>1, <1>2, MovedType
<1>4. x \in Results
  BY SetStateType
<1>5. x = CASE ~ ok -> Nothing([r EXCEPT !.saved_state = m.saved_state])
            [] ok /\ new = "recover_wait" /\ m.old ->
                   Result(n, Messages(s, m, new) \o Messages(s, n, "recover_done"), TRUE)
            [] OTHER -> Result(m, Messages(s, m, new), TRUE)
  BY DEF set_state
<1> HIDE DEF m, n, x
<1>6. CASE ~ ok
  <2>1. x = Nothing(r)
    BY Zenon, <1>2, <1>5, <1>6 DEF Server
  <2>2. x.r = r /\ x.out = << >>
    BY <2>1 DEF Nothing, Result
  <2> QED
    BY <1>4, <2>2, TellsNothing DEF Announced, x
<1>7. CASE ok /\ new = "recover_wait" /\ m.old
  <2>1. x.r = n /\ x.out = Messages(s, m, new) \o Messages(s, n, "recover_done")
    BY <1>5, <1>7 DEF Result
  <2>2. ASSUME r.link
        PROVE  Tells(x.out, Effective(r), Effective(n))
    <3>1. /\ Tells(Messages(s, m, new), Effective(r), Effective(m))
          /\ Tells(Messages(s, n, "recover_done"), Effective(m), Effective(n))
      BY Zenon, <1>2, <1>3, <2>2, MessagesTell
    <3>2. /\ Messages(s, m, new) \in Seq(Message)
          /\ Messages(s, n, "recover_done") \in Seq(Message)
      BY <1>2, <1>3, MessagesType
    <3> QED
      BY <2>1, <3>1, <3>2, TellsMore
  <2> QED
    BY <1>2, <1>3, <1>4, <2>1, <2>2 DEF Announced, x
<1>8. CASE ok /\ ~ (new = "recover_wait" /\ m.old)
  <2>1. x.r = m /\ x.out = Messages(s, m, new)
    BY <1>5, <1>8 DEF Result
  <2>2. ASSUME r.link
        PROVE  Tells(x.out, Effective(r), Effective(m))
    BY Zenon, <1>2, <2>1, <2>2, MessagesTell
  <2> QED
    BY <1>2, <1>4, <2>1, <2>2 DEF Announced, x
<1> QED
  BY <1>6, <1>7, <1>8

(* A lost connection tells the partner nothing; the server has none then.  *)
LEMMA DisconnectType ==
    ASSUME NEW s \in Servers, NEW r \in Server, NEW ok \in BOOLEAN
    PROVE  /\ disconnect(s, r, ok) \in Results
           /\ ~ disconnect(s, r, ok).r.link
           /\ disconnect(s, r, ok).r.partner = r.partner
<1> DEFINE q == [r EXCEPT !.link = FALSE, !.startup_timeout = FALSE]
<1>1. q \in Server /\ ~ q.link /\ q.partner = r.partner
  BY Zenon DEF Server
<1> HIDE DEF q
<1>2. Effective(q) \in States
  BY <1>1, EffectiveType
<1>3. \A new \in States : /\ set_state(s, q, new, ok) \in Results
                         /\ set_state(s, q, new, ok).r.link = q.link
                         /\ set_state(s, q, new, ok).r.partner = q.partner
  BY <1>1, SetStateTells DEF Announced
<1>4. /\ Nothing(q) \in Results /\ Nothing(q).r = q
  BY <1>1 DEF Nothing, Result, Results
<1>5. /\ "communications_interrupted" \in States
      /\ "resolution_interrupted" \in States
  BY DEF States
<1>6. disconnect(s, r, ok) =
        CASE Effective(q) = "normal" -> set_state(s, q, "communications_interrupted", ok)
          [] Effective(q) \in {"potential_conflict", "unknown_state"} ->
                 set_state(s, q, "resolution_interrupted", ok)
          [] OTHER -> IF q.state = "startup" THEN set_state(s, q, Effective(q), ok)
                                             ELSE Nothing(q)
  BY DEF disconnect, q
<1> QED
  BY <1>1, <1>2, <1>3, <1>4, <1>5, <1>6

(* The partner's news are noted, whatever becomes of the move they cause.  *)
LEMMA PeerStateTells ==
    ASSUME NEW s \in Servers, NEW r \in Server, NEW m \in Message, m.type = "state",
           ~ Fatal(r, m), NEW noted \in BOOLEAN, NEW ok \in BOOLEAN
    PROVE  /\ Announced(peer_state_changed(s, r, m, noted, ok), r)
           /\ peer_state_changed(s, r, m, noted, ok).r.partner = m.state
<1> DEFINE q == [r EXCEPT !.partner = m.state]
           t == Reaction(r, m.state, m.startup)
           asks == IF AsksAgain(r, m.state) /\ r.link THEN <<UPDREQ>> ELSE << >>
           Then(new) == Result(set_state(s, q, new, ok).r, set_state(s, q, new, ok).out,
                               noted \/ set_state(s, q, new, ok).wrote)
           leave == Then(r.saved_state)
           start == IF r.saved_state = "resolution_interrupted"
                    THEN "potential_conflict" ELSE r.saved_state
           x == peer_state_changed(s, r, m, noted, ok)
<1>1. m.state \in States /\ m.startup \in BOOLEAN
  BY DEF Message
<1>2. /\ q \in Server /\ q.link = r.link /\ q.partner = m.state
      /\ Effective(q) = Effective(r)
  BY <1>1 DEF Server, Effective
<1>3. t \in States \cup {"stay", "log_fatal"}
  BY <1>1, ReactionType
<1>4. asks \in Seq(Message) /\ Tells(asks, Effective(r), Effective(r))
  <2>1. <<UPDREQ>> \in Seq(Message) /\ << >> \in Seq(Message)
    BY DEF UPDREQ, Message
  <2> QED
    BY <2>1, TellsNothing, TellsRequest
<1>5. start \in States /\ r.saved_state \in States
  BY DEF Server, States
<1>6. x = CASE OldNews(r, m) -> Nothing(r)
            [] r.state = "startup" /\ r.partner = m.state -> set_state(s, r, start, ok)
            [] OTHER -> IF t # "stay" THEN Then(t)
                        ELSE IF r.state = "startup" THEN [leave EXCEPT !.out = asks \o @]
                        ELSE Result(q, asks, noted)
  BY DEF peer_state_changed
<1> HIDE DEF q, t, asks, start, x
<1>7. ASSUME NEW new \in States
      PROVE  Announced(Then(new), r) /\ Then(new).r.partner = m.state
  <2>1. /\ Announced(set_state(s, q, new, ok), q)
        /\ set_state(s, q, new, ok).r.partner = m.state
    BY <1>2, SetStateTells
  <2> QED
    BY <1>2, <2>1 DEF Announced, Result, Results
<1> HIDE DEF Then
<1>8. CASE OldNews(r, m)
  <2>1. x = Nothing(r) /\ r.partner = m.state
    BY <1>6, <1>8 DEF OldNews
  <2>2. x \in Results /\ x.r = r /\ x.out = << >>
    BY <2>1 DEF Nothing, Result, Results
  <2> QED
    BY <2>1, <2>2, TellsNothing DEF Announced, x
<1>9. CASE ~ OldNews(r, m) /\ r.state = "startup" /\ r.partner = m.state
  <2>1. x = set_state(s, r, start, ok)
    BY <1>6, <1>9
  <2> QED
    BY <1>5, <1>9, <2>1, SetStateTells DEF x
<1>10. CASE ~ OldNews(r, m) /\ ~ (r.state = "startup" /\ r.partner = m.state)
  <2>1. t # "log_fatal"
    BY <1>10 DEF Fatal, t
  <2>2. CASE t # "stay"
    <3>1. x = Then(t) /\ t \in States
      BY <1>3, <1>6, <1>10, <2>1, <2>2
    <3> QED
      BY <1>7, <3>1 DEF x
  <2>3. CASE t = "stay" /\ r.state = "startup"
    <3>1. x = [leave EXCEPT !.out = asks \o @]
      BY <1>6, <1>10, <2>3
    <3>2. Announced(leave, r) /\ leave.r.partner = m.state
      BY <1>5, <1>7
    <3> HIDE DEF leave
    <3>3. /\ x \in Results /\ x.r = leave.r /\ x.out = asks \o leave.out
          /\ leave.out \in Seq(Message)
      <4>1. leave \in Results
        BY <3>2 DEF Announced
      <4>2. leave.out \in Seq(Message) /\ asks \o leave.out \in Seq(Message)
        BY <1>4, <4>1 DEF Results
      <4> DEFINE out == asks \o leave.out
      <4>3. x = [leave EXCEPT !.out = out]
        BY <3>1
      <4> HIDE DEF out
      <4>4. out \in Seq(Message) => x \in Results /\ x.r = leave.r /\ x.out = out
        BY <4>1, <4>3 DEF Results
      <4> QED
        BY <4>2, <4>4 DEF out
    <3>4. r.link => Tells(x.out, Effective(r), Effective(x.r))
      BY <1>4, <3>2, <3>3, TellsMore DEF Announced
    <3> QED
      BY <3>2, <3>3, <3>4 DEF Announced, x
  <2>4. CASE t = "stay" /\ r.state # "startup"
    <3>1. x = Result(q, asks, noted)
      BY <1>6, <1>10, <2>4
    <3>2. x \in Results /\ x.r = q /\ x.out = asks
      BY <1>2, <1>4, <3>1 DEF Result, Results
    <3> QED
      BY <1>2, <1>4, <3>2 DEF Announced, x
  <2> QED
    BY <2>2, <2>3, <2>4
<1> QED
  BY <1>8, <1>9, <1>10

LEMMA UpdateDoneTells ==
    ASSUME NEW s \in Servers, NEW r \in Server, NEW ok \in BOOLEAN
    PROVE  /\ Announced(process_update_done(s, r, ok), r)
           /\ process_update_done(s, r, ok).r.partner = r.partner
<1> DEFINE x == process_update_done(s, r, ok)
           w == set_state(s, r, "recover_wait", ok)
<1>1. {"normal", "shut_down", "conflict_done", "recover_wait", "recover_done"} \subseteq States
  BY DEF States
<1>2. \A new \in States : /\ Announced(set_state(s, r, new, ok), r)
                         /\ set_state(s, r, new, ok).r.partner = r.partner
  BY SetStateTells
<1>3. Announced(Nothing(r), r) /\ Nothing(r).r.partner = r.partner
  BY TellsNothing DEF Announced, Nothing, Result, Results
<1>4. /\ Announced([w EXCEPT !.r.recover_timeout = TRUE], r)
      /\ [w EXCEPT !.r.recover_timeout = TRUE].r.partner = r.partner
  <2>1. Announced(w, r) /\ w.r.partner = r.partner
    BY <1>1, <1>2
  <2> HIDE DEF w
  <2> QED
    BY Zenon, <2>1 DEF Announced, Results, Server, Effective
<1>5. x = CASE r.state = "potential_conflict" /\ r.partner = "conflict_done" ->
                 set_state(s, r, IF s = "secondary" THEN "normal" ELSE "shut_down", ok)
            [] r.state = "potential_conflict" /\ r.partner # "conflict_done" /\ s = "primary" ->
                 set_state(s, r, "conflict_done", ok)
            [] r.state = "recover" ->
                 IF ~ r.old /\ r.partner \notin {"recover", "recover_done"}
                 THEN [w EXCEPT !.r.recover_timeout = TRUE]
                 ELSE set_state(s, r, "recover_done", ok)
            [] OTHER -> Nothing(r)
  BY DEF process_update_done
<1> HIDE DEF x, w
<1>6. CASE r.state = "potential_conflict" /\ r.partner = "conflict_done"
  BY <1>1, <1>2, <1>5, <1>6 DEF x
<1>7. CASE r.state = "potential_conflict" /\ r.partner # "conflict_done" /\ s = "primary"
  BY <1>1, <1>2, <1>5, <1>7 DEF x
<1>8. CASE r.state = "recover"
  BY Zenon, <1>1, <1>2, <1>4, <1>5, <1>8 DEF x
<1>9. CASE ~ (r.state = "potential_conflict" /\ (r.partner = "conflict_done" \/ s = "primary"))
           /\ r.state # "recover"
  BY <1>3, <1>5, <1>9 DEF x
<1> QED
  BY <1>6, <1>7, <1>8, <1>9

-----------------------------------------------------------------------------
(***************************************************************************)
(* The invariant behind PartnerViewCurrent.  Of a connection in use, what  *)
(* a server believes of its partner after reading all that is under way is *)
(* the state the partner is in; and a connection joins running servers.    *)
(***************************************************************************)
ViewInv ==
    /\ alive => \A s \in Servers : up[s]
    /\ \A s \in Servers :
           alive /\ srv[s].link
               => Tells(chan[Peer(s)], srv[Peer(s)].partner, Effective(srv[s]))

LEMMA PeerFacts ==
    ASSUME NEW s \in Servers
    PROVE  /\ Peer(s) \in Servers
           /\ Peer(s) # s
           /\ Peer(Peer(s)) = s
           /\ \A t \in Servers : t = s \/ t = Peer(s)
BY DEF Peer, Servers

LEMMA CountedType ==
    ASSUME TypeOK, NEW ok \in BOOLEAN, Counted(ok) \/ Fault \/ UNCHANGED faults
    PROVE  faults' \in 0 .. MaxFaults
BY FailoverAssumption DEF TypeOK, Counted, Fault

LEMMA WritableType ==
    Writable \subseteq BOOLEAN
BY Zenon DEF Writable

(* A handler that ends as it should keeps the types,                       *)
LEMMA FinishType ==
    ASSUME TypeOK, NEW s \in Servers, NEW x \in Results, NEW c \in Seq(Message),
           Finish(s, x, c), up' \in [Servers -> BOOLEAN], alive' \in BOOLEAN,
           faults' \in 0 .. MaxFaults
    PROVE  TypeOK'
<1>1. Peer(s) \in Servers /\ Peer(s) # s
  BY PeerFacts
<1>2. /\ x.r \in Server /\ x.out \in Seq(Message) /\ x.wrote \in BOOLEAN
  BY DEF Results
<1>3. srv' \in [Servers -> Server]
  BY <1>2 DEF TypeOK, Finish
<1>4. Form(x.r) \in Recorded
  BY <1>2, EffectiveType DEF Form, Recorded, Server
<1>5. disk' \in [Servers -> Recorded]
  BY <1>4 DEF TypeOK, Finish
<1>6. chan[Peer(s)] \o x.out \in Seq(Message)
  BY <1>1, <1>2 DEF TypeOK
<1>7. chan' \in [Servers -> Seq(Message)]
  <2>1. chan' = [chan EXCEPT ![s] = c,
                             ![Peer(s)] = IF alive' THEN @ \o x.out ELSE @]
    BY DEF Finish
  <2>2. chan' = [t \in Servers |-> IF t = Peer(s)
                                   THEN IF alive' THEN chan[Peer(s)] \o x.out
                                                  ELSE chan[Peer(s)]
                                   ELSE IF t = s THEN c ELSE chan[t]]
    BY Zenon, <1>1, <2>1 DEF TypeOK
  <2> QED
    BY <1>6, <2>2 DEF TypeOK
<1>8. recent' \in [Servers -> BOOLEAN]
  BY DEF Finish
<1> QED
  BY <1>3, <1>5, <1>7, <1>8 DEF TypeOK

(* and the invariant, when it tells its partner where it is and has read   *)
(* its own mail.                                                           *)
LEMMA FinishView ==
    ASSUME TypeOK, ViewInv, NEW s \in Servers, NEW x \in Results, NEW c \in Seq(Message),
           Finish(s, x, c), alive' \in BOOLEAN, alive' => alive, UNCHANGED up,
           alive' /\ x.r.link =>
               Tells(chan[Peer(s)] \o x.out, srv[Peer(s)].partner, Effective(x.r)),
           alive' /\ srv[Peer(s)].link =>
               Tells(c, x.r.partner, Effective(srv[Peer(s)]))
    PROVE  ViewInv'
<1>1. /\ Peer(s) \in Servers /\ Peer(s) # s /\ Peer(Peer(s)) = s
      /\ \A t \in Servers : t = s \/ t = Peer(s)
  BY PeerFacts
<1>2. srv'[s] = x.r /\ srv'[Peer(s)] = srv[Peer(s)]
  BY <1>1 DEF TypeOK, Finish
<1>3. /\ chan'[s] = c
      /\ alive' => chan'[Peer(s)] = chan[Peer(s)] \o x.out
  BY <1>1 DEF TypeOK, Finish
<1>4. alive' => \A t \in Servers : up'[t]
  BY DEF ViewInv
<1>5. alive' /\ srv'[s].link =>
        Tells(chan'[Peer(s)], srv'[Peer(s)].partner, Effective(srv'[s]))
  BY Zenon, <1>2, <1>3
<1>6. alive' /\ srv'[Peer(s)].link =>
        Tells(chan'[s], srv'[s].partner, Effective(srv'[Peer(s)]))
  BY <1>2, <1>3
<1>7. \A t \in Servers : alive' /\ srv'[t].link =>
        Tells(chan'[Peer(t)], srv'[Peer(t)].partner, Effective(srv'[t]))
  BY <1>1, <1>5, <1>6
<1> QED
  BY <1>4, <1>7 DEF ViewInv

(* A handler that reads no message, or one that is not the partner's       *)
(* state.                                                                  *)
LEMMA QuietView ==
    ASSUME TypeOK, ViewInv, NEW s \in Servers, NEW x, NEW r \in Server, Announced(x, r),
           NEW c \in Seq(Message), Finish(s, x, c), UNCHANGED <<up, alive>>,
           r.link = srv[s].link, Effective(r) = Effective(srv[s]),
           x.r.partner = srv[s].partner,
           \/ c = chan[s]
           \/ chan[s] # << >> /\ c = Tail(chan[s]) /\ Head(chan[s]).type # "state"
    PROVE  ViewInv'
<1>1. /\ Peer(s) \in Servers /\ Peer(s) # s /\ Peer(Peer(s)) = s
  BY PeerFacts
<1>2. /\ x \in Results /\ x.r.link = srv[s].link /\ x.out \in Seq(Message)
      /\ srv[s].link => Tells(x.out, Effective(srv[s]), Effective(x.r))
  BY DEF Announced, Results
<1>3. alive /\ srv[s].link =>
        Tells(chan[Peer(s)] \o x.out, srv[Peer(s)].partner, Effective(x.r))
  <2>1. alive /\ srv[s].link =>
          Tells(chan[Peer(s)], srv[Peer(s)].partner, Effective(srv[s]))
    BY DEF ViewInv
  <2>2. chan[Peer(s)] \in Seq(Message)
    BY <1>1 DEF TypeOK
  <2> QED
    BY <1>2, <2>1, <2>2, TellsMore
<1>4. alive /\ srv[Peer(s)].link => Tells(c, x.r.partner, Effective(srv[Peer(s)]))
  <2>1. alive /\ srv[Peer(s)].link =>
          Tells(chan[s], srv[s].partner, Effective(srv[Peer(s)]))
    BY <1>1 DEF ViewInv
  <2>2. chan[s] \in Seq(Message)
    BY DEF TypeOK
  <2> QED
    BY Zenon, <2>1, <2>2, TellsRest
<1> QED
  BY Zenon, <1>2, <1>3, <1>4, FinishView DEF TypeOK

(* No connection is left.                                                  *)
LEMMA CutView ==
    ASSUME ~ alive'
    PROVE  ViewInv'
BY DEF ViewInv

LEMMA LoadedType ==
    ASSUME NEW d \in Recorded
    PROVE  Loaded(d) \in Server
BY DEF Loaded, Recorded, Server

LEMMA StopType ==
    ASSUME TypeOK, NEW s \in Servers, Stop(s), disk' \in [Servers -> Recorded],
           faults' \in 0 .. MaxFaults
    PROVE  TypeOK' /\ ~ alive'
<1>1. disk'[s] \in Recorded
  OBVIOUS
<1>2. Loaded(disk'[s]) \in Server
  BY <1>1, LoadedType
<1>3. /\ srv' \in [Servers -> Server] /\ chan' \in [Servers -> Seq(Message)]
      /\ recent' \in [Servers -> BOOLEAN]
  BY <1>2 DEF TypeOK, Stop
<1>4. up' \in [Servers -> BOOLEAN] /\ alive' = FALSE
  BY Zenon DEF TypeOK, Stop
<1> QED
  BY Zenon, <1>3, <1>4 DEF TypeOK

(***************************************************************************)
(* The steps, one lemma for each action or group of actions.               *)
(***************************************************************************)
ViewKept == TypeOK' /\ ViewInv'

LEMMA BootView ==
    ASSUME TypeOK, ViewInv, NEW s \in Servers, Boot(s)
    PROVE  ViewKept
<1>1. set_state(s, srv[s], "startup", TRUE) \in Results
  BY Zenon, SetStateType DEF TypeOK
<1>2. ~ alive'
  BY DEF Boot, ViewInv
<1>3. TypeOK'
  BY Zenon, <1>1, FinishType DEF Boot, TypeOK
<1> QED
  BY <1>2, <1>3, CutView DEF ViewKept

LEMMA AcceptView ==
    ASSUME TypeOK, ViewInv, Accept
    PROVE  ViewKept
<1> DEFINE p == "primary"
           q == "secondary"
<1>1. p \in Servers /\ q \in Servers /\ Peer(p) = q /\ Peer(q) = p /\ Servers = {p, q}
  BY DEF Servers, Peer
<1>2. srv[q] \in Server /\ srv[p] \in Server
  BY <1>1 DEF TypeOK
<1>3. send_state(srv[q]) \in Message /\ CONNECTACK \in Message
  BY <1>2, SendStateType DEF CONNECTACK, Message
<1>4. srv' \in [Servers -> Server]
  BY Zenon, <1>1, <1>2 DEF Accept, TypeOK, Server
<1>5. alive' \in BOOLEAN /\ (alive' <=> ~ srv[p].link)
  BY Zenon, <1>2 DEF Accept, Server
<1>6. chan' \in [Servers -> Seq(Message)]
  BY <1>1, <1>3 DEF Accept, TypeOK
<1>7. TypeOK'
  BY <1>4, <1>5, <1>6 DEF Accept, TypeOK
<1>8. ASSUME alive'
      PROVE  /\ srv'[p] = srv[p] /\ ~ srv'[p].link
             /\ Effective(srv'[q]) = Effective(srv[q])
             /\ chan'[p] = <<CONNECTACK, send_state(srv[q])>>
             /\ \A t \in Servers : up'[t]
  BY <1>1, <1>2, <1>5, <1>8 DEF Accept, TypeOK, Effective, Server
<1>9. ASSUME NEW w
      PROVE  Tells(<<CONNECTACK, send_state(srv[q])>>, w, Effective(srv[q]))
  BY <1>2, SendStateType DEF Tells, CONNECTACK
<1>10. ViewInv'
  BY <1>1, <1>8, <1>9 DEF ViewInv
<1> QED
  BY <1>7, <1>10 DEF ViewKept

LEMMA ConnectAckView ==
    ASSUME TypeOK, ViewInv, NEW s \in Servers, ConnectAck(s)
    PROVE  ViewKept
<1> DEFINE r == [srv[s] EXCEPT !.link = TRUE]
           c == Tail(chan[s])
           x == Result(r, <<send_state(r)>>, FALSE)
<1>1. /\ srv[s] \in Server /\ chan[s] \in Seq(Message) /\ chan[s] # << >>
      /\ Head(chan[s]).type # "state"
  BY DEF TypeOK, ConnectAck
<1>2. r \in Server /\ r.partner = srv[s].partner
  BY Zenon, <1>1 DEF Server
<1>3. Finish(s, x, c) /\ UNCHANGED <<up, alive, faults>>
  BY Zenon DEF ConnectAck
<1>4. c \in Seq(Message)
  BY <1>1
<1> HIDE DEF r
<1>5. send_state(r) \in Message /\ send_state(r).type = "state"
        /\ send_state(r).state = Effective(r)
  BY <1>2, SendStateType
<1>6. x \in Results /\ x.r = r /\ x.out = <<send_state(r)>>
  BY <1>2, <1>5 DEF Results, Result
<1>7. Peer(s) \in Servers /\ Peer(Peer(s)) = s
  BY PeerFacts
<1>8. Tells(chan[Peer(s)] \o x.out, srv[Peer(s)].partner, Effective(r))
  <2> DEFINE a == chan[Peer(s)]
             b == a \o <<send_state(r)>>
  <2>1. a \in Seq(Message)
    BY <1>7 DEF TypeOK
  <2>2. /\ DOMAIN b = 1 .. (Len(a) + 1) /\ b[Len(a) + 1] = send_state(r) /\ Len(a) \in Nat
    BY <2>1, <1>5
  <2> HIDE DEF a, b
  <2>3. Tells(b, srv[Peer(s)].partner, Effective(r))
    <3>1. Len(a) + 1 \in DOMAIN b /\ \A j \in DOMAIN b : ~ (j > Len(a) + 1)
      BY <2>2
    <3> QED
      BY <3>1, <2>2, <1>5 DEF Tells
  <2> QED
    BY Zenon, <2>3, <1>6 DEF a, b
<1>9. alive /\ srv[Peer(s)].link => Tells(c, x.r.partner, Effective(srv[Peer(s)]))
  BY Zenon, <1>1, <1>2, <1>6, <1>7, TellsRest DEF ViewInv
<1> HIDE DEF x, c
<1>10. ViewInv'
  BY Zenon, <1>3, <1>4, <1>6, <1>8, <1>9, FinishView DEF TypeOK
<1>11. TypeOK'
  BY <1>3, <1>4, <1>6, FinishType DEF TypeOK
<1> QED
  BY <1>10, <1>11 DEF ViewKept

LEMMA ConnectFailsView ==
    ASSUME TypeOK, ViewInv, ConnectFails
    PROVE  ViewKept
<1>1. faults' \in 0 .. MaxFaults
  BY Zenon, CountedType DEF ConnectFails
<1>2. ~ alive' /\ alive' \in BOOLEAN
  BY Zenon DEF ConnectFails
<1>3. "primary" \in Servers /\ chan' \in [Servers -> Seq(Message)]
  BY DEF ConnectFails, TypeOK, Servers
<1> QED
  BY <1>1, <1>2, <1>3, CutView DEF ConnectFails, TypeOK, ViewKept

LEMMA StopView ==
    ASSUME TypeOK, ViewInv, NEW s \in Servers, Crash(s) \/ Exit(s)
    PROVE  ViewKept
<1>1. faults' \in 0 .. MaxFaults
  BY Zenon, CountedType DEF Crash, Exit
<1>2. disk' \in [Servers -> Recorded]
  <2>1. CASE Crash(s)
    BY <2>1 DEF Crash, TypeOK
  <2>2. CASE Exit(s)
    <3>1. PICK d \in BOOLEAN : disk' = [disk EXCEPT ![s] = Form(Moved(srv[s], "recover", d))]
      BY Zenon, <2>2 DEF Exit
    <3>2. Moved(srv[s], "recover", d) \in Server
      BY MovedType DEF TypeOK, States
    <3>3. Form(Moved(srv[s], "recover", d)) \in Recorded
      BY <3>2, EffectiveType DEF Form, Recorded, Server
    <3> QED
      BY <3>1, <3>3 DEF TypeOK
  <2> QED
    BY <2>1, <2>2
<1>3. Stop(s)
  BY DEF Crash, Exit
<1> QED
  BY <1>1, <1>2, <1>3, StopType, CutView DEF ViewKept

LEMMA StateView ==
    ASSUME TypeOK, ViewInv, NEW s \in Servers, State(s)
    PROVE  ViewKept
<1> DEFINE m == Head(chan[s])
           c == Tail(chan[s])
<1>1. /\ srv[s] \in Server /\ chan[s] \in Seq(Message) /\ chan[s] # << >>
      /\ m \in Message /\ c \in Seq(Message) /\ m.type = "state"
  BY DEF TypeOK, State
<1>2. CASE Fatal(srv[s], m)
  <2>1. /\ disk' = [disk EXCEPT ![s].partner = m.state]
        /\ UNCHANGED faults /\ Stop(s)
    BY <1>2 DEF State
  <2>2. m.state \in States
    BY <1>1 DEF Message
  <2>3. disk' \in [Servers -> Recorded]
    BY Zenon, <2>1, <2>2 DEF TypeOK, Recorded
  <2> QED
    BY Zenon, <2>1, <2>3, StopType, CutView DEF ViewKept, TypeOK
<1>3. CASE ~ Fatal(srv[s], m)
  <2>1. PICK noted \in Writable, ok \in Writable :
            /\ UNCHANGED <<up, alive>>
            /\ Counted(noted /\ ok)
            /\ Finish(s, peer_state_changed(s, srv[s], m, noted, ok), c)
    BY <1>3 DEF State
  <2> DEFINE x == peer_state_changed(s, srv[s], m, noted, ok)
  <2>2. noted \in BOOLEAN /\ ok \in BOOLEAN /\ (noted /\ ok) \in BOOLEAN
    BY WritableType
  <2>3. Announced(x, srv[s]) /\ x.r.partner = m.state
    BY <1>1, <1>3, <2>2, PeerStateTells
  <2>4. faults' \in 0 .. MaxFaults
    BY <2>1, <2>2, CountedType
  <2> HIDE DEF x
  <2>5. /\ x \in Results /\ x.r.link = srv[s].link /\ x.out \in Seq(Message)
        /\ srv[s].link => Tells(x.out, Effective(srv[s]), Effective(x.r))
    BY <2>3 DEF Announced, Results
  <2>6. Peer(s) \in Servers /\ Peer(Peer(s)) = s
    BY PeerFacts
  <2>7. alive /\ srv[s].link =>
          Tells(chan[Peer(s)] \o x.out, srv[Peer(s)].partner, Effective(x.r))
    <3>1. alive /\ srv[s].link =>
            Tells(chan[Peer(s)], srv[Peer(s)].partner, Effective(srv[s]))
      BY DEF ViewInv
    <3>2. chan[Peer(s)] \in Seq(Message)
      BY <2>6 DEF TypeOK
    <3> QED
      BY <2>5, <3>1, <3>2, TellsMore
  <2>8. alive /\ srv[Peer(s)].link => Tells(c, x.r.partner, Effective(srv[Peer(s)]))
    BY <1>1, <2>3, <2>6, TellsRest DEF ViewInv
  <2>9. Finish(s, x, c)
    BY <2>1 DEF x
  <2> HIDE DEF c, m
  <2>10. ViewInv'
    BY Zenon, <1>1, <2>1, <2>5, <2>7, <2>8, <2>9, FinishView DEF TypeOK
  <2>11. TypeOK'
    BY <1>1, <2>1, <2>4, <2>5, <2>9, FinishType DEF TypeOK
  <2> QED
    BY <2>10, <2>11 DEF ViewKept
<1> QED
  BY <1>2, <1>3

(* The handlers of the other messages, and the acknowledgement of an       *)
(* update.                                                                 *)
LEMMA UpdateView ==
    ASSUME TypeOK, ViewInv, NEW s \in Servers, process_update_request(s) \/ UpdatesAcked(s)
    PROVE  ViewKept
<1>1. /\ srv[s] \in Server /\ chan[s] \in Seq(Message)
  BY DEF TypeOK
<1>2. PICK b \in BOOLEAN, d \in {<< >>, <<UPDDONE>>}, c \in {chan[s], Tail(chan[s])} :
          /\ Finish(s, Result([srv[s] EXCEPT !.send_update_done = b], d, FALSE), c)
          /\ UNCHANGED <<up, alive, faults>>
          /\ \/ c = chan[s]
             \/ chan[s] # << >> /\ c = Tail(chan[s]) /\ Head(chan[s]).type # "state"
  <2>1. CASE process_update_request(s)
    BY Zenon, <2>1 DEF process_update_request
  <2>2. CASE UpdatesAcked(s)
    BY Zenon, <2>2 DEF UpdatesAcked
  <2> QED
    BY Zenon, <2>1, <2>2
<1>3. c \in Seq(Message)
  BY <1>1, <1>2
<1> DEFINE n == [srv[s] EXCEPT !.send_update_done = b]
           x == Result(n, d, FALSE)
<1>4. /\ n \in Server /\ n.partner = srv[s].partner /\ n.link = srv[s].link
      /\ Effective(n) = Effective(srv[s])
  BY <1>1 DEF Server, Effective
<1>5. d \in Seq(Message) /\ Tells(d, Effective(n), Effective(n))
  <2>1. UPDDONE \in Message
    BY DEF UPDDONE, Message
  <2> DEFINE e == Effective(n)
  <2> HIDE DEF e, n
  <2>2. << >> \in Seq(Message) /\ <<UPDDONE>> \in Seq(Message)
    BY <2>1
  <2>3. Tells(<< >>, e, e) /\ Tells(<<UPDDONE>>, e, e)
    BY TellsNothing, TellsRequest
  <2>4. d = << >> \/ d = <<UPDDONE>>
    BY <1>2
  <2> QED
    BY Zenon, <2>2, <2>3, <2>4 DEF e
<1>6. Finish(s, x, c)
  BY Zenon, <1>2
<1> HIDE DEF n
<1>7. Announced(x, n) /\ x.r = n
  BY <1>4, <1>5 DEF Announced, Results, Result
<1> HIDE DEF x
<1>8. ViewInv'
  BY <1>2, <1>3, <1>4, <1>6, <1>7, QuietView
<1>9. TypeOK'
  BY <1>2, <1>3, <1>6, <1>7, FinishType DEF TypeOK, Announced
<1> QED
  BY <1>8, <1>9 DEF ViewKept

LEMMA UpdateDoneView ==
    ASSUME TypeOK, ViewInv, NEW s \in Servers, UpdateDone(s)
    PROVE  ViewKept
<1>1. /\ srv[s] \in Server /\ chan[s] \in Seq(Message) /\ chan[s] # << >>
      /\ Head(chan[s]).type # "state" /\ Tail(chan[s]) \in Seq(Message)
  BY DEF TypeOK, UpdateDone
<1>2. PICK ok \in Writable : /\ UNCHANGED <<up, alive>> /\ Counted(ok)
                             /\ Finish(s, process_update_done(s, srv[s], ok), Tail(chan[s]))
  BY DEF UpdateDone
<1> DEFINE x == process_update_done(s, srv[s], ok)
<1>3. ok \in BOOLEAN
  BY WritableType
<1>4. Announced(x, srv[s]) /\ x.r.partner = srv[s].partner
  BY <1>1, <1>3, UpdateDoneTells
<1>5. Finish(s, x, Tail(chan[s]))
  BY <1>2
<1>6. faults' \in 0 .. MaxFaults
  BY <1>2, <1>3, CountedType
<1> HIDE DEF x
<1>7. ViewInv'
  BY Zenon, <1>1, <1>2, <1>4, <1>5, QuietView
<1>8. TypeOK'
  BY Zenon, <1>1, <1>2, <1>4, <1>5, <1>6, FinishType DEF TypeOK, Announced
<1> QED
  BY <1>7, <1>8 DEF ViewKept

(* A move to another state outside of a handler of messages: a timeout, an *)
(* operator, a shutdown.                                                   *)
LEMMA MoveView ==
    ASSUME TypeOK, ViewInv, NEW s \in Servers,
           RecoverTimeout(s) \/ AutoTimeout(s) \/ Operator(s) \/ ShutDown(s)
    PROVE  ViewKept
<1>1. /\ srv[s] \in Server /\ chan[s] \in Seq(Message)
      /\ {"recover_done", "partner_down", "shut_down"} \subseteq States
  BY DEF TypeOK, States
<1>2. PICK r \in Server, new \in States, ok \in BOOLEAN :
          /\ Finish(s, set_state(s, r, new, ok), chan[s])
          /\ r.link = srv[s].link /\ Effective(r) = Effective(srv[s])
          /\ r.partner = srv[s].partner
  <2>1. CASE RecoverTimeout(s)
    <3> DEFINE r == [srv[s] EXCEPT !.recover_timeout = FALSE]
    <3>1. /\ r \in Server /\ r.link = srv[s].link /\ Effective(r) = Effective(srv[s])
          /\ r.partner = srv[s].partner
      BY Zenon, <1>1 DEF Server, Effective
    <3>2. \E ok \in BOOLEAN : Finish(s, set_state(s, r, "recover_done", ok), chan[s])
      BY <2>1, WritableType DEF RecoverTimeout, Timeout
    <3> QED
      BY Zenon, <1>1, <3>1, <3>2
  <2>2. CASE AutoTimeout(s)
    <3> DEFINE r == [srv[s] EXCEPT !.auto_timeout = FALSE]
    <3>1. /\ r \in Server /\ r.link = srv[s].link /\ Effective(r) = Effective(srv[s])
          /\ r.partner = srv[s].partner
      BY Zenon, <1>1 DEF Server, Effective
    <3>2. \E ok \in BOOLEAN : Finish(s, set_state(s, r, "partner_down", ok), chan[s])
      BY <2>2, WritableType DEF AutoTimeout, Timeout
    <3> QED
      BY Zenon, <1>1, <3>1, <3>2
  <2>3. CASE Operator(s)
    BY Zenon, <1>1, <2>3, FailoverAssumption DEF Operator
  <2>4. CASE ShutDown(s)
    BY Zenon, <1>1, <2>4 DEF ShutDown
  <2> QED
    BY <2>1, <2>2, <2>3, <2>4
<1> DEFINE x == set_state(s, r, new, ok)
<1>3. Announced(x, r) /\ x.r.partner = srv[s].partner
  BY <1>2, SetStateTells
<1>4. Finish(s, x, chan[s])
  BY <1>2
<1>5. UNCHANGED <<up, alive>>
  BY Zenon DEF RecoverTimeout, AutoTimeout, Timeout, Operator, ShutDown
<1>6. faults' \in 0 .. MaxFaults
  BY Zenon, WritableType, CountedType DEF RecoverTimeout, AutoTimeout, Timeout, Operator, ShutDown
<1> HIDE DEF x
<1>7. ViewInv'
  BY <1>1, <1>2, <1>3, <1>4, <1>5, QuietView
<1>8. TypeOK'
  BY <1>1, <1>3, <1>4, <1>5, <1>6, FinishType DEF TypeOK, Announced
<1> QED
  BY <1>7, <1>8 DEF ViewKept

(* The end of a connection.                                                *)
LEMMA DisconnectView ==
    ASSUME TypeOK, ViewInv, NEW s \in Servers, Disconnect(s) \/ StartupTimeout(s)
    PROVE  ViewKept
<1>1. /\ srv[s] \in Server /\ chan[s] \in Seq(Message) /\ << >> \in Seq(Message)
  BY DEF TypeOK
<1>2. PICK ok \in BOOLEAN, c \in {<< >>, chan[s]} :
          /\ Finish(s, disconnect(s, srv[s], ok), c)
          /\ alive' => alive /\ c = chan[s]
          /\ alive' \in BOOLEAN
          /\ faults' \in 0 .. MaxFaults
          /\ UNCHANGED up
  <2>1. CASE Disconnect(s)
    <3>1. PICK ok \in Writable : Counted(ok /\ ~ alive)
                                 /\ Finish(s, disconnect(s, srv[s], ok), << >>)
      BY <2>1 DEF Disconnect
    <3>2. ok \in BOOLEAN /\ (ok /\ ~ alive) \in BOOLEAN
      BY WritableType
    <3>3. faults' \in 0 .. MaxFaults
      BY Zenon, <3>1, <3>2, CountedType
    <3> QED
      BY Zenon, <2>1, <3>1, <3>2, <3>3 DEF Disconnect
  <2>2. CASE StartupTimeout(s)
    <3>1. PICK ok \in Writable :
              /\ Counted(ok)
              /\ Finish(s, disconnect(s, srv[s], ok), IF srv[s].link THEN << >> ELSE chan[s])
      BY <2>2 DEF StartupTimeout
    <3>2. ok \in BOOLEAN
      BY WritableType
    <3>3. faults' \in 0 .. MaxFaults
      BY <3>1, <3>2, CountedType
    <3>4. alive' = (alive /\ ~ srv[s].link) /\ UNCHANGED up
      BY <2>2 DEF StartupTimeout
    <3>5. CASE srv[s].link
      BY Zenon, <3>1, <3>2, <3>3, <3>4, <3>5
    <3>6. CASE ~ srv[s].link
      BY <3>1, <3>2, <3>3, <3>4, <3>6 DEF TypeOK
    <3> QED
      BY <3>5, <3>6
  <2> QED
    BY <2>1, <2>2
<1> DEFINE x == disconnect(s, srv[s], ok)
<1>3. x \in Results /\ ~ x.r.link /\ x.r.partner = srv[s].partner
  BY <1>1, DisconnectType
<1>4. Finish(s, x, c)
  BY <1>2
<1> HIDE DEF x
<1>5. Peer(s) \in Servers /\ Peer(Peer(s)) = s
  BY PeerFacts
<1>6. alive' /\ srv[Peer(s)].link => Tells(c, x.r.partner, Effective(srv[Peer(s)]))
  BY <1>2, <1>3, <1>5 DEF ViewInv
<1>7. ViewInv'
  BY Zenon, <1>1, <1>2, <1>3, <1>4, <1>6, FinishView
<1>8. TypeOK'
  BY Zenon, <1>1, <1>2, <1>3, <1>4, FinishType DEF TypeOK
<1> QED
  BY <1>7, <1>8 DEF ViewKept

(* Steps that concern the disk and the clock.                              *)
LEMMA IdleView ==
    ASSUME TypeOK, ViewInv, NEW s \in Servers, MCLTPasses(s) \/ LoseFile(s)
    PROVE  ViewKept
<1>1. CASE MCLTPasses(s)
  <2>1. srv' \in [Servers -> Server] /\ disk' \in [Servers -> Recorded]
    <3>1. [srv[s] EXCEPT !.old = TRUE] \in Server /\ [disk[s] EXCEPT !.old = TRUE] \in Recorded
      BY ZenonT(30) DEF TypeOK, Server, Recorded
    <3> QED
      BY <1>1, <3>1 DEF MCLTPasses, TypeOK
  <2>2. recent' \in [Servers -> BOOLEAN]
    <3>1. Serving(s) \in BOOLEAN
      BY DEF Serving, TypeOK
    <3> QED
      BY <1>1, <3>1 DEF MCLTPasses, TypeOK
  <2>3. TypeOK'
    BY <1>1, <2>1, <2>2 DEF MCLTPasses, TypeOK
  <2>4. \A t \in Servers : /\ srv'[t].link = srv[t].link /\ srv'[t].partner = srv[t].partner
                            /\ Effective(srv'[t]) = Effective(srv[t])
    BY <1>1 DEF MCLTPasses, TypeOK, Server, Effective
  <2>5. \A t \in Servers : Peer(t) \in Servers
    BY PeerFacts
  <2>6. ViewInv'
    BY Zenon, <1>1, <2>4, <2>5 DEF MCLTPasses, ViewInv
  <2> QED
    BY <2>3, <2>6 DEF ViewKept
<1>2. CASE LoseFile(s)
  <2>1. Fresh \in Recorded
    BY DEF Fresh, Recorded, States
  <2>2. Loaded(Fresh) \in Server
    BY <2>1, LoadedType
  <2>3. faults' \in 0 .. MaxFaults
    BY Zenon, <1>2, CountedType DEF LoseFile
  <2>4. TypeOK'
    BY <1>2, <2>1, <2>2, <2>3 DEF LoseFile, TypeOK
  <2>5. ~ alive'
    BY <1>2 DEF LoseFile, ViewInv
  <2> QED
    BY <2>4, <2>5, CutView DEF ViewKept
<1> QED
  BY <1>1, <1>2

LEMMA InitView ==
    Init => TypeOK /\ ViewInv
<1> SUFFICES ASSUME Init PROVE TypeOK /\ ViewInv
  OBVIOUS
<1>1. Fresh \in Recorded
  BY DEF Fresh, Recorded, States
<1>2. Loaded(Fresh) \in Server
  BY <1>1, LoadedType
<1>3. /\ srv \in [Servers -> Server] /\ disk \in [Servers -> Recorded]
      /\ chan \in [Servers -> Seq(Message)] /\ faults \in 0 .. MaxFaults
  BY <1>1, <1>2, FailoverAssumption DEF Init
<1>4. up \in [Servers -> BOOLEAN] /\ recent \in [Servers -> BOOLEAN] /\ alive = FALSE
  BY Zenon DEF Init
<1> QED
  BY Zenon, <1>3, <1>4 DEF TypeOK, ViewInv

LEMMA NextView ==
    TypeOK /\ ViewInv /\ [Next]_vars => TypeOK' /\ ViewInv'
<1> SUFFICES ASSUME TypeOK, ViewInv, [Next]_vars PROVE ViewKept
  BY DEF ViewKept
<1>1. CASE UNCHANGED vars
  BY <1>1 DEF vars, TypeOK, ViewInv, ViewKept
<1>2. CASE Accept
  BY <1>2, AcceptView
<1>3. CASE ConnectFails
  BY <1>3, ConnectFailsView
<1>4. ASSUME NEW s \in Servers, Work(s)
      PROVE  ViewKept
  BY <1>4, BootView, ConnectAckView, StateView, UpdateView, UpdateDoneView, DisconnectView,
     MoveView, IdleView, StopView DEF Work, Receive
<1>5. ASSUME NEW s \in Servers, Disconnect(s) \/ Operator(s) \/ ShutDown(s) \/ Crash(s)
                               \/ LoseFile(s)
      PROVE  ViewKept
  BY <1>5, DisconnectView, MoveView, StopView, IdleView
<1> QED
  BY <1>1, <1>2, <1>3, <1>4, <1>5 DEF Next

(***************************************************************************)
(* Every step of the state machine of failover.c keeps its state in the    *)
(* declared sets.                                                          *)
(***************************************************************************)
THEOREM TypeCorrect == Spec => []TypeOK
<1>1. Init => TypeOK /\ ViewInv
  BY InitView
<1>2. TypeOK /\ ViewInv /\ [Next]_vars => TypeOK' /\ ViewInv'
  BY NextView
<1> QED
  BY <1>1, <1>2, PTL DEF Spec

(***************************************************************************)
(* Once all messages are delivered, each server knows its partner's state, *)
(* whatever operators, crashes, lost connections and failed writes do: no  *)
(* path through dhcp_failover_set_state moves a connected server without   *)
(* telling its partner, or tells it before the move.                       *)
(***************************************************************************)
THEOREM ViewCurrent == Spec => []PartnerViewCurrent
<1>1. Init => TypeOK /\ ViewInv
  BY InitView
<1>2. TypeOK /\ ViewInv /\ [Next]_vars => TypeOK' /\ ViewInv'
  BY NextView
<1>3. TypeOK /\ ViewInv => PartnerViewCurrent
  <2> SUFFICES ASSUME TypeOK, ViewInv, alive,
                      \A t \in Servers : srv[t].link /\ chan[t] = << >>,
                      NEW s \in Servers
               PROVE  srv[s].partner = Effective(srv[Peer(s)])
    BY DEF PartnerViewCurrent
  <2>1. Peer(s) \in Servers /\ Peer(Peer(s)) = s
    BY PeerFacts
  <2>2. Tells(<< >>, srv[s].partner, Effective(srv[Peer(s)]))
    BY <2>1 DEF ViewInv
  <2> QED
    BY <2>2 DEF Tells
<1> QED
  BY <1>1, <1>2, <1>3, PTL DEF Spec

-----------------------------------------------------------------------------
(***************************************************************************)
(* The timeout of a recovery.  It is armed only in recover_wait, which a   *)
(* server leaves by this timeout or by stopping, as long as every move is  *)
(* recorded and no operator makes one: a move to recover_wait that cannot  *)
(* be recorded leaves the server in recover with the timeout armed.        *)
(***************************************************************************)
NoOutsideMoves == OperatorStates = {} /\ ~ WritesMayFail

(* The timeouts of a server belong to its state.                           *)
Timely(r) ==
    /\ r.recover_timeout => r.state = "recover_wait"
    /\ r.auto_timeout => r.state = "communications_interrupted"

LateInv ==
    \A s \in Servers : Timely(srv[s]) /\ disk[s].state = Effective(srv[s])

(* A handler's result x for server r: timely, recorded when the state      *)
(* differs, and finished with recovery only after recover, recover_wait or *)
(* startup.                                                                *)
InTime(x, r) ==
    /\ Timely(x.r)
    /\ x.wrote \/ Effective(x.r) = Effective(r)
    /\ x.r.state = "recover_done"
           => r.state \in {"recover", "recover_wait", "startup", "recover_done"}

LEMMA MovedInTime ==
    ASSUME NEW r \in Server, NEW new \in States \cup {"startup"},
           r.recover_timeout => new = "recover_wait"
    PROVE  Timely(Moved(r, new, FALSE))
BY Zenon DEF Timely, Moved, Server

LEMMA SetStateInTime ==
    ASSUME NEW s \in Servers, NEW r \in Server, NEW new \in States \cup {"startup"},
           ~ r.recover_timeout,
           new \in {"recover_done", "recover_wait"}
               => r.state \in {"recover", "recover_wait", "startup", "recover_done"}
    PROVE  /\ InTime(set_state(s, r, new, TRUE), r)
           /\ set_state(s, r, new, TRUE).wrote
<1> DEFINE m == Moved(r, new, FALSE)
           n == Moved(m, "recover_done", FALSE)
           x == set_state(s, r, new, TRUE)
<1> SUFFICES InTime(x, r) /\ x.wrote
  BY Zenon
<1>1. m \in Server /\ m.state = new
  BY Zenon, MovedType
<1>2. Timely(m)
  BY Zenon, MovedInTime
<1>3. CASE new = "recover_wait" /\ m.old
  <2>1. ~ m.recover_timeout
    BY <1>3 DEF Moved, Server
  <2>2. "recover_done" \in States
    BY DEF States
  <2> HIDE DEF m
  <2>3. Timely(n) /\ n.state = "recover_done"
    BY Zenon, <1>1, <2>1, <2>2, MovedInTime, MovedType
  <2>4. x = Result(n, Messages(s, m, new) \o Messages(s, n, "recover_done"), TRUE)
    BY <1>3 DEF set_state, m
  <2> HIDE DEF n, x
  <2> QED
    BY <1>3, <2>3, <2>4 DEF InTime, Result
<1>4. CASE ~ (new = "recover_wait" /\ m.old)
  <2>1. x = Result(m, Messages(s, m, new), TRUE)
    BY Zenon, <1>4 DEF set_state
  <2> HIDE DEF m, x
  <2> QED
    BY <1>1, <1>2, <2>1 DEF InTime, Result
<1> QED
  BY Zenon, <1>3, <1>4

(* No news from the partner ends recover_wait, or leads to the end of a    *)
(* recovery.                                                               *)
LEMMA ReactionInTime ==
    ASSUME NEW r \in Server, NEW new \in States, NEW b \in BOOLEAN
    PROVE  /\ Reaction(r, new, b) \notin {"recover_done", "recover_wait"}
           /\ r.state = "recover_wait" => Reaction(r, new, b) = "stay"
<1>1. r.state = "recover_wait" => Effective(r) = "recover_wait"
  BY DEF Effective
<1>2. Reaction(r, new, b) \notin {"recover_done", "recover_wait"}
  BY DEF Reaction
<1>3. Effective(r) = "recover_wait" => Reaction(r, new, b) = "stay"
  BY DEF Reaction, Conflict
<1> QED
  BY <1>1, <1>2, <1>3

LEMMA StillInTime ==
    ASSUME NEW r \in Server, NEW q \in Server, NEW out, NEW w, Timely(r), q.state = r.state,
           q.saved_state = r.saved_state, q.recover_timeout = r.recover_timeout,
           q.auto_timeout = r.auto_timeout
    PROVE  InTime(Result(q, out, w), r)
BY DEF InTime, Result, Timely, Effective

LEMMA DisconnectInTime ==
    ASSUME NEW s \in Servers, NEW r \in Server, Timely(r)
    PROVE  InTime(disconnect(s, r, TRUE), r)
<1> DEFINE q == [r EXCEPT !.link = FALSE, !.startup_timeout = FALSE]
           e == Effective(q)
<1>1. /\ q \in Server /\ q.state = r.state /\ q.saved_state = r.saved_state
      /\ q.recover_timeout = r.recover_timeout /\ q.auto_timeout = r.auto_timeout
      /\ q.partner = r.partner
  BY Zenon DEF Server
<1>2. {"communications_interrupted", "resolution_interrupted"} \subseteq States
  BY DEF States
<1> HIDE DEF q
<1>3. e \in States /\ e = Effective(r)
  BY <1>1, EffectiveType DEF Effective
<1>4. r.state = "recover_wait" => e = "recover_wait"
  BY <1>3 DEF Effective
<1>5. r.recover_timeout => r.state = "recover_wait"
  BY DEF Timely
<1>6. \A x : InTime(x, q) => InTime(x, r)
  BY <1>1 DEF InTime, Effective
<1>7. CASE e = "normal"
  <2>1. InTime(set_state(s, q, "communications_interrupted", TRUE), q)
    BY Zenon, <1>1, <1>2, <1>4, <1>5, <1>7, SetStateInTime
  <2>2. disconnect(s, r, TRUE) = set_state(s, q, "communications_interrupted", TRUE)
    BY <1>7 DEF disconnect, q
  <2> QED
    BY Zenon, <1>6, <2>1, <2>2
<1>8. CASE e \in {"potential_conflict", "unknown_state"}
  <2>1. InTime(set_state(s, q, "resolution_interrupted", TRUE), q)
    BY Zenon, <1>1, <1>2, <1>4, <1>5, <1>8, SetStateInTime
  <2>2. disconnect(s, r, TRUE) = set_state(s, q, "resolution_interrupted", TRUE)
    BY <1>8 DEF disconnect, q
  <2> QED
    BY Zenon, <1>6, <2>1, <2>2
<1>9. CASE e \notin {"normal", "potential_conflict", "unknown_state"} /\ q.state = "startup"
  <2>1. InTime(set_state(s, q, e, TRUE), q)
    BY Zenon, <1>1, <1>3, <1>5, <1>9, SetStateInTime
  <2>2. disconnect(s, r, TRUE) = set_state(s, q, e, TRUE)
    BY Zenon, <1>9 DEF disconnect, q
  <2> QED
    BY Zenon, <1>6, <2>1, <2>2
<1>10. CASE e \notin {"normal", "potential_conflict", "unknown_state"} /\ q.state # "startup"
  <2>1. disconnect(s, r, TRUE) = Result(q, << >>, FALSE)
    BY Zenon, <1>10 DEF disconnect, Nothing, q
  <2> QED
    BY Zenon, <1>1, <2>1, StillInTime
<1> QED
  BY Zenon, <1>7, <1>8, <1>9, <1>10

LEMMA PeerStateInTime ==
    ASSUME NEW s \in Servers, NEW r \in Server, NEW msg \in Message, msg.type = "state",
           Timely(r), ~ Fatal(r, msg)
    PROVE  InTime(peer_state_changed(s, r, msg, TRUE, TRUE), r)
<1> DEFINE q == [r EXCEPT !.partner = msg.state]
           t == Reaction(r, msg.state, msg.startup)
           asks == IF AsksAgain(r, msg.state) /\ r.link THEN <<UPDREQ>> ELSE << >>
           x == peer_state_changed(s, r, msg, TRUE, TRUE)
           Then(new) == Result(set_state(s, q, new, TRUE).r, set_state(s, q, new, TRUE).out,
                               TRUE \/ set_state(s, q, new, TRUE).wrote)
<1>1. msg.state \in States /\ msg.startup \in BOOLEAN
  BY DEF Message
<1>2. /\ q \in Server /\ q.state = r.state /\ q.saved_state = r.saved_state
      /\ q.recover_timeout = r.recover_timeout /\ q.auto_timeout = r.auto_timeout
  BY <1>1 DEF Server
<1>3. /\ t \notin {"recover_done", "recover_wait"} /\ t \in States \cup {"stay", "log_fatal"}
      /\ r.state = "recover_wait" => t = "stay"
  BY <1>1, ReactionInTime, ReactionType
<1>4. r.recover_timeout => r.state = "recover_wait"
  BY DEF Timely
<1>5. r.saved_state \in States /\ "potential_conflict" \in States
  BY DEF Server, States
<1> HIDE DEF q, t
<1>6. \A y : InTime(y, q) => InTime(y, r)
  BY <1>2 DEF InTime, Effective
<1>7. ASSUME NEW new \in States,
             new \in {"recover_done", "recover_wait"} => r.state = "startup",
             r.state # "recover_wait"
      PROVE  InTime(Then(new), r)
  <2>1. InTime(set_state(s, q, new, TRUE), q)
    BY Zenon, <1>2, <1>4, <1>7, SetStateInTime
  <2> QED
    BY Zenon, <1>6, <2>1 DEF InTime, Result
<1>8. CASE OldNews(r, msg)
  <2>1. r.state # "startup"
    BY <1>8 DEF OldNews
  <2>2. x = Result(r, << >>, FALSE)
    BY <1>8, <2>1, Zenon DEF peer_state_changed, Nothing
  <2> QED
    BY Zenon, <2>2, StillInTime
<1>9. CASE ~ OldNews(r, msg) /\ r.state = "startup" /\ r.partner = msg.state
  <2> DEFINE new == IF r.saved_state = "resolution_interrupted"
                    THEN "potential_conflict" ELSE r.saved_state
  <2>1. x = set_state(s, r, new, TRUE)
    BY <1>9 DEF peer_state_changed
  <2>2. new \in States
    BY <1>5
  <2> HIDE DEF new
  <2> QED
    BY Zenon, <1>4, <1>9, <2>1, <2>2, SetStateInTime
<1>10. CASE ~ OldNews(r, msg) /\ ~ (r.state = "startup" /\ r.partner = msg.state)
  <2>1. CASE t # "stay"
    <3>1. x = Then(t)
      BY Zenon, <1>10, <2>1 DEF peer_state_changed, q, t
    <3>2. t \in States
      BY <1>1, <1>3, <1>10, <2>1 DEF Fatal, t
    <3> QED
      BY Zenon, <1>3, <1>7, <2>1, <3>1, <3>2
  <2>2. CASE t = "stay" /\ r.state = "startup"
    <3>1. x = [Then(r.saved_state) EXCEPT !.out = asks \o @]
      BY <1>10, <2>2 DEF peer_state_changed, q, t
    <3>2. InTime(Then(r.saved_state), r)
      BY Zenon, <1>5, <1>7, <2>2
    <3>3. x.r = Then(r.saved_state).r /\ x.wrote = Then(r.saved_state).wrote
      <4> HIDE DEF asks, x
      <4> QED
        BY <3>1 DEF Result
    <3> HIDE DEF x, Then
    <3>4. InTime(x, r)
      BY <3>2, <3>3 DEF InTime
    <3> QED
      BY Zenon, <3>4 DEF x
  <2>3. CASE t = "stay" /\ r.state # "startup"
    <3>1. x = Result(q, asks, TRUE)
      BY <1>10, <2>3 DEF peer_state_changed, q, t
    <3> HIDE DEF asks
    <3> QED
      BY Zenon, <1>2, <3>1, StillInTime
  <2> QED
    BY Zenon, <2>1, <2>2, <2>3
<1> QED
  BY Zenon, <1>8, <1>9, <1>10

LEMMA UpdateDoneInTime ==
    ASSUME NEW s \in Servers, NEW r \in Server, Timely(r)
    PROVE  InTime(process_update_done(s, r, TRUE), r)
<1> DEFINE w == set_state(s, r, "recover_wait", TRUE)
           m == Moved(r, "recover_wait", FALSE)
<1>1. {"normal", "shut_down", "conflict_done", "recover_wait", "recover_done"} \subseteq States
  BY DEF States
<1>2. r.recover_timeout => r.state = "recover_wait"
  BY DEF Timely
<1>3. ASSUME NEW new \in States, r.state \in {"recover", "potential_conflict"},
             new \in {"recover_done", "recover_wait"} => r.state = "recover"
      PROVE  InTime(set_state(s, r, new, TRUE), r)
  BY Zenon, <1>2, <1>3, SetStateInTime
<1>4. CASE r.state = "recover" /\ ~ r.old /\ r.partner \notin {"recover", "recover_done"}
  <2>1. process_update_done(s, r, TRUE) = [w EXCEPT !.r.recover_timeout = TRUE]
    BY <1>4 DEF process_update_done
  <2>2. ~ m.old /\ m.state = "recover_wait" /\ ~ m.auto_timeout /\ m \in Server
    <3>1. m.state = "recover_wait" /\ m \in Server
      BY Zenon, <1>1, MovedType
    <3>2. ~ m.old
      BY <1>4 DEF Moved, Server
    <3>3. ~ m.auto_timeout
      BY Zenon DEF Moved, Server
    <3> QED
      BY Zenon, <3>1, <3>2, <3>3
  <2>3. w = Result(m, Messages(s, m, "recover_wait"), TRUE)
    BY <2>2 DEF set_state
  <2> DEFINE y == [w EXCEPT !.r.recover_timeout = TRUE]
  <2> HIDE DEF m, w
  <2>4. y.r.state = "recover_wait" /\ ~ y.r.auto_timeout /\ y.wrote
    BY <2>2, <2>3 DEF Result, Server
  <2> HIDE DEF y
  <2>5. InTime(y, r)
    BY <2>4 DEF InTime, Timely
  <2> QED
    BY Zenon, <2>1, <2>5 DEF y, w
<1>5. CASE r.state = "recover" /\ (r.old \/ r.partner \in {"recover", "recover_done"})
  <2>1. process_update_done(s, r, TRUE) = set_state(s, r, "recover_done", TRUE)
    BY Zenon, <1>5 DEF process_update_done
  <2> QED
    BY Zenon, <1>1, <1>3, <1>5, <2>1
<1>6. CASE r.state = "potential_conflict" /\ (r.partner = "conflict_done" \/ s = "primary")
  <2>1. \E new \in {"normal", "shut_down", "conflict_done"} :
            process_update_done(s, r, TRUE) = set_state(s, r, new, TRUE)
    BY Zenon, <1>6 DEF process_update_done
  <2> QED
    BY Zenon, <1>1, <1>3, <1>6, <2>1
<1>7. CASE /\ r.state # "recover"
           /\ ~ (r.state = "potential_conflict" /\ (r.partner = "conflict_done" \/ s = "primary"))
  <2>1. process_update_done(s, r, TRUE) = Result(r, << >>, FALSE)
    BY Zenon, <1>7 DEF process_update_done, Nothing
  <2> QED
    BY Zenon, <2>1, StillInTime
<1> QED
  BY Zenon, <1>4, <1>5, <1>6, <1>7

(* What a step does to one server: it stays timely and recorded, and does  *)
(* not end a recovery that it was not in.                                  *)
Kept(s) ==
    /\ Timely(srv'[s]) /\ disk'[s].state = Effective(srv'[s])
    /\ Serving(s) => srv'[s].state # "recover_done"

LEMMA ServingStates ==
    ASSUME NEW s \in Servers, Serving(s)
    PROVE  srv[s].state \notin {"recover", "recover_wait", "startup", "recover_done"}
BY DEF Serving, ServiceState

LEMMA UntouchedKept ==
    ASSUME LateInv, NEW s \in Servers, srv'[s] = srv[s], disk'[s] = disk[s]
    PROVE  Kept(s)
BY ServingStates DEF Kept, LateInv

LEMMA FinishKept ==
    ASSUME TypeOK, LateInv, NEW s \in Servers, NEW x \in Results, NEW c, Finish(s, x, c),
           InTime(x, srv[s])
    PROVE  \A t \in Servers : Kept(t)
<1>1. srv'[s] = x.r /\ disk'[s] = IF x.wrote THEN Form(x.r) ELSE disk[s]
  BY DEF Finish, TypeOK
<1>2. Kept(s)
  <2>1. disk'[s].state = Effective(x.r)
    <3>1. CASE x.wrote
      BY <1>1, <3>1 DEF Form
    <3>2. CASE ~ x.wrote
      BY <1>1, <3>2 DEF InTime, LateInv
    <3> QED
      BY <3>1, <3>2
  <2>2. Serving(s) => x.r.state # "recover_done"
    BY ServingStates DEF InTime
  <2> QED
    BY <1>1, <2>1, <2>2 DEF Kept, InTime
<1>3. ASSUME NEW t \in Servers, t # s
      PROVE  Kept(t)
  <2>1. srv'[t] = srv[t] /\ disk'[t] = disk[t]
    BY <1>3 DEF Finish, TypeOK
  <2> QED
    BY <2>1, UntouchedKept
<1> QED
  BY <1>2, <1>3

LEMMA LoadedKept ==
    ASSUME TypeOK, LateInv, NEW s \in Servers, srv' = [srv EXCEPT ![s] = Loaded(disk'[s])],
           \A t \in Servers : t # s => disk'[t] = disk[t],
           disk'[s].state \in {disk[s].state, "recover"}, disk'[s] \in Recorded
    PROVE  \A t \in Servers : Kept(t)
<1>1. srv'[s] = Loaded(disk'[s])
  BY DEF TypeOK
<1>2. Kept(s)
  <2>1. Timely(Loaded(disk'[s])) /\ Effective(Loaded(disk'[s])) = disk'[s].state
        /\ Loaded(disk'[s]).state = disk'[s].state
    BY DEF Loaded, Timely, Effective
  <2>2. Serving(s) => disk[s].state # "recover_done"
    BY ServingStates DEF LateInv, Effective
  <2> QED
    BY <1>1, <2>1, <2>2 DEF Kept
<1>3. ASSUME NEW t \in Servers, t # s
      PROVE  Kept(t)
  <2>1. srv'[t] = srv[t] /\ disk'[t] = disk[t]
    BY <1>3 DEF TypeOK
  <2> QED
    BY <2>1, UntouchedKept
<1> QED
  BY <1>2, <1>3

(* A server that is down has no connection, no timeout and no mail.        *)
Dormant(s) ==
    /\ chan[s] = << >> /\ ~ srv[s].link /\ ~ srv[s].send_update_done
    /\ ~ srv[s].startup_timeout /\ ~ srv[s].recover_timeout /\ ~ srv[s].auto_timeout

DownInv == \A s \in Servers : up[s] \/ Dormant(s)

LEMMA FinishDown ==
    ASSUME TypeOK, ViewInv, DownInv, NEW s \in Servers, NEW x, NEW c, Finish(s, x, c),
           ~ Dormant(s), alive' => alive, UNCHANGED up
    PROVE  DownInv'
<1>1. up[s]
  BY DEF DownInv
<1>2. ASSUME NEW t \in Servers, ~ up[t]
      PROVE  Dormant(t)'
  <2>1. ~ alive /\ t # s
    BY <1>1, <1>2 DEF ViewInv
  <2>2. srv'[t] = srv[t] /\ chan'[t] = chan[t]
    BY Zenon, <1>2, <2>1 DEF Finish, TypeOK
  <2> QED
    BY <1>2, <2>2 DEF DownInv, Dormant
<1> QED
  BY <1>2 DEF DownInv

LEMMA StopDown ==
    ASSUME TypeOK, DownInv, NEW s \in Servers, srv' = [srv EXCEPT ![s] = Loaded(disk'[s])],
           up' = [up EXCEPT ![s] = FALSE], chan' = [chan EXCEPT ![s] = << >>]
    PROVE  DownInv'
<1>1. Dormant(s)'
  BY DEF Dormant, TypeOK, Loaded
<1>2. ASSUME NEW t \in Servers, t # s
      PROVE  up'[t] \/ Dormant(t)'
  BY <1>2 DEF DownInv, Dormant, TypeOK
<1> QED
  BY <1>1, <1>2 DEF DownInv

(* Only a server that is up does anything but wait to be started.          *)
Active(s) ==
    \/ ConnectAck(s) \/ (State(s) /\ ~ Fatal(srv[s], Head(chan[s])))
    \/ process_update_request(s) \/ UpdatesAcked(s) \/ UpdateDone(s)
    \/ Disconnect(s) \/ StartupTimeout(s) \/ RecoverTimeout(s) \/ AutoTimeout(s)

LEMMA WorkDown ==
    ASSUME TypeOK, ViewInv, DownInv, NEW s \in Servers, Active(s)
    PROVE  DownInv'
<1>1. ~ Dormant(s)
  BY Zenon DEF Active, Dormant, ConnectAck, State, process_update_request, UpdatesAcked, UpdateDone,
     Disconnect, StartupTimeout, RecoverTimeout, AutoTimeout
<1>2. \E x, c : Finish(s, x, c)
  BY Zenon
  DEF Active, ConnectAck, State, process_update_request, UpdatesAcked, UpdateDone, Disconnect,
     StartupTimeout, RecoverTimeout, AutoTimeout, Timeout
<1>3. UNCHANGED up /\ (alive' => alive)
  <2>1. CASE Disconnect(s) \/ StartupTimeout(s)
    BY Zenon, <2>1 DEF Disconnect, StartupTimeout
  <2>2. CASE ConnectAck(s) \/ process_update_request(s) \/ UpdatesAcked(s) \/ UpdateDone(s)
    <3>1. UNCHANGED <<up, alive>>
      BY <2>2, Zenon DEF ConnectAck, process_update_request, UpdatesAcked, UpdateDone
    <3> QED
      BY <3>1
  <2>3. CASE RecoverTimeout(s) \/ AutoTimeout(s)
    BY <2>3 DEF RecoverTimeout, AutoTimeout, Timeout
  <2>4. CASE State(s) /\ ~ Fatal(srv[s], Head(chan[s]))
    BY <2>4 DEF State
  <2> QED
    BY <2>1, <2>2, <2>3, <2>4 DEF Active
<1> QED
  BY <1>1, <1>2, <1>3, FinishDown

LEMMA NextDown ==
    ASSUME TypeOK, ViewInv, DownInv, [Next]_vars
    PROVE  DownInv'
<1>1. CASE UNCHANGED vars
  BY <1>1 DEF vars, DownInv, Dormant
<1>2. CASE Accept
  <2>1. \A t \in Servers : up'[t]
    BY <1>2 DEF Accept, Servers
  <2> QED
    BY <2>1 DEF DownInv
<1>3. CASE ConnectFails
  <2>1. \A t \in Servers : Dormant(t) => Dormant(t)'
    BY <1>3 DEF ConnectFails, Dormant, TypeOK
  <2> QED
    BY <1>3, <2>1 DEF ConnectFails, DownInv
<1>4. ASSUME NEW s \in Servers, Boot(s)
      PROVE  DownInv'
  <2>1. ~ alive /\ ~ alive' /\ \A t \in Servers : t = s \/ t = Peer(s)
    BY <1>4, PeerFacts DEF Boot, ViewInv
  <2>2. up'[s]
    BY <1>4 DEF Boot, TypeOK
  <2>3. ASSUME NEW t \in Servers, t # s
        PROVE  /\ up'[t] = up[t] /\ srv'[t] = srv[t] /\ chan'[t] = chan[t]
    BY <1>4, <2>1, <2>3 DEF Boot, Finish, TypeOK
  <2> QED
    BY <2>2, <2>3 DEF DownInv, Dormant
<1>5. ASSUME NEW s \in Servers, State(s), Fatal(srv[s], Head(chan[s]))
      PROVE  DownInv'
  BY <1>5, StopDown DEF State, Stop
<1>6. ASSUME NEW s \in Servers, Exit(s) \/ Crash(s)
      PROVE  DownInv'
  BY <1>6, StopDown DEF Exit, Crash, Stop
<1>7. ASSUME NEW s \in Servers, MCLTPasses(s)
      PROVE  DownInv'
  <2>1. \A t \in Servers : Dormant(t) => Dormant(t)'
    BY <1>7 DEF MCLTPasses, Dormant, TypeOK, Server
  <2> QED
    BY <1>7, <2>1 DEF MCLTPasses, DownInv
<1>8. ASSUME NEW s \in Servers, LoseFile(s)
      PROVE  DownInv'
  <2>1. \A t \in Servers : Dormant(t) => Dormant(t)'
    BY <1>8 DEF LoseFile, Dormant, TypeOK, Loaded
  <2> QED
    BY <1>8, <2>1 DEF LoseFile, DownInv
<1>9. ASSUME NEW s \in Servers, Operator(s) \/ ShutDown(s)
      PROVE  DownInv'
  <2>1. up[s] /\ UNCHANGED <<up, alive>> /\ \E x, c : Finish(s, x, c)
    BY Zenon, <1>9 DEF Operator, ShutDown
  <2>2. ASSUME NEW t \in Servers, ~ up[t]
        PROVE  Dormant(t)'
    <3>1. ~ alive /\ t # s
      BY <2>1, <2>2 DEF ViewInv
    <3>2. srv'[t] = srv[t] /\ chan'[t] = chan[t]
      BY <2>1, <2>2, <3>1 DEF Finish, TypeOK
    <3> QED
      BY <2>2, <3>2 DEF DownInv, Dormant
  <2> QED
    BY <2>1, <2>2 DEF DownInv
<1>10. ASSUME NEW s \in Servers, Work(s) \/ Disconnect(s)
       PROVE  DownInv'
  <2>1. CASE State(s) /\ Fatal(srv[s], Head(chan[s]))
    BY <1>5, <2>1
  <2>2. CASE Active(s)
    BY <2>2, WorkDown
  <2>3. CASE Boot(s) \/ MCLTPasses(s) \/ Exit(s)
    BY <1>4, <1>6, <1>7, <2>3
  <2>4. Receive(s) => Active(s) \/ (State(s) /\ Fatal(srv[s], Head(chan[s])))
    BY DEF Receive, Active
  <2>5. /\ UpdatesAcked(s) \/ StartupTimeout(s) \/ RecoverTimeout(s) => Active(s)
        /\ AutoTimeout(s) \/ Disconnect(s) => Active(s)
    BY Zenon DEF Active
  <2> QED
    BY <1>10, <2>1, <2>2, <2>3, <2>4, <2>5, Zenon DEF Work
<1> QED
  BY <1>1, <1>2, <1>3, <1>6, <1>8, <1>9, <1>10 DEF Next

LEMMA StepKept ==
    ASSUME TypeOK, DownInv, LateInv, NoOutsideMoves, Next
    PROVE  \A t \in Servers : Kept(t)
<1>1. \A s \in Servers : /\ srv[s] \in Server /\ chan[s] \in Seq(Message)
                         /\ disk[s] \in Recorded /\ Timely(srv[s])
  BY DEF TypeOK, LateInv
<1>2. Writable = {TRUE}
  BY DEF Writable, NoOutsideMoves
<1>3. {"startup", "recover_done", "partner_down", "shut_down"} \subseteq States \cup {"startup"}
  BY DEF States
<1>4. ASSUME Accept
      PROVE  \A t \in Servers : Kept(t)
  <2>1. \A t \in Servers : /\ disk'[t] = disk[t] /\ srv'[t].state = srv[t].state
                            /\ srv'[t].saved_state = srv[t].saved_state
                            /\ srv'[t].recover_timeout = srv[t].recover_timeout
                            /\ srv'[t].auto_timeout = srv[t].auto_timeout
    BY <1>1, <1>4 DEF Accept, TypeOK, Server
  <2> QED
    BY <2>1, ServingStates DEF Kept, LateInv, Timely, Effective
<1>5. ASSUME ConnectFails
      PROVE  \A t \in Servers : Kept(t)
  BY <1>5, UntouchedKept DEF ConnectFails
<1>6. ASSUME NEW s \in Servers, Boot(s)
      PROVE  \A t \in Servers : Kept(t)
  <2>1. Finish(s, set_state(s, srv[s], "startup", TRUE), chan[s])
    BY Zenon, <1>6 DEF Boot
  <2>2. ~ srv[s].recover_timeout
    BY <1>6 DEF Boot, DownInv, Dormant
  <2> QED
    BY Zenon, <1>1, <1>3, <2>1, <2>2, SetStateInTime, SetStateType, FinishKept
<1>7. ASSUME NEW s \in Servers, ConnectAck(s) \/ process_update_request(s) \/ UpdatesAcked(s)
      PROVE  \A t \in Servers : Kept(t)
  <2>1. \A t \in Servers : /\ disk'[t] = disk[t] /\ srv'[t].state = srv[t].state
                            /\ srv'[t].saved_state = srv[t].saved_state
                            /\ srv'[t].recover_timeout = srv[t].recover_timeout
                            /\ srv'[t].auto_timeout = srv[t].auto_timeout
    <3>1. CASE ConnectAck(s)
      BY <1>1, <3>1 DEF ConnectAck, Finish, Result, TypeOK, Server
    <3>2. CASE process_update_request(s)
      BY <1>1, <3>2 DEF process_update_request, Finish, Result, TypeOK, Server
    <3>3. CASE UpdatesAcked(s)
      BY <1>1, <3>3 DEF UpdatesAcked, Finish, Result, TypeOK, Server
    <3> QED
      BY <1>7, <3>1, <3>2, <3>3
  <2> QED
    BY <2>1, ServingStates DEF Kept, LateInv, Timely, Effective
<1>8. ASSUME NEW s \in Servers, State(s), ~ Fatal(srv[s], Head(chan[s]))
      PROVE  \A t \in Servers : Kept(t)
  <2>1. Finish(s, peer_state_changed(s, srv[s], Head(chan[s]), TRUE, TRUE), Tail(chan[s]))
    BY Zenon, <1>2, <1>8 DEF State
  <2>2. Head(chan[s]) \in Message /\ Head(chan[s]).type = "state"
    BY <1>1, <1>8 DEF State
  <2>3. peer_state_changed(s, srv[s], Head(chan[s]), TRUE, TRUE) \in Results
    BY Zenon, <1>1, <1>8, <2>2, PeerStateTells DEF Announced
  <2> QED
    BY Zenon, <1>1, <1>8, <2>1, <2>2, <2>3, PeerStateInTime, FinishKept
<1>9. ASSUME NEW s \in Servers, UpdateDone(s)
      PROVE  \A t \in Servers : Kept(t)
  <2>1. Finish(s, process_update_done(s, srv[s], TRUE), Tail(chan[s]))
    BY Zenon, <1>2, <1>9 DEF UpdateDone
  <2>2. process_update_done(s, srv[s], TRUE) \in Results
    BY Zenon, <1>1, UpdateDoneTells DEF Announced
  <2> QED
    BY Zenon, <1>1, <2>1, <2>2, UpdateDoneInTime, FinishKept
<1>10. ASSUME NEW s \in Servers, Disconnect(s) \/ StartupTimeout(s)
       PROVE  \A t \in Servers : Kept(t)
  <2>1. \E c : Finish(s, disconnect(s, srv[s], TRUE), c)
    BY Zenon, <1>2, <1>10 DEF Disconnect, StartupTimeout
  <2>2. disconnect(s, srv[s], TRUE) \in Results
    BY Zenon, <1>1, DisconnectType
  <2> QED
    BY Zenon, <1>1, <2>1, <2>2, DisconnectInTime, FinishKept
<1>11. ASSUME NEW s \in Servers, NEW r \in Server, NEW new \in States, ~ r.recover_timeout,
              r.state = srv[s].state, r.saved_state = srv[s].saved_state,
              new # "recover_wait", new = "recover_done" => srv[s].state = "recover_wait",
              Finish(s, set_state(s, r, new, TRUE), chan[s])
       PROVE  \A t \in Servers : Kept(t)
  <2>1. InTime(set_state(s, r, new, TRUE), r)
    BY Zenon, <1>11, SetStateInTime
  <2>2. InTime(set_state(s, r, new, TRUE), srv[s])
    BY Zenon, <1>11, <2>1 DEF InTime, Effective
  <2>3. set_state(s, r, new, TRUE) \in Results
    BY Zenon, <1>11, SetStateType
  <2> QED
    BY Zenon, <1>11, <2>2, <2>3, FinishKept
<1>12. ASSUME NEW s \in Servers, RecoverTimeout(s)
       PROVE  \A t \in Servers : Kept(t)
  <2> DEFINE r == [srv[s] EXCEPT !.recover_timeout = FALSE]
  <2>1. /\ r \in Server /\ ~ r.recover_timeout /\ r.state = srv[s].state
        /\ r.saved_state = srv[s].saved_state
    BY Zenon, <1>1 DEF Server
  <2>2. srv[s].state = "recover_wait"
    BY <1>1, <1>12 DEF RecoverTimeout, Timely
  <2>3. Finish(s, set_state(s, r, "recover_done", TRUE), chan[s])
    BY Zenon, <1>2, <1>12 DEF RecoverTimeout, Timeout
  <2> HIDE DEF r
  <2> QED
    BY Zenon, <1>3, <1>11, <2>1, <2>2, <2>3
<1>13. ASSUME NEW s \in Servers, AutoTimeout(s)
       PROVE  \A t \in Servers : Kept(t)
  <2> DEFINE r == [srv[s] EXCEPT !.auto_timeout = FALSE]
  <2>1. srv[s].auto_timeout
    BY <1>13 DEF AutoTimeout
  <2>2. /\ r \in Server /\ ~ r.recover_timeout /\ r.state = srv[s].state
        /\ r.saved_state = srv[s].saved_state
    BY Zenon, <1>1, <2>1 DEF Server, Timely
  <2>3. Finish(s, set_state(s, r, "partner_down", TRUE), chan[s])
    BY Zenon, <1>2, <1>13 DEF AutoTimeout, Timeout
  <2> HIDE DEF r
  <2> QED
    BY Zenon, <1>3, <1>11, <2>2, <2>3
<1>14. ASSUME NEW s \in Servers, ShutDown(s)
       PROVE  \A t \in Servers : Kept(t)
  <2>1. srv[s].state = "normal" /\ Finish(s, set_state(s, srv[s], "shut_down", TRUE), chan[s])
    BY Zenon, <1>14 DEF ShutDown
  <2>2. ~ srv[s].recover_timeout
    BY <1>1, <2>1 DEF Timely
  <2> QED
    BY Zenon, <1>1, <1>3, <1>11, <2>1, <2>2
<1>15. ASSUME NEW s \in Servers, MCLTPasses(s)
       PROVE  \A t \in Servers : Kept(t)
  <2>1. \A t \in Servers : /\ disk'[t].state = disk[t].state /\ srv'[t].state = srv[t].state
                            /\ srv'[t].saved_state = srv[t].saved_state
                            /\ srv'[t].recover_timeout = srv[t].recover_timeout
                            /\ srv'[t].auto_timeout = srv[t].auto_timeout
    BY <1>1, <1>15 DEF MCLTPasses, TypeOK, Server, Recorded
  <2> QED
    BY <2>1, ServingStates DEF Kept, LateInv, Timely, Effective
<1>16. ASSUME NEW s \in Servers, State(s), Fatal(srv[s], Head(chan[s]))
       PROVE  \A t \in Servers : Kept(t)
  <2>1. /\ disk' = [disk EXCEPT ![s].partner = Head(chan[s]).state]
        /\ srv' = [srv EXCEPT ![s] = Loaded(disk'[s])]
    BY <1>16 DEF State, Stop
  <2>2. Head(chan[s]).state \in States
    BY <1>1, <1>16 DEF State, Message
  <2>3. /\ disk'[s] \in Recorded /\ disk'[s].state = disk[s].state
        /\ \A t \in Servers : t # s => disk'[t] = disk[t]
    BY Zenon, <1>1, <2>1, <2>2 DEF TypeOK, Recorded
  <2> QED
    BY Zenon, <2>1, <2>3, LoadedKept
<1>17. ASSUME NEW s \in Servers, Exit(s) \/ Crash(s) \/ LoseFile(s)
       PROVE  \A t \in Servers : Kept(t)
  <2>1. CASE Exit(s)
    <3>1. PICK d \in BOOLEAN : disk' = [disk EXCEPT ![s] = Form(Moved(srv[s], "recover", d))]
      BY Zenon, <2>1 DEF Exit
    <3>2. Moved(srv[s], "recover", d) \in Server /\ Moved(srv[s], "recover", d).state = "recover"
      BY <1>1, MovedType DEF States
    <3>3. /\ Form(Moved(srv[s], "recover", d)) \in Recorded
          /\ Form(Moved(srv[s], "recover", d)).state = "recover"
      BY <3>2, EffectiveType DEF Form, Recorded, Server, Effective
    <3>4. /\ disk'[s] \in Recorded /\ disk'[s].state = "recover"
          /\ \A t \in Servers : t # s => disk'[t] = disk[t]
      BY <3>1, <3>3 DEF TypeOK
    <3> QED
      BY Zenon, <2>1, <3>4, LoadedKept DEF Exit, Stop
  <2>2. CASE Crash(s)
    BY Zenon, <1>1, <2>2, LoadedKept DEF Crash, Stop
  <2>3. CASE LoseFile(s)
    <3>1. disk'[s] = Fresh /\ \A t \in Servers : t # s => disk'[t] = disk[t]
      BY <2>3 DEF LoseFile, TypeOK
    <3>2. Fresh \in Recorded /\ Fresh.state = "recover"
      BY DEF Fresh, Recorded, States
    <3>3. srv' = [srv EXCEPT ![s] = Loaded(disk'[s])]
      BY Zenon, <2>3, <3>1 DEF LoseFile
    <3> QED
      BY Zenon, <3>1, <3>2, <3>3, LoadedKept
  <2> QED
    BY <1>17, <2>1, <2>2, <2>3
<1>18. ASSUME NEW s \in Servers, Operator(s)
       PROVE  FALSE
  BY <1>18 DEF Operator, NoOutsideMoves
<1> QED
  BY <1>4, <1>5, <1>6, <1>7, <1>8, <1>9, <1>10, <1>12, <1>13, <1>14, <1>15, <1>16, <1>17, <1>18
     DEF Next, Work, Receive

(***************************************************************************)
(* A server that answers clients does not fall back into recovery by the   *)
(* timeout of dhcp_failover_process_update_done, which nothing cancels, as *)
(* long as no operator moves a server and every move is recorded.          *)
(***************************************************************************)
THEOREM RecoveryInTime ==
    ASSUME NoOutsideMoves
    PROVE  Spec => NoLateRecovery
<1>1. Init => TypeOK /\ ViewInv /\ DownInv /\ LateInv
  <2> SUFFICES ASSUME Init PROVE DownInv /\ LateInv
    BY InitView
  <2> QED
    BY DEF Init, DownInv, Dormant, LateInv, Timely, Effective, Loaded, Fresh
<1>2. TypeOK /\ ViewInv /\ DownInv /\ LateInv /\ [Next]_vars
        => /\ TypeOK' /\ ViewInv' /\ DownInv' /\ LateInv'
           /\ [\A s \in Servers : Serving(s) => srv'[s].state # "recover_done"]_vars
  <2> SUFFICES ASSUME TypeOK, ViewInv, DownInv, LateInv, [Next]_vars
               PROVE  /\ LateInv'
                      /\ [\A s \in Servers : Serving(s) => srv'[s].state # "recover_done"]_vars
    BY NextView, NextDown
  <2>1. CASE Next
    <3>1. \A t \in Servers : Kept(t)
      BY <2>1, StepKept
    <3>2. LateInv'
      BY <3>1 DEF Kept, LateInv
    <3> QED
      BY <3>1, <3>2 DEF Kept
  <2>2. CASE UNCHANGED vars
    BY <2>2 DEF vars, LateInv
  <2> QED
    BY <2>1, <2>2
<1> QED
  BY <1>1, <1>2, PTL DEF Spec, NoLateRecovery


=============================================================================
