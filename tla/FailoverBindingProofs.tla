------------------------ MODULE FailoverBindingProofs ------------------------
(***************************************************************************)
(* What a failover server has not committed is still to be settled, for    *)
(* any number of clients, any times and any number of lost connections,    *)
(* stops and full queues.  The property concerns one server at a time: the *)
(* proof goes through the operators of FailoverBinding one by one and      *)
(* shows that each keeps a server "Good", whatever the messages say.       *)
(***************************************************************************)
EXTENDS FailoverBinding, SequenceTheorems, TLAPS

(* The values the fields take; times and transaction numbers are unbounded. *)
Owners == Clients \cup {NoClient}

LeaseSet ==
    [state : BindingStates, next : BindingStates, desired : BindingStates,
     rewind : BindingStates, ends : Int, tstp : Int, tsfp : Int, atsfp : Int,
     cltt : Int, client : Owners, queue : {"none", "update", "ack"}, xid : Nat]

Updates == [type : {"bndupd"}, xid : Nat, status : BindingStates, client : Owners,
            ends : Int, tstp : Int, cltt : Int]
Acks == [type : {"bndack"}, xid : Nat, rejected : BOOLEAN]
Messages == Updates \cup Acks \cup [type : {"state"}]

ServerStates == {"normal", "communications_interrupted", "partner_down", "stopped"}

ServerSet ==
    [lease : LeaseSet, written : LeaseSet, disk : LeaseSet, toack : Seq(Nat),
     out : Seq(Messages), xid : Nat, link : BOOLEAN, others : {"none", "some", "full"},
     state : ServerStates, stos : Int]

(* What is not committed waits for an acknowledgement, to send or to come. *)
Settled(r) ==
    Bound(r.disk) # Bound(r.written) =>
        r.toack # << >> \/ r.lease.queue # "none" \/ r.others # "none"

(* A lease that waits for an answer is on a queue, and files know no queue. *)
Answerable(r) ==
    /\ r.lease.queue = "none" => r.lease.xid = 0
    /\ r.written.queue = "none" /\ r.written.xid = 0
    /\ r.disk.queue = "none" /\ r.disk.xid = 0

Good(r) == r \in ServerSet /\ Settled(r) /\ Answerable(r)

Queued(r) == Good(r) /\ r.lease.queue # "none"

(* The inductive invariant.                                                *)
SettledInv ==
    /\ clock \in Int
    /\ chan \in [Servers -> Seq(Messages)]
    /\ srv \in [Servers -> ServerSet]
    /\ \A s \in Servers : Good(srv[s])

-----------------------------------------------------------------------------
(***************************************************************************)
(* The file and the messages.                                              *)
(***************************************************************************)
LEMMA LeaseChanged ==
    ASSUME NEW r, Good(r), NEW l \in LeaseSet, l.queue = r.lease.queue, l.xid = r.lease.xid,
           NEW q, q = [r EXCEPT !.lease = l]
    PROVE  Good(q) /\ q.lease = l /\ q.state = r.state /\ q.stos = r.stos /\ q.others = r.others
BY Zenon DEF Good, Settled, Answerable, ServerSet

LEMMA Writes ==
    ASSUME NEW r, Queued(r)
    PROVE  Queued(Write(r))
<1>1. r \in ServerSet /\ r.lease \in LeaseSet
  BY DEF Queued, Good, ServerSet
<1>2. Record(r.lease) \in LeaseSet /\ Record(r.lease).queue = "none" /\ Record(r.lease).xid = 0
  BY Zenon, <1>1 DEF Record, LeaseSet
<1> HIDE DEF Record
<1> QED
  BY Zenon, <1>1, <1>2 DEF Queued, Good, Settled, Answerable, ServerSet, Write

LEMMA Commits ==
    ASSUME NEW r, Good(r)
    PROVE  Good(Commit(r)) /\ Commit(r).lease = r.lease /\ Commit(r).others = r.others
BY Zenon DEF Good, Settled, Answerable, ServerSet, Commit

LEMMA CommitsWritten ==
    ASSUME NEW r, Good(r)
    PROVE  Good(Commit(Write(r))) /\ Commit(Write(r)).lease = r.lease
           /\ Commit(Write(r)).state = r.state /\ Commit(Write(r)).stos = r.stos
<1>1. r \in ServerSet /\ r.lease \in LeaseSet
  BY DEF Good, ServerSet
<1>2. Record(r.lease) \in LeaseSet /\ Record(r.lease).queue = "none" /\ Record(r.lease).xid = 0
  BY Zenon, <1>1 DEF Record, LeaseSet
<1> HIDE DEF Record
<1> QED
  BY Zenon, <1>1, <1>2 DEF Good, Settled, Answerable, ServerSet, Write, Commit

LEMMA Sends ==
    ASSUME NEW r, Good(r), NEW m \in Messages
    PROVE  Good(Send(r, m)) /\ Send(r, m).lease = r.lease
<1>1. Append(r.out, m) \in Seq(Messages)
  BY AppendProperties DEF Good, ServerSet
<1> QED
  BY Zenon, <1>1 DEF Good, Settled, Answerable, ServerSet, Send

LEMMA AcksOf ==
    ASSUME NEW q \in Seq(Nat)
    PROVE  [i \in DOMAIN q |-> BNDACK(q[i], FALSE)] \in Seq(Messages)
<1>1. DOMAIN q = 1 .. Len(q) /\ Len(q) \in Nat /\ \A i \in 1 .. Len(q) : q[i] \in Nat
  BY LenProperties, ElementOfSeq
<1>2. \A i \in 1 .. Len(q) : BNDACK(q[i], FALSE) \in Messages
  BY <1>1 DEF BNDACK, Messages, Acks
<1> DEFINE acks == [i \in DOMAIN q |-> BNDACK(q[i], FALSE)]
<1>3. acks \in [1 .. Len(q) -> Messages]
  BY <1>1, <1>2, Zenon
<1> HIDE DEF acks
<1>4. acks \in Seq(Messages)
  BY <1>1, <1>3
<1> QED
  BY <1>4, Zenon DEF acks

LEMMA SendsAcks ==
    ASSUME NEW r, Good(r)
    PROVE  Good(send_acks(r)) /\ send_acks(r).lease = r.lease /\ send_acks(r).others = r.others
<1> DEFINE acks == [i \in DOMAIN r.toack |-> BNDACK(r.toack[i], FALSE)]
<1>1. r \in ServerSet /\ r.toack \in Seq(Nat) /\ r.out \in Seq(Messages)
  BY DEF Good, ServerSet
<1>2. acks \in Seq(Messages)
  BY Zenon, <1>1, AcksOf
<1> HIDE DEF acks
<1>3. r.out \o acks \in Seq(Messages)
  BY <1>1, <1>2, ConcatProperties
<1>4. PICK o \in Seq(Messages) : o = r.out \o acks
  BY Zenon, <1>3
<1>5. send_acks(r) = [[r EXCEPT !.disk = r.written] EXCEPT !.out = o, !.toack = << >>]
  BY <1>1, <1>4 DEF send_acks, Commit, ServerSet, acks
<1>6. << >> \in Seq(Nat)
  OBVIOUS
<1> DEFINE q == send_acks(r)
<1>7. /\ q \in ServerSet /\ q.disk = r.written /\ q.written = r.written
      /\ q.lease = r.lease /\ q.others = r.others
  BY Zenon, <1>1, <1>5, <1>6 DEF ServerSet
<1> HIDE DEF q
<1>8. Good(q)
  BY <1>7 DEF Good, Settled, Answerable
<1> QED
  BY <1>7, <1>8 DEF q

-----------------------------------------------------------------------------
(***************************************************************************)
(* The queues.                                                             *)
(***************************************************************************)
LEMMA Unwinds ==
    ASSUME NEW r, Good(r)
    PROVE  /\ Good(Unwindable(r))
           /\ Unwindable(r).lease.queue = r.lease.queue
           /\ Unwindable(r).lease.xid = r.lease.xid
<1>1. CASE r.lease.rewind = r.lease.state
  BY <1>1 DEF Unwindable
<1>2. CASE r.lease.rewind # r.lease.state
  <2>1. r \in ServerSet /\ r.lease \in LeaseSet
    BY DEF Good, ServerSet
  <2> DEFINE l == [r.lease EXCEPT !.rewind = r.lease.state]
  <2>2. l \in LeaseSet /\ l.queue = r.lease.queue /\ l.xid = r.lease.xid
    BY <2>1 DEF LeaseSet
  <2> HIDE DEF l
  <2> DEFINE q == [r EXCEPT !.lease = l]
  <2>3. Good(q) /\ q.lease = l
    BY <2>2, LeaseChanged
  <2>4. Unwindable(r) = Commit(Write(q))
    BY <1>2 DEF Unwindable, l
  <2> HIDE DEF q
  <2>5. Good(Commit(Write(q))) /\ Commit(Write(q)).lease = l
    BY <2>3, CommitsWritten
  <2> QED
    BY <2>2, <2>4, <2>5
<1> QED
  BY <1>1, <1>2

LEMMA SendsUpdate ==
    ASSUME NEW r, Good(r), r.lease.queue = "update"
    PROVE  Queued(send_bind_update(r))
<1> DEFINE u == Unwindable(r)
           n == r.xid + 1
           l == [u.lease EXCEPT !.xid = n]
           v == [u EXCEPT !.xid = n, !.lease = l]
           m == BNDUPD(n, r.lease)
<1>1. Good(u) /\ u.lease.queue = "update"
  BY Unwinds
<1>2. r \in ServerSet /\ r.lease \in LeaseSet /\ n \in Nat
  BY DEF Good, ServerSet
<1>3. m \in Messages
  BY <1>2 DEF BNDUPD, Messages, Updates, LeaseSet
<1>4. send_bind_update(r) = Send(v, m)
  BY DEF send_bind_update
<1> HIDE DEF u, n, m
<1>5. u \in ServerSet /\ u.lease \in LeaseSet
  BY <1>1 DEF Good, ServerSet
<1>6. l \in LeaseSet /\ l.queue = "update"
  BY <1>1, <1>2, <1>5 DEF LeaseSet
<1> HIDE DEF l
<1>7. /\ v \in ServerSet /\ v.lease = l /\ v.disk = u.disk /\ v.written = u.written
  BY Zenon, <1>2, <1>5, <1>6 DEF ServerSet
<1> HIDE DEF v
<1>8. Good(v)
  BY <1>1, <1>6, <1>7 DEF Good, Settled, Answerable
<1> QED
  BY <1>3, <1>4, <1>6, <1>7, <1>8, Sends DEF Queued

LEMMA SendsOne ==
    ASSUME NEW r, Good(r)
    PROVE  Good(Sent(r)) /\ (r.lease.queue # "none" => Queued(Sent(r)))
<1>1. CASE r.others # "full" /\ r.lease.queue = "update"
  <2> DEFINE u == send_bind_update(r)
             l == [u.lease EXCEPT !.queue = "ack"]
  <2>1. Queued(u)
    BY <1>1, SendsUpdate
  <2>2. Sent(r) = [u EXCEPT !.lease = l]
    BY <1>1 DEF Sent
  <2> HIDE DEF u
  <2>3. u \in ServerSet /\ u.lease \in LeaseSet
    BY <2>1 DEF Queued, Good, ServerSet
  <2>4. l \in LeaseSet /\ l.queue = "ack"
    BY <2>3 DEF LeaseSet
  <2> HIDE DEF l
  <2> DEFINE v == [u EXCEPT !.lease = l]
  <2>5. v \in ServerSet /\ v.lease = l /\ v.disk = u.disk /\ v.written = u.written
    BY Zenon, <2>3, <2>4 DEF ServerSet
  <2> HIDE DEF v
  <2>6. Queued(v)
    BY <2>1, <2>4, <2>5 DEF Queued, Good, Settled, Answerable
  <2> QED
    BY <2>2, <2>6 DEF v, Queued
<1>2. CASE ~ (r.others # "full" /\ r.lease.queue = "update")
  BY <1>2 DEF Sent, Queued
<1> QED
  BY <1>1, <1>2

LEMMA SendsUpdates ==
    ASSUME NEW r, Good(r)
    PROVE  Good(send_updates(r)) /\ (r.lease.queue # "none" => Queued(send_updates(r)))
<1>1. CASE r.link /\ r.toack = << >>
  BY <1>1, SendsOne DEF send_updates
<1>2. CASE r.link /\ r.toack # << >>
  <2>1. Good(send_acks(r)) /\ send_acks(r).lease = r.lease
    BY SendsAcks
  <2> QED
    BY <1>2, <2>1, SendsOne DEF send_updates
<1>3. CASE ~ r.link
  BY <1>3 DEF send_updates, Queued
<1> QED
  BY <1>1, <1>2, <1>3

(* A lease taken off the ack queue is committed, or others still wait.     *)
LEMMA Removes ==
    ASSUME NEW r, Good(r)
    PROVE  Good(ack_queue_remove(r))
<1>1. CASE r.lease.queue # "ack"
  BY <1>1 DEF ack_queue_remove
<1>2. CASE r.lease.queue = "ack"
  <2> DEFINE u == CommitIf(r.others = "none", r)
             l == [u.lease EXCEPT !.queue = "none", !.xid = 0]
             v == [u EXCEPT !.lease = l]
  <2>1. Good(u) /\ u.others = r.others
    BY Commits DEF CommitIf
  <2>2. Bound(u.disk) # Bound(u.written) => u.others # "none"
    BY DEF CommitIf, Commit, Good, ServerSet
  <2>3. ack_queue_remove(r) = v
    BY Zenon, <1>2 DEF ack_queue_remove
  <2> HIDE DEF u
  <2>4. u \in ServerSet /\ u.lease \in LeaseSet
    BY <2>1 DEF Good, ServerSet
  <2>5. l \in LeaseSet /\ l.queue = "none" /\ l.xid = 0
    BY Zenon, <2>4 DEF LeaseSet
  <2> HIDE DEF l
  <2>6. /\ v \in ServerSet /\ v.lease = l /\ v.disk = u.disk /\ v.written = u.written
        /\ v.others = u.others
    BY Zenon, <2>4, <2>5 DEF ServerSet
  <2> HIDE DEF v
  <2>7. Good(v)
    BY <2>1, <2>2, <2>5, <2>6 DEF Good, Settled, Answerable
  <2> QED
    BY <2>3, <2>7
<1> QED
  BY <1>1, <1>2

LEMMA Enqueued ==
    ASSUME NEW r, Good(r), NEW q, q = [r EXCEPT !.lease.queue = "update"]
    PROVE  Queued(q)
<1>1. r \in ServerSet /\ r.lease \in LeaseSet
  BY DEF Good, ServerSet
<1> DEFINE l == [r.lease EXCEPT !.queue = "update"]
<1>2. l \in LeaseSet /\ l.queue = "update" /\ q = [r EXCEPT !.lease = l]
  BY <1>1 DEF LeaseSet
<1> HIDE DEF l
<1>3. q \in ServerSet /\ q.lease = l /\ q.disk = r.disk /\ q.written = r.written
  BY Zenon, <1>1, <1>2 DEF ServerSet
<1> QED
  BY <1>2, <1>3 DEF Queued, Good, Settled, Answerable

LEMMA QueuesUpdate ==
    ASSUME NEW r, Good(r), NEW immediate
    PROVE  Queued(queue_update(r, immediate))
<1>1. CASE r.lease.queue = "update"
  BY <1>1 DEF queue_update, Queued
<1>2. CASE r.lease.queue # "update"
  <2> DEFINE u == ack_queue_remove(r)
             v == [u EXCEPT !.lease.queue = "update"]
  <2>1. queue_update(r, immediate) = SendIf(immediate, v)
    BY <1>2 DEF queue_update
  <2>2. Good(u)
    BY Removes
  <2> HIDE DEF u
  <2>3. Queued(v)
    BY <2>2, Enqueued
  <2> HIDE DEF v
  <2>4. Queued(send_updates(v))
    BY <2>3, SendsUpdates DEF Queued
  <2> QED
    BY <2>1, <2>3, <2>4 DEF SendIf
<1> QED
  BY <1>1, <1>2

(* A record written for the partner's update waits for the ack to be sent. *)
LEMMA QueuesAck ==
    ASSUME NEW r, Good(r), NEW x \in Nat
    PROVE  Good(queue_ack(Write(r), x))
<1> DEFINE k == Record(r.lease)
           a == Append(r.toack, x)
           v == [Write(r) EXCEPT !.toack = a]
<1>1. r \in ServerSet /\ r.lease \in LeaseSet /\ r.toack \in Seq(Nat)
  BY DEF Good, ServerSet
<1>2. k \in LeaseSet /\ k.queue = "none" /\ k.xid = 0
  BY Zenon, <1>1 DEF Record, LeaseSet
<1>3. a \in Seq(Nat) /\ a # << >>
  BY <1>1, AppendProperties
<1>4. queue_ack(Write(r), x) = Flushed(v) /\ v = [[r EXCEPT !.written = k] EXCEPT !.toack = a]
  BY <1>1 DEF queue_ack, Write, ServerSet
<1> HIDE DEF k, a, v
<1>5. /\ v \in ServerSet /\ v.toack # << >> /\ v.lease = r.lease
      /\ v.written = k /\ v.disk = r.disk
  BY Zenon, <1>1, <1>2, <1>3, <1>4 DEF ServerSet
<1>6. Good(v)
  BY <1>2, <1>5 DEF Good, Settled, Answerable
<1> QED
  BY <1>4, <1>6, SendsAcks DEF Flushed

LEMMA Rescinds ==
    ASSUME NEW r, Good(r)
    PROVE  Good(rescind_updates(r))
BY Enqueued DEF rescind_updates, Queued

-----------------------------------------------------------------------------
(***************************************************************************)
(* supersede_lease: a record that is written without a commit is propagated *)
(* to the partner, so that the lease is queued.                            *)
(***************************************************************************)
LEMMA NextStates ==
    ASSUME NEW s \in BindingStates
    PROVE  NextAfter(s, TRUE) \in BindingStates
BY DEF NextAfter, BindingStates, FREE, ACTIVE, EXPIRED, RELEASED, ABANDONED, RESET, BACKUP

LEMMA Transitions ==
    ASSUME NEW r, Good(r)
    PROVE  Good(Transition(r)) /\ Transition(r).lease.queue = r.lease.queue
<1> DEFINE m == make_binding_state_transition(r.lease, TRUE)
<1>1. r \in ServerSet /\ r.lease \in LeaseSet /\ r.stos \in Int
  BY DEF Good, ServerSet
<1>2. m \in LeaseSet /\ m.queue = r.lease.queue /\ m.xid = r.lease.xid
  <2>1. r.lease.next \in BindingStates /\ NextAfter(r.lease.next, TRUE) \in BindingStates
    BY Zenon, <1>1, NextStates DEF LeaseSet
  <2> QED
    BY Zenon, <1>1, <2>1 DEF LeaseSet, make_binding_state_transition
<1> HIDE DEF m
<1>3. \E t, u \in Int : Transition(r) = [r EXCEPT !.lease = [m EXCEPT !.tstp = t, !.tsfp = u]]
  <2>1. r.lease.ends \in Int /\ m.tstp \in Int /\ m.tsfp \in Int /\ r.stos + MCLT \in Int
    BY <1>1, <1>2, FailoverBindingAssumption DEF LeaseSet
  <2> QED
    BY <2>1, Zenon DEF Transition, Stamped, m
<1>4. PICK t \in Int, u \in Int : Transition(r) = [r EXCEPT !.lease = [m EXCEPT !.tstp = t, !.tsfp = u]]
  BY Zenon, <1>3
<1> DEFINE l == [m EXCEPT !.tstp = t, !.tsfp = u]
<1>5. l \in LeaseSet /\ l.queue = r.lease.queue /\ l.xid = r.lease.xid
  BY Zenon, <1>2 DEF LeaseSet
<1> HIDE DEF l
<1>6. Transition(r) = [r EXCEPT !.lease = l]
  BY <1>4 DEF l
<1> QED
  BY <1>5, <1>6, LeaseChanged

LEMMA FieldSet ==
    ASSUME NEW r, Good(r), NEW b \in BindingStates, NEW t \in Int
    PROVE  /\ Good([r EXCEPT !.lease.rewind = b])
           /\ Good([r EXCEPT !.lease.desired = b])
           /\ Good([r EXCEPT !.lease.next = b])
           /\ Good([r EXCEPT !.lease.atsfp = t])
           /\ [r EXCEPT !.lease.rewind = b].lease.queue = r.lease.queue
           /\ [r EXCEPT !.lease.atsfp = t].lease.queue = r.lease.queue
<1>1. r \in ServerSet /\ r.lease \in LeaseSet
  BY DEF Good, ServerSet
<1>2. Good([r EXCEPT !.lease.rewind = b]) /\ [r EXCEPT !.lease.rewind = b].lease.queue = r.lease.queue
  <2> DEFINE l == [r.lease EXCEPT !.rewind = b]
  <2>1. l \in LeaseSet /\ l.queue = r.lease.queue /\ l.xid = r.lease.xid
    BY <1>1 DEF LeaseSet
  <2> HIDE DEF l
  <2>2. Good([r EXCEPT !.lease = l]) /\ [r EXCEPT !.lease = l].lease = l
    BY <2>1, LeaseChanged
  <2> QED
    BY Zenon, <2>1, <2>2 DEF l
<1>3. Good([r EXCEPT !.lease.desired = b])
  <2> DEFINE l == [r.lease EXCEPT !.desired = b]
  <2>1. l \in LeaseSet /\ l.queue = r.lease.queue /\ l.xid = r.lease.xid
    BY <1>1 DEF LeaseSet
  <2> HIDE DEF l
  <2>2. Good([r EXCEPT !.lease = l])
    BY <2>1, LeaseChanged
  <2> QED
    BY <2>2 DEF l
<1>4. Good([r EXCEPT !.lease.next = b])
  <2> DEFINE l == [r.lease EXCEPT !.next = b]
  <2>1. l \in LeaseSet /\ l.queue = r.lease.queue /\ l.xid = r.lease.xid
    BY <1>1 DEF LeaseSet
  <2> HIDE DEF l
  <2>2. Good([r EXCEPT !.lease = l])
    BY <2>1, LeaseChanged
  <2> QED
    BY <2>2 DEF l
<1>5. Good([r EXCEPT !.lease.atsfp = t]) /\ [r EXCEPT !.lease.atsfp = t].lease.queue = r.lease.queue
  <2> DEFINE l == [r.lease EXCEPT !.atsfp = t]
  <2>1. l \in LeaseSet /\ l.queue = r.lease.queue /\ l.xid = r.lease.xid
    BY <1>1 DEF LeaseSet
  <2> HIDE DEF l
  <2>2. Good([r EXCEPT !.lease = l]) /\ [r EXCEPT !.lease = l].lease = l
    BY <2>1, LeaseChanged
  <2> QED
    BY Zenon, <2>1, <2>2 DEF l
<1> QED
  BY <1>2, <1>3, <1>4, <1>5

LEMMA Numbers == 0 \in Int /\ MIN_TIME \in Int
BY DEF MIN_TIME

LEMMA States ==
    ASSUME NEW r, Good(r)
    PROVE  /\ r.lease.state \in BindingStates
           /\ r.lease.next \in BindingStates
           /\ r.lease.rewind \in BindingStates
BY Zenon DEF Good, ServerSet, LeaseSet

LEMMA Records ==
    ASSUME NEW r, Good(r), NEW commit, NEW propagate
    PROVE  /\ Good(Recorded(r, commit, propagate))
           /\ Recorded(r, commit, propagate).lease.queue = r.lease.queue
<1> DEFINE u == IF propagate /\ Cooperating(r) THEN [r EXCEPT !.lease.rewind = r.lease.state] ELSE r
<1>1. Good(u) /\ u.lease.queue = r.lease.queue
  <2>1. /\ Good([r EXCEPT !.lease.rewind = r.lease.state])
        /\ [r EXCEPT !.lease.rewind = r.lease.state].lease.queue = r.lease.queue
    BY Zenon, States, FieldSet, Numbers
  <2> QED
    BY <2>1
<1>2. Recorded(r, commit, propagate) = IF ~ commit THEN r ELSE Commit(Write(u))
  BY DEF Recorded
<1> HIDE DEF u
<1>3. Good(Commit(Write(u))) /\ Commit(Write(u)).lease = u.lease
  BY <1>1, CommitsWritten
<1> QED
  BY <1>1, <1>2, <1>3

LEMMA Propagates ==
    ASSUME NEW r, Good(r), NEW immediate
    PROVE  Queued(Propagated(r, immediate))
<1>1. Good([r EXCEPT !.lease.desired = r.lease.state])
  BY Zenon, States, FieldSet, Numbers
<1> QED
  BY <1>1, QueuesUpdate DEF Propagated

(* Without propagation the lease stays on the queue it is on.              *)
LEMMA Supersedes ==
    ASSUME NEW r, Good(r), NEW commit, NEW propagate, NEW immediate
    PROVE  /\ Good(Superseded(r, commit, propagate, immediate))
           /\ propagate \/ r.lease.queue # "none" =>
                  Queued(Superseded(r, commit, propagate, immediate))
<1>1. CASE propagate
  <2> DEFINE u == [r EXCEPT !.lease.atsfp = MIN_TIME]
             v == Recorded(Transition(u), commit, TRUE)
  <2>1. Good(u)
    BY Zenon, FieldSet, States, Numbers
  <2>2. Superseded(r, commit, propagate, immediate) = Propagated(v, immediate)
    BY <1>1 DEF Superseded
  <2> HIDE DEF u
  <2>3. Good(v)
    BY Zenon, <2>1, Transitions, Records
  <2> HIDE DEF v
  <2> QED
    BY <2>2, <2>3, Propagates DEF Queued
<1>2. CASE ~ propagate
  <2>1. Superseded(r, commit, propagate, immediate) = Recorded(Transition(r), commit, FALSE)
    BY <1>2 DEF Superseded
  <2>2. Good(Transition(r)) /\ Transition(r).lease.queue = r.lease.queue
    BY Transitions
  <2> DEFINE u == Transition(r)
             v == Recorded(u, commit, FALSE)
  <2> HIDE DEF u
  <2>3. Good(v) /\ v.lease.queue = u.lease.queue
    BY Zenon, <2>2, Records DEF u
  <2> QED
    BY Zenon, <1>2, <2>1, <2>2, <2>3 DEF Queued, u
<1> QED
  BY <1>1, <1>2

LEMMA Expires ==
    ASSUME NEW s, NEW r, Good(r)
    PROVE  Queued(Expired(s, r))
<1> DEFINE u == IF r.lease.next = EXPIRED /\ Rewound(s, r)
                THEN [r EXCEPT !.lease.next = r.lease.rewind] ELSE r
<1>1. Good(u)
  <2>1. Good([r EXCEPT !.lease.next = r.lease.rewind])
    BY Zenon, States, FieldSet, Numbers
  <2> QED
    BY <2>1
<1>2. Expired(s, r) = Superseded(u, TRUE, TRUE, TRUE)
  BY DEF Expired
<1> HIDE DEF u
<1> QED
  BY Zenon, <1>1, <1>2, Supersedes

LEMMA SupersedesLease ==
    ASSUME NEW s, NEW r, Good(r), NEW commit, NEW propagate, NEW immediate
    PROVE  /\ Good(supersede_lease(s, r, commit, propagate, immediate))
           /\ propagate \/ r.lease.queue # "none" =>
                  Queued(supersede_lease(s, r, commit, propagate, immediate))
<1> DEFINE u == Superseded(r, commit, propagate, immediate)
<1>1. Good(u) /\ (propagate \/ r.lease.queue # "none" => Queued(u))
  BY Supersedes
<1>2. supersede_lease(s, r, commit, propagate, immediate) = MovedOn(s, u)
  BY DEF supersede_lease
<1> HIDE DEF u
<1>3. Queued(Expired(s, u))
  BY <1>1, Expires
<1> QED
  BY <1>1, <1>2, <1>3 DEF MovedOn, Queued

LEMMA GivesAway ==
    ASSUME NEW s \in Servers, NEW r, Good(r), clock \in Int
    PROVE  Queued(GiveAway(s, r))
<1> DEFINE l == [r.lease EXCEPT !.next = Own(Peer(s)), !.tstp = clock]
           u == [r EXCEPT !.lease = l]
           v == supersede_lease(s, u, FALSE, TRUE, FALSE)
<1>1. r \in ServerSet /\ r.lease \in LeaseSet /\ Own(Peer(s)) \in BindingStates
  BY DEF Good, ServerSet, Own, Peer, BindingStates, FREE, BACKUP
<1>2. l \in LeaseSet /\ l.queue = r.lease.queue /\ l.xid = r.lease.xid
  BY Zenon, <1>1 DEF LeaseSet
<1>3. GiveAway(s, r) = Write(v)
  BY Zenon DEF GiveAway
<1> HIDE DEF l
<1>4. Good(u)
  BY <1>2, LeaseChanged
<1> HIDE DEF u
<1>5. Queued(v)
  BY Zenon, <1>4, SupersedesLease
<1> QED
  BY Zenon, <1>3, <1>5, Writes

-----------------------------------------------------------------------------
(***************************************************************************)
(* The partner's updates and answers.                                      *)
(***************************************************************************)
LEMMA Marks ==
    ASSUME NEW l \in LeaseSet, NEW m \in Updates
    PROVE  Marked(l, m) \in LeaseSet /\ Marked(l, m).queue = l.queue /\ Marked(l, m).xid = l.xid
<1> DEFINE next == IF m.status \in {EXPIRED, RELEASED, RESET} THEN FREE ELSE m.status
           owner == CASE m.client # NoClient -> m.client
                      [] m.client = NoClient /\ m.status = ABANDONED -> NoClient
                      [] OTHER -> l.client
<1>1. next \in BindingStates /\ m.ends \in Int /\ m.tstp \in Int
  BY DEF Updates, BindingStates, FREE
<1>2. owner \in Owners
  BY DEF Updates, LeaseSet, Owners
<1>3. Marked(l, m) = [l EXCEPT !.next = next, !.rewind = next, !.ends = m.ends,
                               !.tsfp = m.tstp, !.atsfp = m.tstp, !.client = owner]
  BY DEF Marked
<1> HIDE DEF next, owner
<1> DEFINE l1 == [l EXCEPT !.next = next, !.rewind = next, !.ends = m.ends]
<1>4. Marked(l, m) = [l1 EXCEPT !.tsfp = m.tstp, !.atsfp = m.tstp, !.client = owner]
  BY <1>3
<1>5. l1 \in LeaseSet /\ l1.queue = l.queue /\ l1.xid = l.xid
  BY <1>1, Zenon DEF LeaseSet
<1> HIDE DEF l1
<1> QED  BY <1>1, <1>2, <1>4, <1>5, Zenon DEF LeaseSet

LEMMA Accepts ==
    ASSUME NEW s, NEW r, Good(r), NEW m \in Updates
    PROVE  Good(Accepted(s, r, m))
<1> DEFINE l == Marked(r.lease, m)
           u == [r EXCEPT !.lease = l]
           v == supersede_lease(s, u, FALSE, FALSE, FALSE)
<1>1. r \in ServerSet /\ r.lease \in LeaseSet /\ m.xid \in Nat
  BY DEF Good, ServerSet, Updates
<1>2. l \in LeaseSet /\ l.queue = r.lease.queue /\ l.xid = r.lease.xid
  BY <1>1, Marks
<1>3. Accepted(s, r, m) = queue_ack(Write(v), m.xid)
  BY DEF Accepted
<1> HIDE DEF l
<1>4. Good(u)
  BY <1>2, LeaseChanged
<1> HIDE DEF u
<1>5. Good(v)
  BY Zenon, <1>4, SupersedesLease
<1> HIDE DEF v
<1> QED
  BY <1>1, <1>3, <1>5, QueuesAck

LEMMA Considers ==
    ASSUME NEW s \in Servers, NEW r, Good(r), NEW m \in Updates, NEW give, clock \in Int
    PROVE  Good(process_bind_update(s, r, m, give))
<1>1. BNDACK(m.xid, TRUE) \in Messages
  BY DEF BNDACK, Messages, Acks, Updates
<1>2. CASE r.lease.queue = "ack" /\ failover_lease_is_better(s, r.lease, m)
  BY Zenon, <1>1, <1>2, Sends DEF process_bind_update
<1>3. CASE ~ (r.lease.queue = "ack" /\ failover_lease_is_better(s, r.lease, m))
  <2> DEFINE q == ack_queue_remove(r)
             a == Accepted(s, q, m)
             g == send_updates(GiveAway(s, a))
  <2>1. process_bind_update(s, r, m, give) = Considered(s, q, m, give)
    BY Zenon, <1>3 DEF process_bind_update
  <2>2. Good(q)
    BY Removes
  <2> HIDE DEF q
  <2>3. Good(Send(q, BNDACK(m.xid, TRUE)))
    BY Zenon, <1>1, <2>2, Sends
  <2>4. Good(a)
    BY <2>2, Accepts
  <2> HIDE DEF a
  <2>5. Good(g)
    BY <2>4, GivesAway, SendsUpdates DEF Queued
  <2> HIDE DEF g
  <2>6. Considered(s, q, m, give) \in {Send(q, BNDACK(m.xid, TRUE)), g, a}
    BY DEF Considered, g, a
  <2> QED
    BY Zenon, <2>1, <2>3, <2>4, <2>5, <2>6
<1> QED
  BY <1>2, <1>3

LEMMA Agrees ==
    ASSUME NEW l \in LeaseSet
    PROVE  /\ Informed(l) \in LeaseSet /\ Informed(l).queue = l.queue /\ Informed(l).xid = l.xid
           /\ Agreed(l) \in LeaseSet /\ Agreed(l).queue = l.queue /\ Agreed(l).xid = l.xid
<1>1. Informed(l) \in LeaseSet /\ Informed(l).queue = l.queue /\ Informed(l).xid = l.xid
  BY Zenon DEF Informed, LeaseSet
<1>2. l.desired \in BindingStates /\ FREE \in BindingStates
  BY DEF LeaseSet, BindingStates
<1> DEFINE k == Informed(l)
           a == [k EXCEPT !.next = FREE, !.desired = FREE, !.rewind = FREE]
           b == [k EXCEPT !.next = l.desired]
<1>3. Agreed(l) = IF Gone(l) THEN a ELSE b
  BY DEF Agreed
<1> HIDE DEF k
<1>4. a \in LeaseSet /\ a.queue = l.queue /\ a.xid = l.xid
  BY Zenon, <1>1, <1>2 DEF LeaseSet, k
<1>5. b \in LeaseSet /\ b.queue = l.queue /\ b.xid = l.xid
  BY <1>1, <1>2 DEF LeaseSet, k
<1> QED
  BY <1>1, <1>3, <1>4, <1>5

(* The answer is for a lease that is still queued, and leaves it queued.   *)
LEMMA Acknowledges ==
    ASSUME NEW s, NEW r, Queued(r)
    PROVE  Queued(Acknowledged(s, r))
<1> DEFINE u == [r EXCEPT !.lease = Agreed(r.lease)]
           v == [r EXCEPT !.lease = Informed(r.lease)]
           w == supersede_lease(s, u, FALSE, FALSE, FALSE)
<1>1. r \in ServerSet /\ r.lease \in LeaseSet /\ Good(r)
  BY DEF Queued, Good, ServerSet
<1>2. Good(u) /\ u.lease.queue = r.lease.queue
  BY <1>1, Agrees, LeaseChanged
<1>3. Good(v) /\ v.lease.queue = r.lease.queue
  BY <1>1, Agrees, LeaseChanged
<1>4. Acknowledged(s, r) = Write(IF Gone(r.lease) \/ r.lease.desired # r.lease.state THEN w ELSE v)
  BY DEF Acknowledged
<1> HIDE DEF u, v
<1>5. Queued(w)
  BY Zenon, <1>2, SupersedesLease DEF Queued
<1>6. Queued(v)
  BY <1>3 DEF Queued
<1> HIDE DEF w
<1> QED
  BY <1>4, <1>5, <1>6, Writes

LEMMA Answers ==
    ASSUME NEW s \in Servers, NEW r, Good(r), NEW m \in Acks, NEW give, clock \in Int
    PROVE  Good(process_bind_ack(s, r, m, give))
<1>1. CASE m.rejected \/ r.lease.xid = 0
  <2>1. process_bind_ack(s, r, m, give) = send_updates(ack_queue_remove(r))
    BY <1>1 DEF process_bind_ack
  <2> QED
    BY <2>1, Removes, SendsUpdates
<1>2. CASE ~ m.rejected /\ r.lease.xid \notin {0, m.xid}
  <2>1. process_bind_ack(s, r, m, give) = r
    BY <1>2 DEF process_bind_ack
  <2> QED
    BY <2>1
<1>3. CASE ~ m.rejected /\ r.lease.xid # 0 /\ r.lease.xid = m.xid
  <2> DEFINE a == Acknowledged(s, r)
             b == CommitIf(r.state = "normal", GiveAway(s, ack_queue_remove(a)))
             c == ack_queue_remove(CommitIf(Gone(r.lease) /\ r.state = "normal", a))
  <2>1. Queued(r)
    BY <1>3 DEF Queued, Good, Answerable
  <2>2. process_bind_ack(s, r, m, give) =
            send_updates(IF give /\ Gone(r.lease) /\ s = "primary" THEN b ELSE c)
    BY <1>3 DEF process_bind_ack
  <2>3. Good(a)
    BY <2>1, Acknowledges DEF Queued
  <2> HIDE DEF a
  <2>4. Good(b)
    <3>1. Good(GiveAway(s, ack_queue_remove(a)))
      BY <2>3, Removes, GivesAway DEF Queued
    <3> QED
      BY <3>1, Commits DEF CommitIf
  <2>5. Good(c)
    <3>1. Good(CommitIf(Gone(r.lease) /\ r.state = "normal", a))
      BY <2>3, Commits DEF CommitIf
    <3> QED
      BY <3>1, Removes
  <2> HIDE DEF b, c
  <2> QED
    BY <2>2, <2>4, <2>5, SendsUpdates
<1> QED
  BY <1>1, <1>2, <1>3

-----------------------------------------------------------------------------
(***************************************************************************)
(* Changes of the server's state.                                          *)
(***************************************************************************)
LEMMA Generates ==
    ASSUME NEW r, Good(r)
    PROVE  Good(generate_update_queue(r))
<1>1. Good([r EXCEPT !.lease.desired = r.lease.state])
  BY Zenon, States, FieldSet, Numbers
<1>2. Good(queue_update([r EXCEPT !.lease.desired = r.lease.state], FALSE))
  BY Zenon, <1>1, QueuesUpdate DEF Queued
<1> QED
  BY Zenon, <1>2 DEF generate_update_queue

LEMMA Balances ==
    ASSUME NEW s \in Servers, NEW r, Good(r), NEW give, clock \in Int
    PROVE  Good(pool_dobalance(s, r, give))
<1>1. Good(Commit(GiveAway(s, r)))
  BY GivesAway, Commits DEF Queued
<1> QED
  BY <1>1 DEF pool_dobalance

LEMMA EntersNormal ==
    ASSUME NEW s \in Servers, NEW r, Good(r), NEW give, clock \in Int
    PROVE  Good(enter_normal(s, r, give))
<1> DEFINE u == [r EXCEPT !.state = "normal", !.stos = clock]
<1>1. Good(u)
  BY Zenon DEF Good, Settled, Answerable, ServerSet, ServerStates
<1>2. enter_normal(s, r, give) =
          send_updates(generate_update_queue(pool_dobalance(s, Commit(u), give)))
  BY DEF enter_normal
<1> HIDE DEF u
<1>3. Good(pool_dobalance(s, Commit(u), give))
  BY <1>1, Commits, Balances
<1> QED
  BY <1>2, <1>3, Generates, SendsUpdates

LEMMA EntersPartnerDown ==
    ASSUME NEW r, Good(r), clock \in Int
    PROVE  Good(Commit(enter_partner_down(r)))
<1> DEFINE t == IF r.lease.state \in {EXPIRED, RELEASED, RESET} THEN clock + MCLT ELSE r.lease.tsfp
           l == [r.lease EXCEPT !.tsfp = t]
           u == [r EXCEPT !.state = "partner_down", !.stos = clock]
           v == [u EXCEPT !.lease = l]
<1>1. r \in ServerSet /\ r.lease \in LeaseSet
  BY DEF Good, ServerSet
<1>2. t \in Int
  BY <1>1, FailoverBindingAssumption DEF LeaseSet
<1>3. l \in LeaseSet /\ l.queue = r.lease.queue /\ l.xid = r.lease.xid
  BY <1>1, <1>2 DEF LeaseSet
<1>4. Good(u) /\ u.lease = r.lease
  BY Zenon DEF Good, Settled, Answerable, ServerSet, ServerStates
<1>5. enter_partner_down(r) = v
  BY <1>1 DEF enter_partner_down, ServerSet
<1> HIDE DEF l, u
<1>6. Good(v)
  BY <1>3, <1>4, LeaseChanged
<1> QED
  BY <1>5, <1>6, Commits

LEMMA Interrupts ==
    ASSUME NEW r, Good(r), clock \in Int
    PROVE  Good(Interrupted(r))
<1>1. CASE r.state # "normal"
  BY Zenon, <1>1 DEF Interrupted, Good, Settled, Answerable, ServerSet
<1>2. CASE r.state = "normal"
  <2> DEFINE q == rescind_updates(r)
             v == [q EXCEPT !.link = FALSE, !.others = "none", !.stos = clock,
                            !.state = "communications_interrupted"]
             k == [v EXCEPT !.disk = v.written]
  <2>1. Good(q)
    BY Rescinds
  <2>2. Interrupted(r) = k
    BY <1>2 DEF Interrupted, Commit
  <2> HIDE DEF q
  <2>3. v \in ServerSet /\ v.written = q.written /\ v.lease = q.lease
    BY Zenon, <2>1 DEF Good, ServerSet, ServerStates
  <2> HIDE DEF v
  <2>4. k \in ServerSet /\ k.disk = v.written /\ k.written = v.written /\ k.lease = v.lease
    BY <2>3 DEF ServerSet
  <2> HIDE DEF k
  <2> QED
    BY <2>1, <2>2, <2>3, <2>4 DEF Good, Settled, Answerable
<1> QED
  BY <1>1, <1>2

-----------------------------------------------------------------------------
(***************************************************************************)
(* The steps.                                                              *)
(***************************************************************************)
LEMMA OneServer ==
    ASSUME SettledInv, NEW s \in Servers, NEW v, Good(v), srv' = [srv EXCEPT ![s] = v],
           chan' \in [Servers -> Seq(Messages)], clock' \in Int
    PROVE  SettledInv'
<1>1. v \in ServerSet
  BY DEF Good
<1>2. srv' \in [Servers -> ServerSet]
  BY <1>1 DEF SettledInv
<1>3. \A t \in Servers : Good(srv'[t])
  BY Zenon DEF SettledInv
<1> QED
  BY <1>2, <1>3 DEF SettledInv

LEMMA BecomesGood ==
    ASSUME SettledInv, NEW s \in Servers, NEW r, Good(r), NEW q \in [Servers -> Seq(Messages)],
           Becomes(s, r, q), clock' = clock
    PROVE  SettledInv'
<1> DEFINE v == [r EXCEPT !.out = << >>]
<1>1. << >> \in Seq(Messages)
  OBVIOUS
<1>2. Good(v)
  BY Zenon, <1>1 DEF Good, Settled, Answerable, ServerSet
<1>3. srv' = [srv EXCEPT ![s] = v]
  BY DEF Becomes
<1> HIDE DEF v
<1>4. chan' \in [Servers -> Seq(Messages)]
  <2>1. Peer(s) \in Servers /\ r.out \in Seq(Messages)
    BY DEF Peer, Servers, Good, ServerSet
  <2>2. q[Peer(s)] \o r.out \in Seq(Messages)
    BY <2>1, ConcatProperties
  <2>3. PICK o \in Seq(Messages) : o = q[Peer(s)] \o r.out
    BY Zenon, <2>2
  <2>4. chan' = IF joined THEN [q EXCEPT ![Peer(s)] = o] ELSE q
    BY <2>3 DEF Becomes
  <2> QED
    BY <2>1, <2>4
<1> QED
  BY Zenon, <1>2, <1>3, <1>4, OneServer DEF SettledInv

LEMMA Initially == Init => SettledInv
<1> SUFFICES ASSUME Init PROVE SettledInv
  OBVIOUS
<1>1. PICK c \in Clients :
         srv = [s \in Servers |->
                  [lease |-> Known(s, c), written |-> Record(Known(s, c)),
                   disk |-> Record(Known(s, c)), toack |-> << >>, out |-> << >>,
                   xid |-> 0, link |-> TRUE, others |-> "none",
                   state |-> "normal", stos |-> MIN_TIME]]
  BY Zenon DEF Init
<1>2. ASSUME NEW s \in Servers PROVE Good(srv[s])
  <2> DEFINE l == Known(s, c)
             k == Record(l)
  <2>1. NewLease \in LeaseSet /\ NewLease.queue = "none" /\ NewLease.xid = 0
    BY DEF NewLease, LeaseSet, Owners, BindingStates, FREE, MIN_TIME
  <2>2. l \in LeaseSet /\ l.queue = "none" /\ l.xid = 0
    <3>1. ACTIVE \in BindingStates /\ EXPIRED \in BindingStates /\ c \in Owners
      BY DEF BindingStates, Owners
    <3>2. 1 + MCLT \in Int /\ 1 + LeaseTime \in Int /\ MIN_TIME \in Int
      BY FailoverBindingAssumption DEF MIN_TIME
    <3> DEFINE t == IF s = "primary" THEN 1 + LeaseTime ELSE MIN_TIME
               x == IF s = "primary" THEN 1 ELSE MIN_TIME
               n == NewLease
               l1 == [n EXCEPT !.state = ACTIVE, !.next = EXPIRED, !.desired = ACTIVE,
                               !.rewind = ACTIVE]
               l2 == [l1 EXCEPT !.client = c, !.ends = 1 + MCLT, !.tstp = t]
               l3 == [l2 EXCEPT !.tsfp = 1 + LeaseTime, !.atsfp = 1 + LeaseTime, !.cltt = x]
    <3>3. l = l3
      BY DEF Known
    <3>4. t \in Int /\ x \in Int
      BY <3>2
    <3> HIDE DEF t, x, n
    <3>5. l1 \in LeaseSet /\ l1.queue = "none" /\ l1.xid = 0
      BY Zenon, <2>1, <3>1 DEF LeaseSet, n
    <3> HIDE DEF l1
    <3>6. l2 \in LeaseSet /\ l2.queue = "none" /\ l2.xid = 0
      BY Zenon, <3>1, <3>2, <3>4, <3>5 DEF LeaseSet
    <3> HIDE DEF l2
    <3>7. l3 \in LeaseSet /\ l3.queue = "none" /\ l3.xid = 0
      BY Zenon, <3>2, <3>4, <3>6 DEF LeaseSet
    <3> QED
      BY <3>3, <3>7
  <2> HIDE DEF l
  <2>3. k \in LeaseSet /\ k.queue = "none" /\ k.xid = 0
    BY Zenon, <2>2 DEF Record, LeaseSet
  <2> HIDE DEF k
  <2>4. srv[s] = [lease |-> l, written |-> k, disk |-> k, toack |-> << >>, out |-> << >>,
                  xid |-> 0, link |-> TRUE, others |-> "none", state |-> "normal",
                  stos |-> MIN_TIME]
    BY <1>1 DEF l, k
  <2>5. << >> \in Seq(Nat) /\ << >> \in Seq(Messages) /\ MIN_TIME \in Int
    BY DEF MIN_TIME
  <2>6. srv[s] \in ServerSet
    BY <2>2, <2>3, <2>4, <2>5 DEF ServerSet, ServerStates
  <2> QED
    BY <2>2, <2>3, <2>4, <2>6 DEF Good, Settled, Answerable
<1>3. srv \in [Servers -> ServerSet]
  <2>1. \A s \in Servers : srv[s] \in ServerSet
    BY <1>2 DEF Good
  <2> QED
    BY <1>1, <2>1
<1>4. chan \in [Servers -> Seq(Messages)] /\ clock \in Int
  BY DEF Init
<1> QED
  BY <1>2, <1>3, <1>4 DEF SettledInv

LEMMA Grants ==
    ASSUME NEW l \in LeaseSet, NEW c \in Clients, clock \in Int
    PROVE  LET a == ack_lease(l, c) IN a \in LeaseSet /\ a.queue = l.queue /\ a.xid = l.xid
<1> DEFINE given == GrantedTime(l)
           until == clock + LeaseTime + (given \div 2)
           e == clock + given
           t == IF until < l.tsfp THEN until ELSE l.tsfp
<1>1. given \in Int
  BY FailoverBindingAssumption DEF GrantedTime, LeaseSet
<1> HIDE DEF given
<1>2. until \in Int /\ e \in Int
  BY <1>1, FailoverBindingAssumption
<1> HIDE DEF until, e
<1>3. t \in Int
  BY <1>2 DEF LeaseSet
<1> HIDE DEF t
<1>4. ack_lease(l, c) = [l EXCEPT !.next = ACTIVE, !.client = c, !.cltt = clock,
                                  !.ends = e, !.tstp = until, !.tsfp = t]
  BY DEF ack_lease, given, until, e, t, LeaseSet
<1>5. ACTIVE \in BindingStates /\ c \in Owners
  BY DEF BindingStates, Owners
<1> DEFINE l1 == [l EXCEPT !.next = ACTIVE, !.client = c, !.cltt = clock]
<1>6. ack_lease(l, c) = [l1 EXCEPT !.ends = e, !.tstp = until, !.tsfp = t]
  BY <1>4
<1>7. l1 \in LeaseSet /\ l1.queue = l.queue /\ l1.xid = l.xid
  BY <1>5, Zenon DEF LeaseSet
<1> HIDE DEF l1
<1> QED  BY <1>2, <1>3, <1>6, <1>7, Zenon DEF LeaseSet

(* Whatever a server does with a lease changed by a client, it is settled. *)
LEMMA ClientStep ==
    ASSUME SettledInv, NEW s \in Servers, NEW l \in LeaseSet,
           l.queue = srv[s].lease.queue, l.xid = srv[s].lease.xid,
           Becomes(s, supersede_lease(s, [srv[s] EXCEPT !.lease = l], TRUE, TRUE, TRUE), chan),
           clock' = clock
    PROVE  SettledInv'
<1>1. Good(srv[s]) /\ chan \in [Servers -> Seq(Messages)]
  BY DEF SettledInv
<1> DEFINE u == [srv[s] EXCEPT !.lease = l]
<1>2. Good(u)
  BY <1>1, LeaseChanged
<1> HIDE DEF u
<1> DEFINE v == supersede_lease(s, u, TRUE, TRUE, TRUE)
<1>3. Good(v)
  BY Zenon, <1>2, SupersedesLease
<1> HIDE DEF v
<1>4. Becomes(s, v, chan)
  BY Zenon DEF u, v
<1> QED
  BY <1>1, <1>3, <1>4, BecomesGood

LEMMA OwnLease ==
    ASSUME SettledInv, NEW s \in Servers
    PROVE  /\ Good(srv[s]) /\ srv[s].lease \in LeaseSet /\ clock \in Int
           /\ chan \in [Servers -> Seq(Messages)]
BY DEF SettledInv, Good, ServerSet

LEMMA RequestStep ==
    ASSUME SettledInv, NEW s \in Servers, NEW c \in Clients, Request(s, c)
    PROVE  SettledInv'
<1> DEFINE l == ack_lease(srv[s].lease, c)
<1>1. l \in LeaseSet /\ l.queue = srv[s].lease.queue /\ l.xid = srv[s].lease.xid
  BY OwnLease, Grants
<1>2. /\ Becomes(s, supersede_lease(s, [srv[s] EXCEPT !.lease = l], TRUE, TRUE, TRUE), chan)
      /\ clock' = clock
  BY Zenon DEF Request
<1> HIDE DEF l
<1> QED
  BY Zenon, <1>1, <1>2, ClientStep

LEMMA ReleaseStep ==
    ASSUME SettledInv, NEW s \in Servers, NEW c \in Clients, Release(s, c)
    PROVE  SettledInv'
<1> DEFINE n == IF Rewound(s, srv[s]) THEN srv[s].lease.rewind ELSE RELEASED
           l == [srv[s].lease EXCEPT !.ends = clock, !.tstp = clock, !.next = n]
<1>1. n \in BindingStates
  BY OwnLease, States DEF BindingStates
<1>2. \/ /\ Becomes(s, supersede_lease(s, [srv[s] EXCEPT !.lease = l], TRUE, TRUE, TRUE), chan)
         /\ clock' = clock
      \/ UNCHANGED <<srv, chan, clock>>
  BY Zenon DEF Release
<1> HIDE DEF n
<1>3. l \in LeaseSet /\ l.queue = srv[s].lease.queue /\ l.xid = srv[s].lease.xid
  BY Zenon, <1>1, OwnLease DEF LeaseSet
<1> HIDE DEF l
<1>4. CASE UNCHANGED <<srv, chan, clock>>
  BY <1>4 DEF SettledInv
<1> QED
  BY Zenon, <1>2, <1>3, <1>4, ClientStep

LEMMA DeclineStep ==
    ASSUME SettledInv, NEW s \in Servers, NEW c \in Clients, Decline(s, c)
    PROVE  SettledInv'
<1> DEFINE e == clock + AbandonTime
           l == [srv[s].lease EXCEPT !.ends = e, !.next = ABANDONED, !.client = NoClient]
<1>1. e \in Int /\ ABANDONED \in BindingStates /\ NoClient \in Owners
  BY OwnLease, FailoverBindingAssumption DEF BindingStates, Owners
<1>2. /\ Becomes(s, supersede_lease(s, [srv[s] EXCEPT !.lease = l], TRUE, TRUE, TRUE), chan)
      /\ clock' = clock
  BY Zenon DEF Decline
<1> HIDE DEF e
<1>3. l \in LeaseSet /\ l.queue = srv[s].lease.queue /\ l.xid = srv[s].lease.xid
  BY Zenon, <1>1, OwnLease DEF LeaseSet
<1> HIDE DEF l
<1> QED
  BY Zenon, <1>2, <1>3, ClientStep

LEMMA TimerSteps ==
    ASSUME SettledInv, NEW s \in Servers,
           pool_timer(s) \/ pool_rebalance(s) \/ toack_queue_timeout(s)
    PROVE  SettledInv'
<1>1. Good(srv[s]) /\ clock \in Int /\ chan \in [Servers -> Seq(Messages)]
  BY OwnLease
<1>2. CASE pool_timer(s)
  <2>1. Good(Expired(s, srv[s]))
    BY <1>1, Expires DEF Queued
  <2>2. Becomes(s, Expired(s, srv[s]), chan) /\ clock' = clock
    BY <1>2 DEF pool_timer
  <2> QED
    BY <1>1, <2>1, <2>2, BecomesGood
<1>3. CASE pool_rebalance(s)
  <2> DEFINE v == send_updates(pool_dobalance(s, srv[s], TRUE))
  <2>1. Good(v)
    BY Zenon, <1>1, Balances, SendsUpdates
  <2>2. Becomes(s, v, chan) /\ clock' = clock
    BY Zenon, <1>3 DEF pool_rebalance
  <2> HIDE DEF v
  <2> QED
    BY <1>1, <2>1, <2>2, BecomesGood
<1>4. CASE toack_queue_timeout(s)
  <2> DEFINE r == send_acks(srv[s])
             v == IF r.link THEN r ELSE [r EXCEPT !.out = << >>]
  <2>1. Good(r)
    BY <1>1, SendsAcks
  <2>2. Becomes(s, v, chan) /\ clock' = clock
    BY <1>4 DEF toack_queue_timeout
  <2> HIDE DEF r
  <2>3. << >> \in Seq(Messages)
    OBVIOUS
  <2>4. Good([r EXCEPT !.out = << >>])
    BY Zenon, <2>1, <2>3 DEF Good, Settled, Answerable, ServerSet
  <2>5. Good(v)
    BY <2>1, <2>4
  <2> HIDE DEF v
  <2> QED
    BY <1>1, <2>2, <2>5, BecomesGood
<1> QED
  BY <1>2, <1>3, <1>4

LEMMA OtherLeases ==
    ASSUME SettledInv, NEW s \in Servers, QueueFull(s) \/ OtherAck(s)
    PROVE  SettledInv'
<1>1. Good(srv[s]) /\ clock \in Int /\ chan \in [Servers -> Seq(Messages)]
  BY OwnLease
<1>2. CASE QueueFull(s)
  <2>1. PICK o \in {"some", "full"} :
           /\ Becomes(s, send_updates([srv[s] EXCEPT !.others = o]), chan)
           /\ clock' = clock
    BY <1>2 DEF QueueFull
  <2> DEFINE r == [srv[s] EXCEPT !.others = o]
  <2>2. Good(r)
    BY Zenon, <1>1 DEF Good, Settled, Answerable, ServerSet
  <2> HIDE DEF r
  <2>3. Good(send_updates(r)) /\ Becomes(s, send_updates(r), chan)
    BY <2>1, <2>2, SendsUpdates DEF r
  <2> QED
    BY <1>1, <2>1, <2>3, BecomesGood
<1>3. CASE OtherAck(s)
  <2>1. PICK o \in {"none", "some"} :
           LET r == [srv[s] EXCEPT !.others = o]
           IN  /\ Becomes(s, send_updates(CommitIf(o = "none" /\ r.lease.queue # "ack", r)), chan)
               /\ clock' = clock
    BY <1>3 DEF OtherAck
  <2> DEFINE r == [srv[s] EXCEPT !.others = o]
             k == CommitIf(o = "none" /\ r.lease.queue # "ack", r)
  <2>2. /\ r \in ServerSet /\ Answerable(r) /\ r.others = o
        /\ r.lease = srv[s].lease /\ r.written = srv[s].written
    BY Zenon, <1>1 DEF Good, Answerable, ServerSet
  <2>3. Becomes(s, send_updates(k), chan) /\ clock' = clock
    BY <2>1
  <2> HIDE DEF r
  <2>4. Good(k)
    <3>1. CASE o = "none" /\ r.lease.queue # "ack"
      <4>1. k = [r EXCEPT !.disk = r.written]
        BY <3>1 DEF CommitIf, Commit
      <4>2. k \in ServerSet /\ k.disk = r.written /\ k.written = r.written /\ k.lease = r.lease
        BY <2>2, <4>1 DEF ServerSet
      <4> QED
        BY <2>2, <4>2 DEF Good, Settled, Answerable
    <3>2. CASE ~ (o = "none" /\ r.lease.queue # "ack")
      BY <2>2, <3>2 DEF CommitIf, Good, Settled
    <3> QED
      BY <3>1, <3>2
  <2> HIDE DEF k
  <2>5. Good(send_updates(k))
    BY <2>4, SendsUpdates
  <2> QED
    BY <1>1, <2>3, <2>5, BecomesGood
<1> QED
  BY <1>2, <1>3

LEMMA ReceiveStep ==
    ASSUME SettledInv, NEW s \in Servers, NEW give \in BOOLEAN, Receive(s, give)
    PROVE  SettledInv'
<1>1. Good(srv[s]) /\ clock \in Int /\ chan \in [Servers -> Seq(Messages)]
  BY OwnLease
<1> DEFINE m == Head(chan[s])
           q == [chan EXCEPT ![s] = Tail(@)]
           r == srv[s]
           v == CASE m.type = "bndupd" -> process_bind_update(s, r, m, give)
                  [] m.type = "bndack" -> process_bind_ack(s, r, m, give)
                  [] m.type = "state" ->
                       IF NotCooperating(r) THEN enter_normal(s, r, give) ELSE r
<1>2. chan[s] # << >> /\ Becomes(s, v, q) /\ clock' = clock
  BY Zenon DEF Receive
<1>3. m \in Messages /\ q \in [Servers -> Seq(Messages)]
  BY <1>1, <1>2, HeadTailProperties
<1> HIDE DEF m, q, r
<1>4. Good(v)
  <2>0. Good(r)
    BY <1>1 DEF r
  <2>1. CASE m \in Updates
    <3>1. v = process_bind_update(s, r, m, give)
      BY <2>1 DEF Updates
    <3> QED
      BY Zenon, <1>1, <2>0, <2>1, <3>1, Considers
  <2>2. CASE m \in Acks
    <3>1. v = process_bind_ack(s, r, m, give)
      BY <2>2 DEF Acks
    <3> QED
      BY Zenon, <1>1, <2>0, <2>2, <3>1, Answers
  <2>3. CASE m \in [type : {"state"}]
    <3>1. m.type = "state"
      BY <2>3, Zenon
    <3>2. v = IF NotCooperating(r) THEN enter_normal(s, r, give) ELSE r
      BY <3>1
    <3> QED
      BY Zenon, <1>1, <2>0, <3>2, EntersNormal
  <2> QED
    BY Zenon, <1>3, <2>1, <2>2, <2>3 DEF Messages
<1> HIDE DEF v
<1> QED
  BY <1>2, <1>3, <1>4, BecomesGood

LEMMA LinkSteps ==
    ASSUME SettledInv, Disconnect \/ Connect
    PROVE  SettledInv'
<1>1. << >> \in Seq(Messages) /\ <<PeerState>> \in Seq(Messages)
  <2>1. PeerState \in Messages
    BY Zenon DEF Messages, PeerState
  <2> QED
    BY <2>1
<1>2. CASE Disconnect
  BY <1>1, <1>2 DEF Disconnect, SettledInv
<1>3. CASE Connect
  <2>1. /\ srv' = [s \in Servers |-> [srv[s] EXCEPT !.link = TRUE, !.xid = 0]]
        /\ chan' = [s \in Servers |-> <<PeerState>>] /\ clock' = clock
    BY Zenon, <1>3 DEF Connect
  <2>2. ASSUME NEW s \in Servers PROVE Good([srv[s] EXCEPT !.link = TRUE, !.xid = 0])
    <3>1. Good(srv[s])
      BY OwnLease
    <3> QED
      BY Zenon, <3>1 DEF Good, Settled, Answerable, ServerSet
  <2>3. \A s \in Servers : Good(srv'[s]) /\ srv'[s] \in ServerSet
    BY Zenon, <2>1, <2>2 DEF Good
  <2> QED
    BY Zenon, <1>1, <2>1, <2>3 DEF SettledInv
<1> QED
  BY <1>2, <1>3

LEMMA ServerSteps ==
    ASSUME SettledInv, NEW s \in Servers,
           LinkLost(s) \/ Stop(s) \/ Restart(s) \/ OperatorPartnerDown(s)
    PROVE  SettledInv'
<1>1. Good(srv[s]) /\ clock \in Int /\ chan \in [Servers -> Seq(Messages)]
  BY OwnLease
<1>2. CASE LinkLost(s)
  <2>1. srv' = [srv EXCEPT ![s] = Interrupted(srv[s])] /\ chan' = chan /\ clock' = clock
    BY <1>2 DEF LinkLost
  <2> QED
    BY Zenon, <1>1, <2>1, Interrupts, OneServer
<1>3. CASE Stop(s)
  <2>1. PICK kept \in {srv[s].disk, srv[s].written} :
           /\ srv' = [srv EXCEPT ![s] = [srv[s] EXCEPT !.state = "stopped", !.link = FALSE,
                                            !.lease = kept, !.written = kept, !.disk = kept,
                                            !.toack = << >>, !.xid = 0, !.others = "none"]]
           /\ chan' = [t \in Servers |-> << >>] /\ clock' = clock
    BY Zenon, <1>3 DEF Stop
  <2> DEFINE r == srv[s]
             r1 == [r EXCEPT !.state = "stopped", !.link = FALSE, !.toack = << >>]
             r2 == [r1 EXCEPT !.lease = kept, !.written = kept, !.disk = kept]
             v == [r2 EXCEPT !.xid = 0, !.others = "none"]
  <2>2. kept \in LeaseSet /\ kept.queue = "none" /\ kept.xid = 0
    BY <1>1 DEF Good, Answerable, ServerSet
  <2>3. << >> \in Seq(Nat) /\ << >> \in Seq(Messages)
    OBVIOUS
  <2>4. srv' = [srv EXCEPT ![s] = v]
    BY Zenon, <1>1, <2>1 DEF Good, ServerSet
  <2>5. r \in ServerSet
    BY <1>1 DEF Good
  <2> HIDE DEF r
  <2>6. r1 \in ServerSet
    BY Zenon, <2>3, <2>5 DEF ServerSet, ServerStates
  <2> HIDE DEF r1
  <2>7. r2 \in ServerSet /\ r2.lease = kept /\ r2.written = kept /\ r2.disk = kept
    BY Zenon, <2>2, <2>6 DEF ServerSet
  <2> HIDE DEF r2
  <2>8. v \in ServerSet /\ v.lease = kept /\ v.written = kept /\ v.disk = kept
    BY Zenon, <2>7 DEF ServerSet
  <2> HIDE DEF v
  <2>9. Good(v)
    BY <2>2, <2>8 DEF Good, Settled, Answerable
  <2> QED
    BY Zenon, <1>1, <2>1, <2>3, <2>4, <2>9, OneServer
<1>4. CASE Restart(s)
  <2> DEFINE r == [srv[s] EXCEPT !.state = "communications_interrupted", !.stos = clock]
  <2>1. srv' = [srv EXCEPT ![s] = r] /\ chan' = chan /\ clock' = clock
    BY <1>4 DEF Restart
  <2>2. Good(r)
    BY Zenon, <1>1 DEF Good, Settled, Answerable, ServerSet, ServerStates
  <2> HIDE DEF r
  <2> QED
    BY Zenon, <1>1, <2>1, <2>2, OneServer
<1>5. CASE OperatorPartnerDown(s)
  <2>1. srv' = [srv EXCEPT ![s] = Commit(enter_partner_down(srv[s]))] /\ chan' = chan /\ clock' = clock
    BY <1>5 DEF OperatorPartnerDown
  <2> QED
    BY Zenon, <1>1, <2>1, EntersPartnerDown, OneServer
<1> QED
  BY <1>2, <1>3, <1>4, <1>5

-----------------------------------------------------------------------------
LEMMA Steps ==
    ASSUME SettledInv, [Next]_vars
    PROVE  SettledInv'
<1>1. ASSUME NEW s \in Servers, Serve(s) PROVE SettledInv'
  BY <1>1, RequestStep, ReleaseStep, DeclineStep, TimerSteps, ReceiveStep DEF Serve
<1>2. ASSUME NEW s \in Servers,
             \/ toack_queue_timeout(s) \/ QueueFull(s) \/ OtherAck(s)
             \/ LinkLost(s) \/ Stop(s) \/ Restart(s) \/ OperatorPartnerDown(s)
      PROVE  SettledInv'
  BY <1>2, TimerSteps, OtherLeases, ServerSteps
<1>3. CASE Disconnect \/ Connect
  BY <1>3, LinkSteps
<1>4. CASE Tick
  <2>1. clock' \in Int /\ UNCHANGED <<srv, chan>>
    BY <1>4 DEF Tick, SettledInv
  <2> QED
    BY <2>1 DEF SettledInv
<1>5. CASE UNCHANGED vars
  BY <1>5 DEF vars, SettledInv
<1> QED
  BY <1>1, <1>2, <1>3, <1>4, <1>5 DEF Next

(* The servers, their files and the messages on their way keep their types, *)
(* a lease that waits for an answer is queued, and what is written and not  *)
(* committed waits for an acknowledgement.                                  *)
THEOREM SettledInvariant == Spec => []SettledInv
<1>1. Init => SettledInv
  BY Initially
<1>2. SettledInv /\ [Next]_vars => SettledInv'
  BY Steps
<1> QED
  BY <1>1, <1>2, PTL DEF Spec

(* dhcp_failover_send_acks and dhcp_failover_ack_queue_remove: whatever the *)
(* order of requests, expiries, updates, acknowledgements, lost connections *)
(* and stops, what a crash could lose of a server's records has not been    *)
(* settled with the partner, or other acknowledgements are still to come.   *)
THEOREM UncommittedIsUnacked == Spec => []UncommittedUnacked
<1>1. SettledInv => UncommittedUnacked
  BY DEF SettledInv, Good, Settled, UncommittedUnacked
<1> QED
  BY <1>1, SettledInvariant, PTL

=============================================================================
