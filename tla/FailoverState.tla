---------------------------- MODULE FailoverState ----------------------------
(***************************************************************************)
(* The failover state machine of server/failover.c: a primary and a        *)
(* secondary server, each with its own state, its idea of the partner's    *)
(* state, a copy of both on disk, and a TCP connection that either side    *)
(* may lose at any time without the other noticing at once.                *)
(*                                                                         *)
(* The exchange of bindings is reduced to a request for updates and the    *)
(* "update done" that ends it, and time to one question: have MCLT seconds *)
(* passed since the state was entered (me.stos)?                           *)
(*                                                                         *)
(* Definitions called X_y are deliberately wrong variants of X: they exist *)
(* to confirm that the properties notice.                                  *)
(***************************************************************************)
EXTENDS Naturals, Sequences

CONSTANTS
    AutoPartnerDown,   \* is auto-partner-down configured?
    Shutdowns,         \* are servers shut down in an orderly way?
    LostFiles,         \* may a server lose its lease file while it is down?
    OperatorStates,    \* the states an operator sets through OMAPI
    WritesMayFail,     \* may recording a state on disk fail?
    MaxFaults          \* bound: crashes, lost connections and the like

VARIABLES
    srv,      \* dhcp_failover_state_t of each server
    disk,     \* what the lease file of each server says
    up,       \* is the server running?
    chan,     \* messages on their way to each server
    alive,    \* does the TCP connection still join the two?
    recent,   \* has the server answered clients within the last MCLT?
    faults    \* bound on what goes wrong

vars == <<srv, disk, up, chan, alive, recent, faults>>

Servers == {"primary", "secondary"}
Peer(s) == IF s = "primary" THEN "secondary" ELSE "primary"

States == {"unknown_state", "partner_down", "normal", "communications_interrupted",
           "resolution_interrupted", "potential_conflict", "recover", "recover_done",
           "shut_down", "paused", "recover_wait", "conflict_done"}

ASSUME FailoverAssumption ==
    /\ {AutoPartnerDown, Shutdowns, LostFiles, WritesMayFail} \subseteq BOOLEAN
    /\ OperatorStates \subseteq States
    /\ MaxFaults \in Nat

(* The part of dhcp_failover_state_t that the state machine uses; "old" is *)
(* whether MCLT has passed since me.stos, and the last four are timeouts   *)
(* and messages to be sent.                                                *)
Server == [state : States \cup {"startup"}, saved_state : States, partner : States,
           old : BOOLEAN, link : BOOLEAN, send_update_done : BOOLEAN,
           startup_timeout : BOOLEAN, recover_timeout : BOOLEAN, auto_timeout : BOOLEAN]

Recorded == [state : States, partner : States, old : BOOLEAN]

(* A peer as the configuration file declares it, never heard of before.    *)
Fresh == [state |-> "recover", partner |-> "unknown_state", old |-> FALSE]

Message == [type : {"state"}, state : States, startup : BOOLEAN]
             \cup [type : {"connectack", "updreq", "upddone"}]

Effective(r) == IF r.state = "startup" THEN r.saved_state ELSE r.state

(* dhcp_failover_set_service_state                                         *)
ServiceState(r) ==
    LET mine == CASE r.state = "partner_down" -> "service_partner_down"
                  [] r.state = "normal" -> "cooperating"
                  [] r.state = "communications_interrupted" -> "not_cooperating"
                  [] r.state = "startup" -> "service_startup"
                  [] OTHER -> "not_responding"
    IN  IF r.partner \in {"partner_down", "potential_conflict", "conflict_done",
                          "resolution_interrupted"}
        THEN "not_responding" ELSE mine

send_state(r) == [type |-> "state", state |-> Effective(r),
                  startup |-> ServiceState(r) = "service_startup"]
UPDREQ == [type |-> "updreq"]
UPDDONE == [type |-> "upddone"]
CONNECTACK == [type |-> "connectack"]

-----------------------------------------------------------------------------
(***************************************************************************)
(* dhcp_failover_set_state.  A result is a server and the messages it      *)
(* sends.  When the state cannot be recorded, the old one is kept, but not *)
(* the old saved_state.                                                    *)
(***************************************************************************)
Messages_unannounced(s, r, new) ==
    IF r.link /\ new = "recover" THEN <<UPDREQ>> ELSE << >>

Messages(s, r, new) ==
    IF ~ r.link THEN << >>
    ELSE <<send_state(r)>> \o
         (IF \/ new = "recover"
             \/ new = "potential_conflict" /\ (s = "primary" \/ r.partner = "conflict_done")
          THEN <<UPDREQ>> ELSE << >>)

Moved(r, new, drained) ==
    [r EXCEPT !.state = new,
              !.saved_state = IF new = "startup" /\ r.state # "startup" THEN r.state ELSE @,
              !.old = \/ @ /\ (new \in {"recover_wait", "startup"} \/ r.state = "startup")
                      \/ /\ new = "recover" /\ r.state = "shut_down"
                         /\ r.partner = "partner_down" /\ drained,
              !.startup_timeout = new = "startup" \/ (@ /\ r.state # "startup"),
              !.auto_timeout = AutoPartnerDown /\ new = "communications_interrupted",
              !.recover_timeout = @ \/ (new = "recover_wait" /\ ~ r.old)]

(* A result: the server, the messages it sends, has it written its state?  *)
Result(r, out, wrote) == [r |-> r, out |-> out, wrote |-> wrote]
Nothing(r) == Result(r, << >>, FALSE)

set_state_unwritten(s, r, new, ok) ==
    Result(Moved(r, new, FALSE), Messages(s, Moved(r, new, FALSE), new), FALSE)

set_state(s, r, new, ok) ==
    LET m == Moved(r, new, FALSE)
        n == Moved(m, "recover_done", FALSE)
    IN  CASE ~ ok -> Nothing([r EXCEPT !.saved_state = m.saved_state])
          [] ok /\ new = "recover_wait" /\ m.old ->
                 Result(n, Messages(s, m, new) \o Messages(s, n, "recover_done"), TRUE)
          [] OTHER -> Result(m, Messages(s, m, new), TRUE)

(* dhcp_failover_state_transition (state, "disconnect")                    *)
disconnect(s, r, ok) ==
    LET q == [r EXCEPT !.link = FALSE, !.startup_timeout = FALSE]
        e == Effective(q)
    IN  CASE e = "normal" -> set_state(s, q, "communications_interrupted", ok)
          [] e \in {"potential_conflict", "unknown_state"} ->
                 set_state(s, q, "resolution_interrupted", ok)
          [] OTHER -> IF q.state = "startup" THEN set_state(s, q, e, ok) ELSE Nothing(q)

-----------------------------------------------------------------------------
(***************************************************************************)
(* dhcp_failover_peer_state_changed: the state a server moves to when its  *)
(* partner reports state "new", or "stay".                                 *)
(***************************************************************************)
Conflict == {"potential_conflict", "resolution_interrupted", "conflict_done"}

Reaction(r, new, startupp) ==
    LET e == Effective(r)
        In(S, T, t) == IF e \in S /\ new \in T THEN {t} ELSE {}
        moves ==
            In({"normal"}, {"partner_down"},
               IF r.state = "startup" THEN "recover" ELSE "potential_conflict")
            \cup In({"normal"}, Conflict, "shut_down")
            \cup In({"normal"}, {"recover"}, "partner_down")
            \cup In({"normal", "recover", "potential_conflict", "recover_done",
                     "communications_interrupted", "resolution_interrupted"},
                    {"shut_down"}, "partner_down")
            \cup In({"normal"}, {"paused"}, "communications_interrupted")
            \cup In({"recover"}, Conflict \cup {"normal"}, "potential_conflict")
            \cup In({"potential_conflict"}, {"normal"}, "shut_down")
            \cup In({"potential_conflict"}, {"recover"}, "recover")
            \cup In({"conflict_done"}, {"normal", "shut_down"}, new)
            \cup In({"conflict_done"},
                    States \ {"normal", "shut_down", "potential_conflict",
                              "resolution_interrupted"}, "log_fatal")
            \cup (IF startupp THEN {} ELSE
                  In({"partner_down"}, {"recover_done"}, "normal")
                  \cup In({"partner_down"}, Conflict \cup {"normal", "partner_down",
                          "communications_interrupted"}, "potential_conflict"))
            \cup In({"communications_interrupted"}, {"recover"}, "partner_down")
            \cup In({"communications_interrupted"},
                    {"normal", "communications_interrupted", "recover_done", "recover_wait"},
                    "normal")
            \cup In({"communications_interrupted"}, Conflict \cup {"partner_down"},
                    "potential_conflict")
            \cup In({"resolution_interrupted"},
                    States \ {"shut_down", "paused", "unknown_state"}, "potential_conflict")
            \cup In({"recover_done"}, {"recover_done", "normal"}, "normal")
    IN  IF moves = {} THEN "stay" ELSE CHOOSE t \in moves : TRUE

(* The partner's news that make a server ask for updates where it is.      *)
AsksAgain_never(r, new) == FALSE

AsksAgain(r, new) ==
    \/ r.state = "recover" /\ new \in {"recover", "partner_down", "communications_interrupted"}
    \/ /\ Effective(r) = "potential_conflict"
       /\ new = "conflict_done" /\ r.partner = "potential_conflict"

(* The state was known, and is not looked at again in these states.        *)
OldNews(r, m) ==
    /\ r.partner = m.state
    /\ r.state \in {"normal", "potential_conflict", "recover_done", "shut_down", "paused",
                    "recover_wait"}

Fatal(r, m) == ~ OldNews(r, m) /\ ~ (r.state = "startup" /\ r.partner = m.state)
               /\ Reaction(r, m.state, m.startup) = "log_fatal"

(* "noted" is whether the partner's state could be written; if not, the    *)
(* server goes on all the same.                                            *)
peer_state_changed(s, r, m, noted, ok) ==
    LET q == [r EXCEPT !.partner = m.state]
        t == Reaction(r, m.state, m.startup)
        asks == IF AsksAgain(r, m.state) /\ r.link THEN <<UPDREQ>> ELSE << >>
        Then(new) == LET x == set_state(s, q, new, ok)
                     IN  Result(x.r, x.out, noted \/ x.wrote)
        leave == Then(r.saved_state)
    IN  CASE OldNews(r, m) -> Nothing(r)
          [] r.state = "startup" /\ r.partner = m.state ->
                 set_state(s, r, IF r.saved_state = "resolution_interrupted"
                                 THEN "potential_conflict" ELSE r.saved_state, ok)
          [] OTHER ->
                 IF t # "stay" THEN Then(t)
                 ELSE IF r.state = "startup" THEN [leave EXCEPT !.out = asks \o @]
                 ELSE Result(q, asks, noted)

(* dhcp_failover_process_update_done                                       *)
process_update_done_timed(s, r, ok) ==
    CASE r.state = "recover" ->
             [set_state(s, r, IF r.old \/ r.partner \in {"recover", "recover_done"}
                              THEN "recover_done" ELSE "recover_wait", ok)
              EXCEPT !.r.recover_timeout = TRUE]
      [] OTHER -> Nothing(r)

process_update_done(s, r, ok) ==
    CASE r.state = "potential_conflict" /\ r.partner = "conflict_done" ->
             set_state(s, r, IF s = "secondary" THEN "normal" ELSE "shut_down", ok)
      [] r.state = "potential_conflict" /\ r.partner # "conflict_done" /\ s = "primary" ->
             set_state(s, r, "conflict_done", ok)
      [] r.state = "recover" ->
             IF ~ r.old /\ r.partner \notin {"recover", "recover_done"}
             THEN LET w == set_state(s, r, "recover_wait", ok)
                  IN  [w EXCEPT !.r.recover_timeout = TRUE]
             ELSE set_state(s, r, "recover_done", ok)
      [] OTHER -> Nothing(r)

-----------------------------------------------------------------------------
Form_raw(r) == [state |-> r.state, partner |-> r.partner, old |-> r.old]
Form(r) == [state |-> Effective(r), partner |-> r.partner, old |-> r.old]

(* A server that is down, as its lease file will present it.               *)
Loaded(d) ==
    [state |-> d.state, saved_state |-> d.state, partner |-> d.partner, old |-> d.old,
     link |-> FALSE, send_update_done |-> FALSE, startup_timeout |-> FALSE,
     recover_timeout |-> FALSE, auto_timeout |-> FALSE]

Serving(s) ==
    up[s] /\ ServiceState(srv[s]) \in {"cooperating", "not_cooperating", "service_partner_down"}

Init ==
    /\ disk = [s \in Servers |-> Fresh]
    /\ srv = [s \in Servers |-> Loaded(Fresh)]
    /\ up = [s \in Servers |-> FALSE]
    /\ chan = [s \in Servers |-> << >>]
    /\ alive = FALSE
    /\ recent = [s \in Servers |-> FALSE]
    /\ faults = 0

(* Server s ends a handler with result x, having left "in" unread.  What   *)
(* it sends is lost once the connection is.                                *)
Finish(s, x, in) ==
    /\ srv' = [srv EXCEPT ![s] = x.r]
    /\ disk' = [disk EXCEPT ![s] = IF x.wrote THEN Form(x.r) ELSE @]
    /\ chan' = [chan EXCEPT ![s] = in, ![Peer(s)] = IF alive' THEN @ \o x.out ELSE @]
    /\ recent' = [t \in Servers |-> recent[t] \/ Serving(t)']

Fault == faults < MaxFaults /\ faults' = faults + 1
Stop(s) ==
    /\ srv' = [srv EXCEPT ![s] = Loaded(disk'[s])]
    /\ up' = [up EXCEPT ![s] = FALSE]
    /\ chan' = [chan EXCEPT ![s] = << >>]
    /\ alive' = FALSE
    /\ UNCHANGED recent

Writable == IF WritesMayFail THEN BOOLEAN ELSE {TRUE}
(* A write that fails counts as a fault.                                   *)
Counted(ok) == IF ok THEN faults' = faults ELSE Fault

(* dhcp_failover_startup, after the lease file was read and rewritten.     *)
Boot(s) ==
    /\ ~ up[s]
    /\ up' = [up EXCEPT ![s] = TRUE]
    /\ UNCHANGED <<alive, faults>>
    /\ Finish(s, set_state(s, srv[s], "startup", TRUE), chan[s])

(* The secondary accepts the primary's CONNECT: it answers CONNECTACK and  *)
(* its state.  A primary that still holds an earlier connection refuses    *)
(* the answer and closes this one.                                         *)
Accept ==
    /\ up["primary"] /\ up["secondary"] /\ ~ alive
    /\ ~ srv["secondary"].link
    /\ srv["primary"].link \/ chan["primary"] = << >>
    /\ alive' = ~ srv["primary"].link
    /\ srv' = [srv EXCEPT !["secondary"].link = TRUE]
    /\ chan' = IF alive'
               THEN [chan EXCEPT !["primary"] = <<CONNECTACK, send_state(srv["secondary"])>>]
               ELSE chan
    /\ UNCHANGED <<disk, up, recent, faults>>

(* The primary takes the connection into use.                              *)
ConnectAck(s) ==
    LET r == [srv[s] EXCEPT !.link = TRUE]
    IN  /\ chan[s] # << >> /\ Head(chan[s]).type = "connectack"
        /\ UNCHANGED <<up, alive, faults>>
        /\ Finish(s, Result(r, <<send_state(r)>>, FALSE), Tail(chan[s]))

(* The primary gives up on a connection that is not in use yet.            *)
ConnectFails ==
    /\ chan["primary"] # << >> /\ Head(chan["primary"]).type = "connectack"
    /\ Fault
    /\ chan' = [chan EXCEPT !["primary"] = << >>]
    /\ alive' = FALSE
    /\ UNCHANGED <<srv, disk, up, recent>>

(* A STATE message.                                                        *)
State(s) ==
    /\ chan[s] # << >> /\ Head(chan[s]).type = "state"
    /\ LET m == Head(chan[s])
       IN  IF Fatal(srv[s], m)
           THEN /\ disk' = [disk EXCEPT ![s].partner = m.state]
                /\ UNCHANGED faults
                /\ Stop(s)
           ELSE \E noted, ok \in Writable :
                /\ UNCHANGED <<up, alive>>
                /\ Counted(noted /\ ok)
                /\ \E x \in {peer_state_changed(s, srv[s], m, noted, ok)} :
                       Finish(s, x, Tail(chan[s]))

(* UPDREQ or UPDREQALL: UPDDONE follows at once, or when the last update   *)
(* sent is acknowledged.                                                   *)
process_update_request(s) ==
    /\ chan[s] # << >> /\ Head(chan[s]).type = "updreq"
    /\ \E pending \in BOOLEAN :
        /\ UNCHANGED <<up, alive, faults>>
        /\ Finish(s, Result([srv[s] EXCEPT !.send_update_done = pending],
                            IF pending THEN << >> ELSE <<UPDDONE>>, FALSE), Tail(chan[s]))

(* The acknowledgement arrives.                                            *)
UpdatesAcked(s) ==
    /\ srv[s].send_update_done /\ srv[s].link
    /\ UNCHANGED <<up, alive, faults>>
    /\ Finish(s, Result([srv[s] EXCEPT !.send_update_done = FALSE], <<UPDDONE>>, FALSE),
              chan[s])

UpdateDone(s) ==
    /\ chan[s] # << >> /\ Head(chan[s]).type = "upddone"
    /\ \E ok \in Writable :
        /\ UNCHANGED <<up, alive>>
        /\ Counted(ok)
        /\ Finish(s, process_update_done(s, srv[s], ok), Tail(chan[s]))

(* Server s loses its connection, or notices that it is gone.              *)
Disconnect(s) ==
    /\ srv[s].link
    /\ alive' = FALSE
    /\ UNCHANGED up
    /\ \E ok \in Writable :
        /\ Counted(ok /\ ~ alive)
        /\ Finish(s, disconnect(s, srv[s], ok), << >>)

(* dhcp_failover_startup_timeout: it forgets a connection as well.         *)
StartupTimeout(s) ==
    /\ srv[s].startup_timeout
    /\ alive' = (alive /\ ~ srv[s].link)
    /\ UNCHANGED up
    /\ \E ok \in Writable :
        /\ Counted(ok)
        /\ Finish(s, disconnect(s, srv[s], ok), IF srv[s].link THEN << >> ELSE chan[s])

(* A timeout that moves the server to another state.                       *)
Timeout(s, r, new) ==
    /\ UNCHANGED <<up, alive>>
    /\ \E ok \in Writable : Counted(ok) /\ Finish(s, set_state(s, r, new, ok), chan[s])

RecoverTimeout(s) ==
    /\ srv[s].recover_timeout /\ srv[s].old
    /\ Timeout(s, [srv[s] EXCEPT !.recover_timeout = FALSE], "recover_done")

AutoTimeout(s) ==
    /\ srv[s].auto_timeout
    /\ Timeout(s, [srv[s] EXCEPT !.auto_timeout = FALSE], "partner_down")

(* MCLT seconds after s entered its state and last answered a client.      *)
MCLTPasses(s) ==
    /\ ~ srv[s].old \/ (recent[s] /\ ~ Serving(s))
    /\ srv' = [srv EXCEPT ![s].old = TRUE]
    /\ disk' = [disk EXCEPT ![s].old = TRUE]
    /\ recent' = [recent EXCEPT ![s] = Serving(s)]
    /\ UNCHANGED <<up, chan, alive, faults>>

(* dhcp_failover_state_set_value ("local-state")                           *)
Operator(s) ==
    /\ up[s] /\ Fault
    /\ UNCHANGED <<up, alive>>
    /\ \E new \in OperatorStates \ {srv[s].state} :
           Finish(s, set_state(s, srv[s], new, TRUE), chan[s])

(* dhcp_io_shutdown_countdown: a server in normal operation announces that *)
(* it is going; one in shut_down records "recover" as it exits.            *)
ShutDown(s) ==
    /\ Shutdowns /\ up[s] /\ srv[s].state = "normal" /\ Fault
    /\ UNCHANGED <<up, alive>>
    /\ Finish(s, set_state(s, srv[s], "shut_down", TRUE), chan[s])

Exit(s) ==
    /\ Shutdowns /\ up[s] /\ srv[s].state = "shut_down"
    /\ \E drained \in BOOLEAN :
           disk' = [disk EXCEPT ![s] = Form(Moved(srv[s], "recover", drained))]
    /\ UNCHANGED faults
    /\ Stop(s)

Crash(s) ==
    /\ up[s] /\ Fault
    /\ UNCHANGED disk
    /\ Stop(s)

(* The lease file is gone when the server comes back.                      *)
LoseFile(s) ==
    /\ LostFiles /\ ~ up[s] /\ disk[s] # Fresh /\ Fault
    /\ disk' = [disk EXCEPT ![s] = Fresh]
    /\ srv' = [srv EXCEPT ![s] = Loaded(Fresh)]
    /\ UNCHANGED <<up, chan, alive, recent>>

Receive(s) ==
    ConnectAck(s) \/ State(s) \/ process_update_request(s) \/ UpdateDone(s)

(* What a server does by itself.                                           *)
Work(s) ==
    \/ Boot(s) \/ Receive(s) \/ UpdatesAcked(s) \/ StartupTimeout(s)
    \/ RecoverTimeout(s) \/ AutoTimeout(s) \/ MCLTPasses(s) \/ Exit(s)

Next ==
    \/ Accept \/ ConnectFails
    \/ \E s \in Servers :
        \/ Work(s) \/ Disconnect(s)
        \/ Operator(s) \/ ShutDown(s) \/ Crash(s) \/ LoseFile(s)

Spec == Init /\ [][Next]_vars

(* Servers are restarted, a connection is tried again every few seconds, a *)
(* dead one is noticed by the missing keepalives, what arrives is read,    *)
(* updates are acknowledged and timeouts run.  None of the work of one     *)
(* server can go on for ever without the others, so that fairness of all   *)
(* of it together is enough.                                               *)
FairSpec ==
    /\ Spec
    /\ WF_vars(Accept)
    /\ \A s \in Servers : WF_vars(Work(s)) /\ WF_vars(~ alive /\ Disconnect(s))

-----------------------------------------------------------------------------
(* Types of the servers, their records on disk and the messages under way.  *)
TypeOK ==
    /\ srv \in [Servers -> Server]
    /\ disk \in [Servers -> Recorded]
    /\ up \in [Servers -> BOOLEAN]
    /\ chan \in [Servers -> Seq(Message)]
    /\ alive \in BOOLEAN
    /\ recent \in [Servers -> BOOLEAN]
    /\ faults \in 0 .. MaxFaults

(***************************************************************************)
(* While a server answers every client because it believes its partner to  *)
(* be down, the partner answers none.  (Not with an operator or            *)
(* auto-partner-down, which may be wrong about the partner.)               *)
(***************************************************************************)
PartnerDownAlone ==
    \A s \in Servers :
        Serving(s) /\ srv[s].state = "partner_down" => ~ Serving(Peer(s))

(***************************************************************************)
(* No message makes a server in conflict_done give up with log_fatal.      *)
(***************************************************************************)
NoFatal ==
    \A s \in Servers :
        chan[s] # << >> /\ Head(chan[s]).type = "state" => ~ Fatal(srv[s], Head(chan[s]))

(***************************************************************************)
(* Once all messages are delivered, each server knows its partner's state. *)
(***************************************************************************)
PartnerViewCurrent ==
    alive /\ (\A s \in Servers : srv[s].link /\ chan[s] = << >>)
        => \A s \in Servers : srv[s].partner = Effective(srv[Peer(s)])

(***************************************************************************)
(* A server that answered clients within the last MCLT does not finish its *)
(* recovery, unless its partner recovers too: leases it gave out that its  *)
(* partner never heard of have expired by then.                            *)
(***************************************************************************)
RecoveryWaits ==
    [][\A s \in Servers :
        srv'[s].state = "recover_done" /\ srv[s].state # "recover_done" /\ up[s]
            => ~ recent[s] \/ srv[s].partner \in {"recover", "recover_done"}]_vars

(***************************************************************************)
(* A server that answers clients does not fall back into recovery because  *)
(* of the timeout that dhcp_failover_process_update_done set: nothing ever *)
(* cancels it.  (With an operator who ends the wait it does.)              *)
(***************************************************************************)
NoLateRecovery ==
    [][\A s \in Servers : Serving(s) => srv'[s].state # "recover_done"]_vars

(***************************************************************************)
(* A pair that never communicated before does not answer clients before    *)
(* MCLT has passed.                                                        *)
(***************************************************************************)
NoServiceBeforeMCLT ==
    [][\A s \in Servers : srv'[s].state = "recover_done" /\ srv[s].state = "recover"
                            => srv[s].old]_vars

(***************************************************************************)
(* When nothing goes wrong any more, both servers return to normal.        *)
(***************************************************************************)
BothNormal == \A s \in Servers : up[s] /\ srv[s].state = "normal"
Reunited == <>[]BothNormal

(***************************************************************************)
(* The same, except for a pair of which one has finished its recovery and  *)
(* the other lost the connection before it heard that its updates were     *)
(* done: no other combination of states is a dead end.                     *)
(***************************************************************************)
HalfRecovered ==
    \E s \in Servers : srv[s].state = "recover" /\ srv[Peer(s)].state = "recover_done"
ReunitedOrHalf == <>[](BothNormal \/ HalfRecovered)

=============================================================================
