------------------------------ MODULE Binding ------------------------------
(***************************************************************************)
(* The binding states of a DHCPv4 lease and the single place where a lease *)
(* moves from one to the next, make_binding_state_transition() of          *)
(* server/mdb.c.  The states are the FTS_* constants of includes/dhcpd.h    *)
(* (FTS_EXPIRED and so on are written without the prefix).                 *)
(*                                                                         *)
(* A lease carries its current state, the state it will take at its next   *)
(* event ("next") and, in a failover pool, the last state the partner is   *)
(* known to have recorded ("rewind").                                      *)
(***************************************************************************)
EXTENDS Integers

FREE      == "free"
ACTIVE    == "active"
EXPIRED   == "expired"
RELEASED  == "released"
ABANDONED == "abandoned"
RESET     == "reset"
BACKUP    == "backup"

BindingStates == {FREE, ACTIVE, EXPIRED, RELEASED, ABANDONED, RESET, BACKUP}

(* MIN_TIME of includes/dhcpd.h: "never" in next_event_time, and the "ends" *)
(* of a lease that was never given out.                                     *)
MIN_TIME == 0

(***************************************************************************)
(* The state a lease moves to by itself once it has entered state s.  With *)
(* a failover peer an active lease passes through EXPIRED, where it waits  *)
(* for the partner; without one it becomes free at once.                   *)
(***************************************************************************)
NextAfter(s, peer) ==
    CASE s = ACTIVE -> IF peer THEN EXPIRED ELSE FREE
      [] s \in {EXPIRED, RELEASED, ABANDONED, RESET} -> FREE
      [] s \in {FREE, BACKUP} -> s

(* The lease takes its next state and learns the state after that.         *)
make_binding_state_transition(l, peer) ==
    [l EXCEPT !.state = l.next, !.next = NextAfter(l.next, peer)]

=============================================================================
