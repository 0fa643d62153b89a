----------------------------- MODULE LeaseStore -----------------------------
(***************************************************************************)
(* What the lease database promises to the rest of the server: a lease     *)
(* that was written and committed survives a crash.  A lease's contents    *)
(* are abstracted to a version number, 0 for a lease never written.        *)
(***************************************************************************)
EXTENDS Naturals

CONSTANT Leases

VARIABLES
    current,    \* the version of each lease in the server's memory
    promised    \* the version of each lease a successful commit covered

Init ==
    /\ current = [l \in Leases |-> 0]
    /\ promised = [l \in Leases |-> 0]

(* The server changes a lease (supersede_lease and its callers).           *)
Change(l) ==
    /\ current' = [current EXCEPT ![l] = @ + 1]
    /\ UNCHANGED promised

(* A commit succeeds: the server may answer clients from here on.          *)
Promise ==
    /\ promised' \in [Leases -> Nat]
    /\ \A l \in Leases : promised'[l] \in promised[l] .. current[l]
    /\ UNCHANGED current

(* The server comes back from a crash with every promise kept.             *)
Recover ==
    /\ current' \in [Leases -> Nat]
    /\ \A l \in Leases : current'[l] \in promised[l] .. current[l]
    /\ UNCHANGED promised

Next == Promise \/ Recover \/ \E l \in Leases : Change(l)

Spec == Init /\ [][Next]_<<current, promised>>

=============================================================================
