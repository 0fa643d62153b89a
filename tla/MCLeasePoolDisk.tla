-------------------------- MODULE MCLeasePoolDisk --------------------------
(***************************************************************************)
(* LeasePool in the two settings in which a binding is backed by the disk: *)
(* commits fail but every lease is written ("failing", the values of the   *)
(* configuration), or leases are confirmed unwritten but commits succeed   *)
(* ("reusing").                                                            *)
(***************************************************************************)
EXTENDS MCLeasePool

VARIABLE setting

Reuse == INSTANCE LeasePool WITH
    CacheThreshold <- 50, CommitMayFail <- FALSE, MaxTime <- 5

DiskInit == setting \in {"failing", "reusing"} /\ Init

DiskNext ==
    /\ UNCHANGED setting
    /\ \/ setting = "failing" /\ Next
       \/ setting = "reusing" /\ Reuse!Next

DiskSpec ==
    /\ DiskInit /\ [][DiskNext]_<<setting, vars>>
    /\ WF_vars(setting = "failing" /\ PoolTimer)
    /\ WF_vars(setting = "failing" /\ Start)

\* LeasePool!BindingInv for a server that confirms young leases unwritten:
\* every lease reuse_lease() would confirm is on disk as it stands.
ReuseInv == setting = "reusing" => Reuse!BindingInv

\* LeasePool!OverdueMovesOn for the setting whose timeouts are fair.
OverdueLeaves == \A l \in Leases : setting = "failing" /\ Overdue(l) ~> up /\ ~Overdue(l)

=============================================================================
