---------------------------- MODULE MCLeasePool ----------------------------
(***************************************************************************)
(* Small instances of LeasePool.                                           *)
(***************************************************************************)
EXTENDS LeasePool, TLC

CONSTANTS l1, l2, c1, c2

OneLease == {l1}
TwoLeases == {l1, l2}
MCClients == {c1, c2}
OneTime == {2}

OneLeaseSymmetry == Permutations(MCClients)
TwoLeaseSymmetry == Permutations(MCClients) \cup Permutations(TwoLeases)

=============================================================================
