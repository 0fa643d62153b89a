------------------------- MODULE MCFailoverBinding -------------------------
(* FailoverBinding on a small instance.                                    *)
EXTENDS FailoverBinding, TLC

CONSTANTS c1, c2, none

MCClients == {c1, c2}
ClientSymmetry == Permutations(MCClients)

=============================================================================
