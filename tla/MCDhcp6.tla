------------------------------ MODULE MCDhcp6 ------------------------------
(***************************************************************************)
(* Dhcp6 for TLC.                                                          *)
(***************************************************************************)
EXTENDS Dhcp6

Symmetry == Permutations(Clients) \union Permutations(Addrs)
=============================================================================
