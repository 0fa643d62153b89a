--------------------------- MODULE MCFailoverState ---------------------------
(* Instances of FailoverState for TLC.                                     *)
EXTENDS FailoverState

NoStates == {}
PartnerDown == {"partner_down"}

=============================================================================
