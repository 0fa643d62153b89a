----------------------------- MODULE MCClients -----------------------------
(***************************************************************************)
(* The clients.  A behaviour is one of:                                    *)
(*   "dhclient"   the DHCPv4 client (Dhclient);                            *)
(*   "plain", "rapid", "stateless"  the DHCPv6 client (Dhc6), asking for   *)
(*                an address, for one by rapid commit, and for information *)
(*                only (dhclient -6 -S).                                   *)
(* All but the first run on the variables x1, x2, ..., which are 0 when    *)
(* not in use.                                                             *)
(***************************************************************************)
EXTENDS Dhclient, TLC

CONSTANT Codes

VARIABLES which, x1, x2, x3, x4, x5, x6, x7

xs == <<x1, x2, x3, x4, x5, x6, x7>>

One == {1}
NoPreference == [s \in One |-> 0]
NAPref == [k \in {"NA"} |-> 3]
NAValid == [k \in {"NA"} |-> 4]
Nothing == [k \in {} |-> 0]

Plain == INSTANCE Dhc6 WITH
    Servers <- One, Preference <- NoPreference, Wanted <- {"NA"}, require_all_ias <- FALSE,
    RapidCommit <- FALSE, Pref <- NAPref, Valid <- NAValid, T1 <- 1, T2 <- 2,
    CNF_MAX_RD <- 1, REQ_MAX_RC <- 1, MaxInterval <- 1, MaxDelay <- 1, MaxEvents <- 2, Off <- 100,
    client <- x1, net <- x2, conf <- x3, file <- x4, grant <- x5, calm <- x6, events <- x7

Rapid == INSTANCE Dhc6 WITH
    Servers <- One, Preference <- NoPreference, Wanted <- {"NA"}, require_all_ias <- TRUE,
    RapidCommit <- TRUE, Pref <- NAPref, Valid <- NAValid, T1 <- 1, T2 <- 2,
    CNF_MAX_RD <- 1, REQ_MAX_RC <- 1, MaxInterval <- 1, MaxDelay <- 1, MaxEvents <- 2, Off <- 100,
    client <- x1, net <- x2, conf <- x3, file <- x4, grant <- x5, calm <- x6, events <- x7

Stateless == INSTANCE Dhc6 WITH
    Servers <- One, Preference <- NoPreference, Wanted <- {}, require_all_ias <- FALSE,
    RapidCommit <- FALSE, Pref <- Nothing, Valid <- Nothing, T1 <- 1, T2 <- 2,
    CNF_MAX_RD <- 1, REQ_MAX_RC <- 1, MaxInterval <- 1, MaxDelay <- 1, MaxEvents <- 2, Off <- 100,
    client <- x1, net <- x2, conf <- x3, file <- x4, grant <- x5, calm <- x6, events <- x7

ASSUME Settings6 == Plain!Settings /\ Rapid!Settings /\ Stateless!Settings

ClientsInit ==
    /\ Init
    /\ \/ /\ which = "dhclient"
          /\ x1 = 0 /\ x2 = 0 /\ x3 = 0 /\ x4 = 0 /\ x5 = 0 /\ x6 = 0 /\ x7 = 0
       \/ which = "plain" /\ Plain!Init
       \/ which = "rapid" /\ Rapid!Init
       \/ which = "stateless" /\ Stateless!Init

InUse6 == which \in {"plain", "rapid", "stateless"}

Dhc6Next ==
    /\ \/ which = "plain" /\ Plain!Next
       \/ which = "rapid" /\ Rapid!Next
       \/ which = "stateless" /\ Stateless!Next
    /\ UNCHANGED <<which, vars>>

ClientsNext ==
    \/ which = "dhclient" /\ Next /\ UNCHANGED <<which, xs>>
    \/ Dhc6Next

(* The fairness of each client's own specification: of every step once no  *)
(* fault happens any more.                                                 *)
FairStep ==
    \/ which = "dhclient" /\ calm /\ Next /\ UNCHANGED <<which, xs>>
    \/ InUse6 /\ x6 /\ Dhc6Next

ClientsSpec ==
    /\ ClientsInit /\ [][ClientsNext]_<<which, vars, xs>>
    /\ WF_<<which, vars, xs>>(FairStep)

-----------------------------------------------------------------------------
\* Dhc6!LeaseHonoured6: an address configured by the DHCPv6 client is removed
\* by the time its valid lifetime ends.
AddressHonoured ==
    /\ which = "plain" => Plain!LeaseHonoured6
    /\ which = "rapid" => Rapid!LeaseHonoured6


\* Dhclient!Recovers and Dhc6!Recovers6: a client gets (back) to BOUND once
\* servers answer.
ClientsRecover ==
    /\ Recovers
    /\ (InUse6 /\ x6) ~> (InUse6 /\ x1.state = "BOUND")
=============================================================================
