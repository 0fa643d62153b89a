----------------------------- MODULE MCRestart -----------------------------
(***************************************************************************)
(* What a restart finds in the lease file.  A behaviour is one of:         *)
(*   "file"        the file itself, when appending to it or opening a new  *)
(*                 one may fail (LeaseFile);                               *)
(*   "hosts"       the host declarations that OMAPI clients change;        *)
(*   "statements"  the statements a lease carries.                         *)
(* The last two run on the variables x1, x2, ..., which are 0 when not   *)
(* in use.                                                                 *)
(***************************************************************************)
EXTENDS MCLeaseFile, TLC

CONSTANTS n1, n2, s1, A, B

VARIABLES which, x1, x2, x3, x4, x5, x6

xs == <<x1, x2, x3, x4, x5, x6>>

Host == INSTANCE HostObjects WITH
    Hosts <- 1..4, Names <- {n1, n2}, Idents <- {<<A, 0>>, <<B, 0>>}, Addrs <- {1, 2},
    Declared <- {[name |-> s1, hw |-> A, uid |-> 0, addr |-> 1]}, MaxFile <- 3, Null <- 0,
    host <- x1, byName <- x2, byHw <- x3, byUid <- x4, file <- x5

Text == INSTANCE MCStatements WITH
    BYTE <- 5, WORD <- 3125, Printable <- {2, 3, 4}, Quote <- 4, HexLetters <- {1},
    Letters <- {<<2, 3>>}, MAX_V6RELAY_HOPS <- 32

Stmt == INSTANCE Statements WITH
    BYTE <- 5, WORD <- 3125, Printable <- {2, 3, 4}, Quote <- 4, HexLetters <- {1},
    Letters <- {<<2, 3>>}, MAX_V6RELAY_HOPS <- 32,
    Texts <- Text!Texts, Packet <- Text!Packet,
    conf <- x1, group <- x2, lease <- x3, file <- x4, phase <- x5, twin <- x6

RestartInit ==
    /\ Init
    /\ \/ which = "file" /\ x1 = 0 /\ x2 = 0 /\ x3 = 0 /\ x4 = 0 /\ x5 = 0 /\ x6 = 0
       \/ which = "hosts" /\ Host!Init /\ x6 = 0
       \/ which = "statements" /\ Stmt!Init

RestartNext ==
    /\ UNCHANGED which
    /\ \/ which = "file" /\ Next /\ UNCHANGED xs
       \/ which = "hosts" /\ Host!Next /\ UNCHANGED <<vars, x6>>
       \/ which = "statements" /\ Stmt!Next /\ UNCHANGED vars

RestartSpec == RestartInit /\ [][RestartNext]_<<which, vars, xs>>

RestartView == <<which, View, xs>>

-----------------------------------------------------------------------------

=============================================================================
