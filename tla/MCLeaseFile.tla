---------------------------- MODULE MCLeaseFile ----------------------------
(* Small instances of the lease database.                                  *)
EXTENDS LeaseFile, SequencesExt

CONSTANTS l1, l2

OneLease == {l1}
TwoLeases == {l1, l2}
OneSecond == {"dhcpd.leases.1"}
TwoSeconds == {"dhcpd.leases.1", "dhcpd.leases.2"}
FiveInodes == 1 .. 5

NoFaults == {}
WriteFaults == {"write"}
AllFaults == Steps
AppendFaults == {"write", "open"}
RewriteFaults == {"rewrite", "link", "rename"}

(* Two states that differ only in which inode is which, or in the contents *)
(* of a file that nothing will read or append to before it is opened anew, *)
(* have the same future.                                                   *)
InUse == {DB} \cup {c.name : c \in {d \in ToSet(calls) : d.at # "open"}}
Contents(f) == IF f = None THEN None ELSE <<data[f], synced[f]>>
View == <<mem, written, promised, flags, caller, calls,
          [n \in InUse |-> Contents(dir[n])], Contents(db_file),
          {n \in Names : dir[n] = None}, {n \in Names : dir[n] = db_file},
          {p \in Names \X Names : dir[p[1]] = dir[p[2]]}>>

=============================================================================
