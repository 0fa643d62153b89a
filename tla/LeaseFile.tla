------------------------------ MODULE LeaseFile ------------------------------
(***************************************************************************)
(* The lease database of server/db.c: an append-only text file, buffered   *)
(* by stdio, made durable by fflush and fsync, and replaced as a whole     *)
(* about once an hour, at startup and after a failed write.  The           *)
(* replacement (new_lease_file) is a chain of system calls, each of which  *)
(* may fail and between any two of which the system may crash; it can also *)
(* be entered a second time from the commit at its own end.                *)
(*                                                                         *)
(* A lease's contents are abstracted to a version number.  What is on disk *)
(* after a crash is a prefix of what was written that includes at least    *)
(* what was fsync'ed, and perhaps part of the record after it.             *)
(*                                                                         *)
(* Definitions called X_y are deliberately wrong variants of X: they exist *)
(* to confirm that the properties notice.                                  *)
(***************************************************************************)
EXTENDS Naturals, Sequences, FiniteSets, FiniteSetsExt

CONSTANTS
    Leases,         \* the leases of the server
    Seconds,        \* the suffixes a new file may get: the current second
    Inodes,         \* files that exist at the same time
    None,           \* no file
    Faults,         \* the system calls that may fail
    TornWrites,     \* whether part of a record may reach the disk
    MaxVersion,     \* bound: changes of one lease
    MaxRecords      \* bound: records of a file the server still appends to

Steps == {"write", "open", "rewrite", "link", "rename"}

DB == "dhcpd.leases"
BACKUP == "dhcpd.leases~"
Names == {DB, BACKUP} \cup Seconds

ASSUME LeaseFileAssumption ==
    /\ IsFiniteSet(Leases)
    /\ Seconds \cap {DB, BACKUP} = {}
    /\ None \notin Inodes
    /\ Faults \subseteq Steps
    /\ TornWrites \in BOOLEAN
    /\ MaxVersion \in Nat
    /\ MaxRecords \in Nat

(* A file can be created when a name is free: there is an inode that       *)
(* neither a name nor the server's descriptor refers to.                   *)
ASSUME EnoughInodes ==
    \A d \in [Names -> Inodes \cup {None}], f \in Inodes \cup {None} :
        (\E n \in Names : d[n] = None)
            => \E i \in Inodes : i # f /\ \A n \in Names : d[n] # i

VARIABLES
    mem,        \* version of each lease in memory
    written,    \* version of each lease last written with write_lease = 1
    promised,   \* version of each lease covered by a commit_leases = 1
    data,       \* records of each file, those still in the buffer included
    synced,     \* number of those records certainly on disk
    dir,        \* file of each name: the database, its backup, new files
    db_file,    \* the file the server appends to, None when it is down
    lease_file_is_corrupt, counting,
    count,      \* whether the variable count is not 0
    due,        \* whether LEASE_REWRITE_PERIOD has passed since write_time
    caller,     \* what new_lease_file returns to, and for which lease
    calls       \* activations of new_lease_file, the innermost last

disk == <<data, synced, dir>>
flags == <<lease_file_is_corrupt, counting, count, due>>
vars == <<mem, written, promised, disk, db_file, flags, caller, calls>>

Record == [lease : Leases, version : Nat, torn : BOOLEAN]
Whole(l, v) == [lease |-> l, version |-> v, torn |-> FALSE]
Torn(r) == [r EXCEPT !.version = 0, !.torn = TRUE]

Idle == [op |-> "none"]
Frame == [at : {"open", "leases", "commit", "backup", "link", "rename"},
          name : Seconds, db_validity : BOOLEAN]

-----------------------------------------------------------------------------
(***************************************************************************)
(* Reading the file.  parse_lease_declaration accepts a record cut short   *)
(* by the end of the file, as a lease whose missing fields have default    *)
(* values; a record cut short and followed by another one is rejected, and *)
(* what follows is skipped.  The last record of a lease counts.            *)
(***************************************************************************)
Accepted(s, i) ==
    /\ s[i].torn => i = Len(s)
    /\ i > 1 => ~ s[i - 1].torn

Read(s, l) ==
    LET mine == {i \in DOMAIN s : s[i].lease = l /\ Accepted(s, i)}
    IN  IF mine = {} THEN 0 ELSE s[Max(mine)].version

(* The contents file f may have after a crash.                             *)
Survivors(f) ==
    LET s == data[f]
        cut == synced[f] .. Len(s)
    IN  {SubSeq(s, 1, k) : k \in cut}
          \cup (IF TornWrites
                THEN {Append(SubSeq(s, 1, k), Torn(s[k + 1])) : k \in cut \ {Len(s)}}
                ELSE {})

-----------------------------------------------------------------------------
Init ==
    /\ mem = [l \in Leases |-> 0]
    /\ written = [l \in Leases |-> 0]
    /\ promised = [l \in Leases |-> 0]
    /\ data = [i \in Inodes |-> << >>]
    /\ synced = [i \in Inodes |-> 0]
    /\ dir = [n \in Names |-> IF n = DB THEN CHOOSE i \in Inodes : TRUE ELSE None]
    /\ db_file = None
    /\ lease_file_is_corrupt = FALSE
    /\ counting = FALSE
    /\ count = FALSE
    /\ due = FALSE
    /\ caller = Idle
    /\ calls = << >>

Serving == db_file # None /\ caller = Idle

(* A call of new_lease_file, which starts by taking the time.              *)
Enter(op) ==
    /\ caller' = op
    /\ \E t \in Seconds :
           calls' = <<[at |-> "open", name |-> t, db_validity |-> lease_file_is_corrupt]>>

(***************************************************************************)
(* The server changes a lease and calls write_lease.  A corrupt file is    *)
(* replaced before anything is written.                                    *)
(***************************************************************************)
write_lease(l) ==
    /\ Serving
    /\ mem[l] < MaxVersion
    /\ Len(data[db_file]) < MaxRecords
    /\ mem' = [mem EXCEPT ![l] = @ + 1]
    /\ LET op == [op |-> "write", lease |-> l]
       IN  IF lease_file_is_corrupt THEN Enter(op) ELSE caller' = op /\ UNCHANGED calls
    /\ UNCHANGED <<written, promised, disk, db_file, flags>>

(* A record is printed to the current file, or printing it fails half way. *)
AppendRecord(r) ==
    data' = [data EXCEPT ![db_file] = Append(@, r)]

AppendFails(r) ==
    /\ "write" \in Faults
    /\ lease_file_is_corrupt' = TRUE
    /\ data' = IF TornWrites THEN [data EXCEPT ![db_file] = Append(@, Torn(r))] ELSE data

(* The rest of write_lease, once the file is known to be good.             *)
WriteRecord ==
    /\ caller.op = "write"
    /\ calls = << >>
    /\ LET l == caller.lease
           r == Whole(l, mem[l])
       IN  \/ /\ AppendRecord(r)
              /\ written' = [written EXCEPT ![l] = mem[l]]
              /\ UNCHANGED lease_file_is_corrupt
           \/ AppendFails(r) /\ UNCHANGED written
    /\ count' = (count \/ counting)
    /\ caller' = Idle
    /\ UNCHANGED <<mem, promised, synced, dir, db_file, counting, due, calls>>

(* fflush and fsync of the current file.                                   *)
Flush_no_fsync == UNCHANGED synced
Flush == synced' = [synced EXCEPT ![db_file] = Len(data[db_file])]

(* The condition on which commit_leases replaces the file.                 *)
RewriteNow_by_time == due
RewriteNow == count /\ due

(***************************************************************************)
(* commit_leases called by the server.  It returns 1 once the file is      *)
(* flushed, whatever the replacement of the file then does.                *)
(***************************************************************************)
commit_leases ==
    /\ Serving
    /\ Flush
    /\ promised' = written
    /\ IF RewriteNow
       THEN count' = FALSE /\ due' = FALSE /\ Enter([op |-> "commit"])
       ELSE UNCHANGED <<count, due, caller, calls>>
    /\ UNCHANGED <<mem, written, data, dir, db_file, lease_file_is_corrupt, counting>>

-----------------------------------------------------------------------------
(***************************************************************************)
(* new_lease_file, one action per system call that matters.  "At(p)" says  *)
(* that the innermost activation is about to do p.                         *)
(***************************************************************************)
Top == calls[Len(calls)]
Below == SubSeq(calls, 1, Len(calls) - 1)
At(p) == calls # << >> /\ Top.at = p
Proceed(p) == calls' = Below \o <<[Top EXCEPT !.at = p]>>

(* A return.  commit_leases, which called an inner activation, and         *)
(* db_startup ignore the result; write_lease goes on only after success.   *)
Return(ok) ==
    /\ calls' = Below
    /\ caller' = IF Len(calls) = 1 /\ ~ (ok /\ caller.op = "write") THEN Idle ELSE caller

(* The label fail: the flag is put back and the new file removed, but      *)
(* db_file stays on it and counting stays as it is.                        *)
Fail ==
    /\ lease_file_is_corrupt' = Top.db_validity
    /\ dir' = [dir EXCEPT ![Top.name] = None]
    /\ Return(FALSE)

(* The file a name is opened on: the existing one, truncated, or one that  *)
(* nothing refers to.                                                      *)
Opened(n) ==
    IF dir[n] # None THEN dir[n]
    ELSE CHOOSE i \in Inodes : i # db_file /\ \A m \in Names : dir[m] # i

OpenNew_keeps_file ==
    /\ At("open")
    /\ LET f == Opened(Top.name) IN
       /\ data' = [data EXCEPT ![f] = << >>]
       /\ synced' = [synced EXCEPT ![f] = 0]
       /\ dir' = [dir EXCEPT ![Top.name] = f]
    /\ lease_file_is_corrupt' = FALSE
    /\ counting' = FALSE
    /\ Proceed("leases")
    /\ UNCHANGED <<mem, written, promised, db_file, count, due, caller>>

OpenNew ==
    /\ At("open")
    /\ LET f == Opened(Top.name) IN
       /\ data' = [data EXCEPT ![f] = << >>]
       /\ synced' = [synced EXCEPT ![f] = 0]
       /\ dir' = [dir EXCEPT ![Top.name] = f]
       /\ db_file' = f
    /\ lease_file_is_corrupt' = FALSE
    /\ counting' = FALSE
    /\ Proceed("leases")
    /\ UNCHANGED <<mem, written, promised, count, due, caller>>

(* open or fdopen fails: the old file stays in use.                        *)
OpenFails ==
    /\ At("open")
    /\ "open" \in Faults
    /\ Return(FALSE)
    /\ UNCHANGED <<mem, written, promised, disk, db_file, flags>>

(* Every lease that was ever used, in some order: write_leases4 walks the  *)
(* queues of each pool.                                                    *)
Listed(S) == CHOOSE s \in [1 .. Cardinality(S) -> S] : IsInjective(s)
KnownLeases == Listed({l \in Leases : mem[l] > 0})
Known == [i \in DOMAIN KnownLeases |-> Whole(KnownLeases[i], mem[KnownLeases[i]])]

WriteLeases_uncommitted ==
    /\ At("leases")
    /\ data' = [data EXCEPT ![db_file] = @ \o Known]
    /\ Proceed("backup")
    /\ UNCHANGED <<mem, written, promised, synced, dir, db_file, flags, caller>>

WriteLeases ==
    /\ At("leases")
    /\ data' = [data EXCEPT ![db_file] = @ \o Known]
    /\ Proceed("commit")
    /\ UNCHANGED <<mem, written, promised, synced, dir, db_file, flags, caller>>

(* The commit at the end of write_leases, which may itself find that an    *)
(* hour has passed and start a second replacement inside the first.        *)
CommitNew ==
    /\ At("commit")
    /\ Flush
    /\ IF RewriteNow
       THEN /\ count' = FALSE
            /\ due' = FALSE
            /\ \E t \in Seconds :
                   calls' = Below \o
                            <<[Top EXCEPT !.at = "backup"],
                              [at |-> "open", name |-> t,
                               db_validity |-> lease_file_is_corrupt]>>
       ELSE Proceed("backup") /\ UNCHANGED <<count, due>>
    /\ UNCHANGED <<mem, written, promised, data, dir, db_file,
                   lease_file_is_corrupt, counting, caller>>

(* The header, a record or the commit of the new file fails.               *)
RewriteFails ==
    /\ At("leases") \/ At("commit")
    /\ "rewrite" \in Faults
    /\ Fail
    /\ UNCHANGED <<mem, written, promised, data, synced, db_file, counting, count, due>>

UnlinkBackup ==
    /\ At("backup")
    /\ dir' = [dir EXCEPT ![BACKUP] = None]
    /\ Proceed("link")
    /\ UNCHANGED <<mem, written, promised, data, synced, db_file, flags, caller>>

LinkBackup ==
    /\ At("link")
    /\ dir' = [dir EXCEPT ![BACKUP] = dir[DB]]
    /\ Proceed("rename")
    /\ UNCHANGED <<mem, written, promised, data, synced, db_file, flags, caller>>

(* unlink or link fails.                                                   *)
BackupFails ==
    /\ At("backup") \/ At("link")
    /\ "link" \in Faults
    /\ Fail
    /\ UNCHANGED <<mem, written, promised, data, synced, db_file, counting, count, due>>

Rename ==
    /\ At("rename")
    /\ dir[Top.name] # None
    /\ dir' = [dir EXCEPT ![DB] = dir[Top.name], ![Top.name] = None]
    /\ counting' = TRUE
    /\ Return(TRUE)
    /\ UNCHANGED <<mem, written, promised, data, synced, db_file,
                   lease_file_is_corrupt, count, due>>

(* rename fails, or the new file is no longer there.                       *)
RenameFails ==
    /\ At("rename")
    /\ "rename" \in Faults \/ dir[Top.name] = None
    /\ Fail
    /\ UNCHANGED <<mem, written, promised, data, synced, db_file, counting, count, due>>

new_lease_file ==
    \/ OpenNew \/ OpenFails
    \/ WriteLeases \/ CommitNew \/ RewriteFails
    \/ UnlinkBackup \/ LinkBackup \/ BackupFails
    \/ Rename \/ RenameFails

-----------------------------------------------------------------------------
(* LEASE_REWRITE_PERIOD passes.                                            *)
Hour ==
    /\ db_file # None
    /\ ~ due
    /\ due' = TRUE
    /\ UNCHANGED <<mem, written, promised, disk, db_file, lease_file_is_corrupt,
                   counting, count, caller, calls>>

(* The system crashes, at any point.                                       *)
Crash ==
    /\ db_file # None
    /\ db_file' = None
    /\ \E s \in Survivors(dir[DB]) :
           /\ data' = [data EXCEPT ![dir[DB]] = s]
           /\ synced' = [synced EXCEPT ![dir[DB]] = Len(s)]
    /\ caller' = Idle
    /\ calls' = << >>
    /\ UNCHANGED <<mem, written, promised, dir, flags>>

(* db_startup: read the file, open it for append, replace it.              *)
db_startup ==
    /\ db_file = None
    /\ mem' = [l \in Leases |-> Read(data[dir[DB]], l)]
    /\ written' = mem'
    /\ db_file' = dir[DB]
    /\ lease_file_is_corrupt' = FALSE
    /\ counting' = FALSE
    /\ count' = FALSE
    /\ due' = FALSE
    /\ caller' = [op |-> "startup"]
    /\ \E t \in Seconds :
           calls' = <<[at |-> "open", name |-> t, db_validity |-> FALSE]>>
    /\ UNCHANGED <<promised, disk>>

Next ==
    \/ \E l \in Leases : write_lease(l)
    \/ WriteRecord \/ commit_leases \/ new_lease_file
    \/ Hour \/ Crash \/ db_startup

Spec == Init /\ [][Next]_vars

-----------------------------------------------------------------------------
(* Every variable has its type.                                            *)
TypeOK ==
    /\ mem \in [Leases -> 0 .. MaxVersion]
    /\ written \in [Leases -> 0 .. MaxVersion]
    /\ promised \in [Leases -> 0 .. MaxVersion]
    /\ data \in [Inodes -> Seq(Record)]
    /\ synced \in [Inodes -> Nat]
    /\ dir \in [Names -> Inodes \cup {None}]
    /\ dir[DB] # None
    /\ db_file \in Inodes \cup {None}
    /\ {lease_file_is_corrupt, counting, count, due} \subseteq BOOLEAN
    /\ caller \in {Idle, [op |-> "commit"], [op |-> "startup"]}
                    \cup [op : {"write"}, lease : Leases]
    /\ calls \in Seq(Frame)
    /\ Len(calls) <= 2

(***************************************************************************)
(* The inductive invariant behind the properties below, for a disk on      *)
(* which appending to a file or opening one may fail.                      *)
(***************************************************************************)
(* The records of a file are whole, no newer than m has the leases, and    *)
(* those of one lease are in the order they were made.                     *)
InOrder(s, m) ==
    \A i \in DOMAIN s :
        /\ ~ s[i].torn
        /\ s[i].version <= m[s[i].lease]
        /\ \A j \in 1 .. i : s[j].lease = s[i].lease => s[j].version <= s[i].version

(* The first k records have every lease at least as new as v has it.       *)
Covers(s, k, v) ==
    \A l \in Leases : v[l] > 0 => \E i \in 1 .. k : s[i].lease = l /\ s[i].version >= v[l]

(* The server appends to the database, which has all that was written.     *)
Attached ==
    /\ db_file = dir[DB]
    /\ Covers(data[db_file], Len(data[db_file]), written)

(* The new file is complete and on disk, and either still has its own name *)
(* or was made the database by an activation inside this one.              *)
Replaceable(name) ==
    /\ Covers(data[db_file], synced[db_file], mem)
    /\ db_file = dir[name] \/ (dir[name] = None /\ db_file = dir[DB])

FrameInv ==
    /\ Top.at = "open" /\ Len(calls) = 1 => Attached
    /\ Top.at = "leases" => db_file = dir[Top.name] /\ data[db_file] = << >>
    /\ Top.at = "commit" =>
         db_file = dir[Top.name] /\ Covers(data[db_file], Len(data[db_file]), mem)
    /\ Top.at \in {"backup", "link", "rename"} => Replaceable(Top.name)
    /\ Len(calls) = 2 /\ Top.at = "open" => Replaceable(Top.name)

VersionInv == \A l \in Leases : promised[l] <= written[l] /\ written[l] <= mem[l]

FilesInv ==
    \A f \in {dir[DB], db_file} \ {None} :
        InOrder(data[f], mem) /\ synced[f] <= Len(data[f])

PhaseInv ==
    /\ db_file = None => calls = << >> /\ caller = Idle
    /\ db_file # None /\ calls = << >> => Attached /\ caller.op \in {"none", "write"}
    /\ calls # << >> => FrameInv /\ caller # Idle
    /\ Len(calls) = 2 => calls[1].at = "backup" /\ ~ count

FileInv ==
    /\ TypeOK
    /\ VersionInv
    /\ FilesInv
    /\ Covers(data[dir[DB]], synced[dir[DB]], promised)
    /\ \A t \in Seconds : dir[t] # dir[DB]
    /\ PhaseInv

(* dhcpd(8): the server "makes sure that the contents of the file are      *)
(* flushed to disk", so that "even in the event of a system crash, dhcpd   *)
(* will not forget about a lease that it has assigned".  Whatever a crash  *)
(* leaves of the database file at this moment, reading it gives every      *)
(* lease at least the version that commit_leases reported as committed.    *)
CommittedSurvives ==
    \A s \in Survivors(dir[DB]), l \in Leases : Read(s, l) >= promised[l]

(* The lease database is a store that never forgets what it committed:     *)
(* write_lease, commit_leases, every step of new_lease_file, a crash and   *)
(* db_startup are steps of LeaseStore or leave its state alone.            *)
Store == INSTANCE LeaseStore WITH current <- mem, promised <- promised
StoreSpec == Store!Spec

(* The comment in commit_leases: "If we haven't rewritten the lease        *)
(* database in over an hour, rewrite it now."  Between calls, a server     *)
(* with records in its file that a replacement would compact has a count   *)
(* that is not 0, so the next commit after the hour replaces the file.     *)
RewriteArmed ==
    Serving /\ Len(data[db_file]) > Len(Known) => count

(* dhcpd(8), on the replacement of the file: "If the system crashes in the *)
(* middle of this process, whichever dhcpd.leases file remains will        *)
(* contain all the lease information".  No step of new_lease_file, failed  *)
(* or not, makes the database remember less of any lease than it did       *)
(* before the step, in the worst case of a crash.                          *)
Least(l) == Min({Read(s, l) : s \in Survivors(dir[DB])})
KeepsLeast == new_lease_file => \A l \in Leases : Least(l)' >= Least(l)
ReplacementKeeps == [][KeepsLeast]_vars

(* The file the server appends to is the one the next start will read.     *)
WritesReachDatabase == Serving => db_file = dir[DB] \/ lease_file_is_corrupt

=============================================================================
