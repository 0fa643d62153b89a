--------------------------- MODULE LeaseFileProofs ---------------------------
(***************************************************************************)
(* Proofs about the lease database: lemmas about its operators, the        *)
(* inductive invariant, a lemma for each action, and what follows from it. *)
(***************************************************************************)
EXTENDS LeaseFile, FiniteSetTheorems, SequenceTheorems, TLAPS

-----------------------------------------------------------------------------
(***************************************************************************)
(* Lemmas about the operators LeaseFile is built from: what reading a file *)
(* finds, what appending to it, cutting it short or writing it anew does   *)
(* to its records, and what happens to the activations of new_lease_file.  *)
(***************************************************************************)

(* A set of natural numbers that is not empty has a smallest element.      *)
LEMMA SmallestExists ==
    ASSUME NEW T \in SUBSET Nat, T # {}
    PROVE  \E x \in T : \A y \in T : x <= y
<1>1. PICK x \in T : \A y \in T : ~ (<<y, x>> \in OpToRel(<, Nat))
  BY WFMin, NatLessThanWellFounded, Zenon
<1>2. \A y \in T : ~ (y < x)
  BY <1>1, Zenon DEF OpToRel
<1> QED  BY <1>2

(* The entries of a file are records.                                      *)
LEMMA RecordsOf ==
    ASSUME NEW s \in Seq(Record)
    PROVE  /\ Len(s) \in Nat /\ DOMAIN s = 1 .. Len(s)
           /\ \A i \in DOMAIN s : s[i] \in Record /\ s[i].lease \in Leases /\ s[i].version \in Nat
<1>1. DOMAIN s = 1 .. Len(s) /\ Len(s) \in Nat
  OBVIOUS
<1>2. \A i \in DOMAIN s : s[i] \in Record
  BY <1>1
<1>3. \A r \in Record : r.lease \in Leases /\ r.version \in Nat
  BY DEF Record
<1> QED  BY <1>1, <1>2, <1>3, Zenon

(* The positions of a sequence that are in a set S have a last one, which  *)
(* Max finds.                                                              *)
LEMMA MaxOfPositions ==
    ASSUME NEW n \in Nat, NEW S \in SUBSET (1 .. n), S # {}
    PROVE  Max(S) \in S /\ \A y \in S : y <= Max(S)
<1> DEFINE Above == {k \in Nat : \A y \in S : y <= k}
<1>1. Above \in SUBSET Nat /\ n \in Above
  OBVIOUS
<1>2. PICK m \in Above : \A y \in Above : m <= y
  BY <1>1, SmallestExists, Zenon
<1>3. m \in S
  <2> SUFFICES ASSUME m \notin S PROVE FALSE
    OBVIOUS
  <2>1. PICK y \in S : TRUE
    BY Zenon
  <2>2. m - 1 \in Above
    BY <2>1
  <2> QED  BY <1>2, <2>2
<1>4. \E x \in S : \A y \in S : x >= y
  BY <1>3
<1> QED  BY <1>4, Zenon DEF Max

(* What reading a file without cut records finds for a lease: the version  *)
(* of the last record of the lease, or none.                               *)
LEMMA ReadLast ==
    ASSUME NEW s \in Seq(Record), \A i \in DOMAIN s : ~ s[i].torn, NEW l \in Leases
    PROVE  \/ /\ Read(s, l) = 0
              /\ \A j \in DOMAIN s : s[j].lease # l
           \/ \E i \in DOMAIN s :
                 /\ s[i].lease = l
                 /\ Read(s, l) = s[i].version
                 /\ \A j \in DOMAIN s : s[j].lease = l => j <= i
<1> DEFINE mine == {i \in DOMAIN s : s[i].lease = l /\ Accepted(s, i)}
<1>1. \A i \in DOMAIN s : Accepted(s, i)
  BY DEF Accepted
<1>2. mine = {i \in DOMAIN s : s[i].lease = l}
  BY <1>1
<1>3. Read(s, l) = IF mine = {} THEN 0 ELSE s[Max(mine)].version
  BY DEF Read
<1>4. CASE mine = {}
  BY <1>2, <1>3, <1>4
<1>5. CASE mine # {}
  <2>1. mine \in SUBSET (1 .. Len(s)) /\ Len(s) \in Nat
    OBVIOUS
  <2> HIDE DEF mine
  <2>2. Max(mine) \in mine /\ \A y \in mine : y <= Max(mine)
    BY <2>1, <1>5, MaxOfPositions, Zenon
  <2> QED  BY <1>2, <1>3, <1>5, <2>2, Zenon
<1> QED  BY <1>4, <1>5

(* Listed lists exactly the elements of a finite set.                    *)
LEMMA ListedOnce ==
    ASSUME NEW S, IsFiniteSet(S)
    PROVE  /\ Listed(S) \in [1 .. Cardinality(S) -> S]
           /\ Cardinality(S) \in Nat
           /\ \A x \in S : \E i \in 1 .. Cardinality(S) : Listed(S)[i] = x
<1> DEFINE n == Cardinality(S)
           f == Listed(S)
<1>1. n \in Nat /\ ExistsBijection(1 .. n, S)
  BY FS_CardinalityType, Zenon
<1>2. \E g \in [1 .. n -> S] : IsInjective(g)
  BY <1>1, Zenon DEF ExistsBijection, Bijection, Injection
<1>3. f \in [1 .. n -> S] /\ IsInjective(f)
  BY <1>2 DEF Listed
<1>4. f \in Injection(1 .. n, S)
  BY <1>3, Zenon DEF Injection
<1>5. Cardinality(1 .. n) = n
  BY <1>1, FS_Interval
<1> HIDE DEF f
<1>6. f \in Surjection(1 .. n, S)
  BY <1>4, <1>5, FS_Injection, Zenon
<1> QED  BY <1>1, <1>3, <1>6 DEF Surjection, f

(* Reading a file gives every lease at least what its first records cover. *)
LEMMA ReadCovers ==
    ASSUME NEW s \in Seq(Record), NEW m, InOrder(s, m), NEW k \in 0 .. Len(s),
           NEW v \in [Leases -> Nat], Covers(s, k, v), NEW l \in Leases
    PROVE  Read(s, l) \in Nat /\ Read(s, l) >= v[l]
<1>0. \A i \in DOMAIN s : ~ s[i].torn
  BY Zenon DEF InOrder
<1>1. \A i \in DOMAIN s : s[i].version \in Nat
  BY RecordsOf, Zenon
<1>2. \/ Read(s, l) = 0 /\ \A j \in DOMAIN s : s[j].lease # l
      \/ \E i \in DOMAIN s : /\ s[i].lease = l
                             /\ Read(s, l) = s[i].version
                             /\ \A j \in DOMAIN s : s[j].lease = l => j <= i
  BY <1>0, ReadLast, Zenon
<1>3. CASE v[l] = 0
  BY <1>1, <1>2, <1>3
<1>4. CASE v[l] > 0
  <2>1. PICK j \in 1 .. k : s[j].lease = l /\ s[j].version >= v[l]
    BY <1>4 DEF Covers
  <2>2. j \in DOMAIN s
    OBVIOUS
  <2>3. PICK i \in DOMAIN s : /\ s[i].lease = l
                              /\ Read(s, l) = s[i].version
                              /\ j <= i
    BY <1>2, <2>1, <2>2
  <2>4. s[j].version <= s[i].version
    BY <2>1, <2>2, <2>3 DEF InOrder
  <2> QED  BY <1>1, <2>1, <2>2, <2>3, <2>4
<1> QED  BY <1>3, <1>4

(* Reading a file gives no lease more than memory had, and no less than    *)
(* any of its records.                                                     *)
LEMMA ReadBounds ==
    ASSUME NEW s \in Seq(Record), NEW m \in [Leases -> Nat], InOrder(s, m), NEW l \in Leases
    PROVE  /\ Read(s, l) \in 0 .. m[l]
           /\ \A j \in DOMAIN s : s[j].lease = l => s[j].version <= Read(s, l)
<1>0. \A i \in DOMAIN s : ~ s[i].torn
  BY Zenon DEF InOrder
<1>1. \A i \in DOMAIN s : s[i].version \in Nat
  BY RecordsOf
<1>2. \/ Read(s, l) = 0 /\ \A j \in DOMAIN s : s[j].lease # l
      \/ \E i \in DOMAIN s : /\ s[i].lease = l
                             /\ Read(s, l) = s[i].version
                             /\ \A j \in DOMAIN s : s[j].lease = l => j <= i
  BY <1>0, ReadLast
<1>3. CASE Read(s, l) = 0 /\ \A j \in DOMAIN s : s[j].lease # l
  BY <1>3
<1>4. ASSUME NEW i \in DOMAIN s, s[i].lease = l, Read(s, l) = s[i].version,
             \A j \in DOMAIN s : s[j].lease = l => j <= i
      PROVE  /\ Read(s, l) \in 0 .. m[l]
             /\ \A j \in DOMAIN s : s[j].lease = l => s[j].version <= Read(s, l)
  <2>1. Read(s, l) <= m[l] /\ Read(s, l) \in Nat
    BY <1>1, <1>4 DEF InOrder
  <2>2. ASSUME NEW j \in DOMAIN s, s[j].lease = l PROVE s[j].version <= Read(s, l)
    <3>1. j \in 1 .. i
      BY <1>4, <2>2
    <3> QED  BY <1>4, <2>2, <3>1 DEF InOrder
  <2> QED  BY <2>1, <2>2
<1> QED  BY <1>2, <1>3, <1>4

(* Appending the current record of a lease.                                *)
LEMMA AppendKeepsOrder ==
    ASSUME NEW s \in Seq(Record), NEW m \in [Leases -> Nat], InOrder(s, m), NEW l \in Leases
    PROVE  /\ Append(s, Whole(l, m[l])) \in Seq(Record)
           /\ Len(Append(s, Whole(l, m[l]))) = Len(s) + 1
           /\ InOrder(Append(s, Whole(l, m[l])), m)
<1> DEFINE r == Whole(l, m[l])
           a == Append(s, r)
<1>1. r \in Record /\ r.lease = l /\ r.version = m[l] /\ ~ r.torn
  BY DEF Whole, Record
<1> HIDE DEF r
<1>2. a \in Seq(Record) /\ Len(a) = Len(s) + 1 /\ DOMAIN a = 1 .. Len(s) + 1 /\ DOMAIN s = 1 .. Len(s)
  BY <1>1
<1>3. a[Len(s) + 1] = r /\ \A i \in 1 .. Len(s) : a[i] = s[i]
  BY <1>1
<1> HIDE DEF a
<1>4. ASSUME NEW i \in DOMAIN a
      PROVE  /\ ~ a[i].torn
             /\ a[i].version <= m[a[i].lease]
             /\ \A j \in 1 .. i : a[j].lease = a[i].lease => a[j].version <= a[i].version
  <2>1. CASE i \in 1 .. Len(s)
    <3>1. a[i] = s[i] /\ \A j \in 1 .. i : a[j] = s[j]
      BY <1>3, <2>1
    <3> QED  BY <1>2, <2>1, <3>1, Zenon DEF InOrder
  <2>2. CASE i = Len(s) + 1
    <3>1. a[i].version = m[l] /\ a[i].lease = l /\ ~ a[i].torn
      BY <1>1, <1>3, <2>2
    <3>2. ASSUME NEW j \in 1 .. i, a[j].lease = l PROVE a[j].version <= m[l]
      <4>1. CASE j = i
        BY <3>1, <4>1
      <4>2. CASE j \in 1 .. Len(s)
        BY <1>2, <1>3, <3>2, <4>2 DEF InOrder
      <4> QED  BY <2>2, <4>1, <4>2
    <3> QED  BY <3>1, <3>2
  <2> QED  BY <1>2, <2>1, <2>2
<1> QED  BY <1>2, <1>4 DEF InOrder, a, r

(* A lease that changes in memory leaves the records of a file in order.   *)
LEMMA NewerKeepsOrder ==
    ASSUME NEW s \in Seq(Record), NEW m \in [Leases -> Nat], NEW w \in [Leases -> Nat],
           \A l \in Leases : m[l] <= w[l], InOrder(s, m)
    PROVE  InOrder(s, w)
<1>1. \A i \in DOMAIN s : s[i].lease \in Leases /\ s[i].version \in Nat
  BY RecordsOf
<1>2. \A i \in DOMAIN s : s[i].version <= w[s[i].lease]
  BY <1>1 DEF InOrder
<1> QED  BY <1>2, ZenonT(30) DEF InOrder

(* What a crash leaves of a file.                                          *)
LEMMA PrefixKeepsOrder ==
    ASSUME NEW s \in Seq(Record), NEW m, InOrder(s, m), NEW k \in 0 .. Len(s)
    PROVE  /\ SubSeq(s, 1, k) \in Seq(Record)
           /\ Len(SubSeq(s, 1, k)) = k
           /\ \A i \in 1 .. k : SubSeq(s, 1, k)[i] = s[i]
           /\ InOrder(SubSeq(s, 1, k), m)
<1> DEFINE p == SubSeq(s, 1, k)
<1>1. p \in Seq(Record) /\ Len(p) = k /\ DOMAIN p = 1 .. k
  OBVIOUS
<1>2. \A i \in 1 .. k : p[i] = s[i] /\ i \in DOMAIN s
  OBVIOUS
<1> HIDE DEF p
<1>3. ASSUME NEW i \in DOMAIN p
      PROVE  /\ ~ p[i].torn
             /\ p[i].version <= m[p[i].lease]
             /\ \A j \in 1 .. i : p[j].lease = p[i].lease => p[j].version <= p[i].version
  <2>1. p[i] = s[i] /\ i \in DOMAIN s /\ \A j \in 1 .. i : p[j] = s[j]
    BY <1>1, <1>2
  <2> QED  BY <2>1 DEF InOrder
<1>4. InOrder(p, m)
  BY <1>3 DEF InOrder
<1> QED  BY <1>1, <1>2, <1>4 DEF p

(* Records that agree up to k cover the same, and more of them cover more. *)
LEMMA CoversMore ==
    ASSUME NEW s, NEW a, NEW j \in Nat, NEW k \in Nat, j <= k,
           \A i \in 1 .. j : a[i] = s[i],
           NEW v \in [Leases -> Nat], NEW w \in [Leases -> Nat], \A l \in Leases : w[l] <= v[l],
           Covers(s, j, v), \A i \in 1 .. j : s[i].version \in Nat
    PROVE  Covers(a, k, w)
<1> SUFFICES ASSUME NEW l \in Leases, w[l] > 0
             PROVE  \E i \in 1 .. k : a[i].lease = l /\ a[i].version >= w[l]
  BY DEF Covers
<1>1. PICK i \in 1 .. j : s[i].lease = l /\ s[i].version >= v[l]
  BY DEF Covers
<1>2. i \in 1 .. k /\ a[i] = s[i]
  OBVIOUS
<1> QED  BY <1>1, <1>2

(* The records of a new file: one of each lease in use, as it is in        *)
(* memory.                                                                 *)
LEMMA KnownRecords ==
    ASSUME mem \in [Leases -> Nat]
    PROVE  /\ Known \in Seq(Record)
           /\ InOrder(Known, mem)
           /\ Covers(Known, Len(Known), mem)
<1> DEFINE S == {l \in Leases : mem[l] > 0}
           n == Cardinality(S)
           q == Listed(S)
<1>1. IsFiniteSet(S)
  BY LeaseFileAssumption, FS_Subset, Zenon
<1>2. q \in [1 .. n -> S] /\ n \in Nat /\ \A x \in S : \E i \in 1 .. n : q[i] = x
  BY <1>1, ListedOnce, Zenon
<1>3. KnownLeases = q
  BY DEF KnownLeases
<1> HIDE DEF q, n
<1>4. Known = [i \in 1 .. n |-> Whole(q[i], mem[q[i]])]
  BY <1>2, <1>3, Zenon DEF Known
<1>5. \A i \in 1 .. n : /\ Known[i] = Whole(q[i], mem[q[i]])
                        /\ q[i] \in Leases
                        /\ Known[i] \in Record
                        /\ Known[i].lease = q[i]
                        /\ Known[i].version = mem[q[i]]
                        /\ ~ Known[i].torn
  BY <1>2, <1>4, Zenon DEF Whole, Record
<1>6. Known \in Seq(Record) /\ Len(Known) = n /\ DOMAIN Known = 1 .. n
  BY <1>2, <1>4, <1>5
<1>7. InOrder(Known, mem)
  BY <1>2, <1>5, <1>6 DEF InOrder
<1>8. Covers(Known, Len(Known), mem)
  <2> SUFFICES ASSUME NEW l \in Leases, mem[l] > 0
               PROVE  \E i \in 1 .. n : Known[i].lease = l /\ Known[i].version >= mem[l]
    BY <1>6, Zenon DEF Covers
  <2>1. PICK i \in 1 .. n : q[i] = l
    BY <1>2
  <2> QED  BY <1>5, <2>1
<1> QED  BY <1>6, <1>7, <1>8, Zenon

-----------------------------------------------------------------------------
(* Activations of new_lease_file.                                          *)

(* There is at most one activation inside another.                         *)
LEMMA Activations ==
    ASSUME calls \in Seq(Frame), Len(calls) <= 2, calls # << >>
    PROVE  /\ Len(calls) \in {1, 2}
           /\ Top \in Frame /\ Top = calls[Len(calls)]
           /\ Below \in Seq(Frame) /\ Len(Below) = Len(calls) - 1
           /\ Len(calls) = 2 => Below[1] = calls[1]
<1>0. Len(calls) \in Nat \ {0}
  BY EmptySeq, Zenon
<1>1. Len(calls) \in {1, 2}
  <2> DEFINE n == Len(calls)
  <2>1. n \in Nat \ {0} /\ n <= 2
    BY <1>0
  <2> HIDE DEF n
  <2>2. n \in {1, 2}
    BY <2>1
  <2> QED  BY <2>2 DEF n
<1>2. calls[1] \in Frame /\ calls[Len(calls)] \in Frame
  BY <1>1
<1>3. /\ Below \in Seq(Frame) /\ Len(Below) = Len(calls) - 1
      /\ Len(calls) = 2 => Below[1] = calls[1]
  BY <1>1 DEF Below
<1> QED  BY <1>1, <1>2, <1>3 DEF Top

(* The innermost activation goes on to step p.                             *)
LEMMA Proceeded ==
    ASSUME calls \in Seq(Frame), Len(calls) <= 2, calls # << >>,
           NEW p \in {"open", "leases", "commit", "backup", "link", "rename"}, Proceed(p)
    PROVE  /\ calls' \in Seq(Frame) /\ Len(calls') = Len(calls) /\ calls' # << >>
           /\ Top'.at = p /\ Top'.name = Top.name /\ Top'.db_validity = Top.db_validity
           /\ Len(calls) = 2 => calls'[1] = calls[1]
<1> DEFINE c == [Top EXCEPT !.at = p]
<1>1. c \in Frame /\ c.at = p /\ c.name = Top.name /\ c.db_validity = Top.db_validity
  BY Activations DEF Frame
<1> HIDE DEF c
<1>2. calls' = Below \o <<c>>
  BY DEF Proceed, c
<1>3. calls' \in Seq(Frame) /\ Len(calls') = Len(calls) /\ calls'[Len(calls)] = c
      /\ (Len(calls) = 2 => calls'[1] = calls[1])
  BY <1>1, <1>2, Activations
<1>4. Top' = c
  BY <1>3 DEF Top
<1> QED  BY <1>1, <1>3, <1>4, Activations

(* One activation, about to open its file.                                 *)
LEMMA Entered ==
    ASSUME NEW t \in Seconds, NEW b \in BOOLEAN,
           calls' = <<[at |-> "open", name |-> t, db_validity |-> b]>>
    PROVE  /\ calls' \in Seq(Frame) /\ Len(calls') = 1 /\ calls' # << >>
           /\ Top'.at = "open" /\ Top'.name = t
<1> DEFINE c == [at |-> "open", name |-> t, db_validity |-> b]
<1>1. c \in Frame /\ c.at = "open" /\ c.name = t
  BY DEF Frame
<1> HIDE DEF c
<1>2. calls' = <<c>>
  BY DEF c
<1>3. calls' \in Seq(Frame) /\ Len(calls') = 1 /\ calls'[1] = c
  BY <1>1, <1>2
<1>4. calls' # << >>
  BY <1>2
<1> QED  BY <1>1, <1>3, <1>4 DEF Top

(* An activation returns, to the one around it if there is one.            *)
LEMMA Returned ==
    ASSUME calls \in Seq(Frame), Len(calls) <= 2, calls # << >>,
           NEW ok \in BOOLEAN, Return(ok)
    PROVE  /\ calls' \in Seq(Frame) /\ Len(calls') <= 2
           /\ Len(calls) = 1 => /\ calls' = << >> /\ Len(calls') = 0
                                /\ caller' = Idle \/ (ok /\ caller' = caller /\ caller.op = "write")
           /\ Len(calls) = 2 => /\ calls' # << >> /\ Len(calls') = 1
                                /\ Top' = calls[1] /\ caller' = caller
<1>1. calls' = Below
  BY DEF Return
<1>2. calls' \in Seq(Frame) /\ Len(calls') = Len(calls) - 1 /\ Len(calls) \in {1, 2}
      /\ (Len(calls) = 2 => calls'[1] = calls[1])
  BY <1>1, Activations
<1>3. CASE Len(calls) = 1
  <2>1. Len(calls') = 0
    BY <1>2, <1>3
  <2>2. calls' = << >>
    BY <1>2, <2>1, EmptySeq
  <2>3. caller' = Idle \/ (ok /\ caller' = caller /\ caller.op = "write")
    BY <1>3 DEF Return
  <2> QED  BY <1>2, <1>3, <2>1, <2>2, <2>3
<1>4. CASE Len(calls) = 2
  <2>1. Len(calls') = 1 /\ calls'[1] = calls[1]
    BY <1>2, <1>4
  <2>2. calls' # << >>
    BY <2>1, EmptySeq
  <2>3. Top' = calls[1]
    BY <2>1 DEF Top
  <2>4. caller' = caller
    BY <1>4 DEF Return
  <2> QED  BY <1>2, <1>4, <2>1, <2>2, <2>3, <2>4
<1> QED  BY <1>2, <1>3, <1>4

-----------------------------------------------------------------------------
(***************************************************************************)
(* The disk the theorems are about: appending to a file and opening one    *)
(* may fail, the other steps of new_lease_file do not; a record reaches    *)
(* the disk whole or not at all; and a replacement inside a replacement    *)
(* happens within the same second.                                         *)
(***************************************************************************)
Reliable ==
    /\ Faults \subseteq {"write", "open"}
    /\ ~ TornWrites
    /\ \E t : Seconds = {t}

(* What the invariant says of the database and of the file in use.         *)
LEMMA FileFacts ==
    ASSUME FileInv
    PROVE  /\ mem \in [Leases -> Nat] /\ written \in [Leases -> Nat] /\ promised \in [Leases -> Nat]
           /\ data \in [Inodes -> Seq(Record)] /\ synced \in [Inodes -> Nat]
           /\ dir \in [Names -> Inodes \cup {None}] /\ DB \in Names /\ BACKUP \in Names
           /\ DB # BACKUP /\ DB \notin Seconds /\ BACKUP \notin Seconds
           /\ dir[DB] \in Inodes /\ dir[DB] # None
           /\ InOrder(data[dir[DB]], mem) /\ synced[dir[DB]] <= Len(data[dir[DB]])
           /\ db_file # None => /\ db_file \in Inodes
                                /\ InOrder(data[db_file], mem)
                                /\ synced[db_file] <= Len(data[db_file])
<1>1. DB \in Names /\ BACKUP \in Names /\ DB # BACKUP /\ DB \notin Seconds /\ BACKUP \notin Seconds
  BY LeaseFileAssumption DEF Names, DB, BACKUP
<1>2. /\ mem \in [Leases -> Nat] /\ written \in [Leases -> Nat] /\ promised \in [Leases -> Nat]
      /\ data \in [Inodes -> Seq(Record)] /\ synced \in [Inodes -> Nat]
      /\ dir \in [Names -> Inodes \cup {None}] /\ dir[DB] # None
      /\ db_file \in Inodes \cup {None}
  BY LeaseFileAssumption DEF FileInv, TypeOK
<1> QED  BY <1>1, <1>2 DEF FileInv, FilesInv

(* The records of a file that are in order have versions, all of them.     *)
LEMMA Versions ==
    ASSUME FileInv, NEW f \in Inodes
    PROVE  /\ data[f] \in Seq(Record) /\ Len(data[f]) \in Nat /\ DOMAIN data[f] = 1 .. Len(data[f])
           /\ \A i \in 1 .. Len(data[f]) : data[f][i].version \in Nat
<1>1. data[f] \in Seq(Record)
  BY FileFacts
<1> QED  BY <1>1, RecordsOf

(* The server starts with no leases and an empty file.                     *)
LEMMA InitInv ==
    ASSUME Init
    PROVE  FileInv
<1> DEFINE i == CHOOSE j \in Inodes : TRUE
           n0 == [n \in Names |-> None]
<1>1. n0 \in [Names -> Inodes \cup {None}] /\ DB \in Names /\ n0[DB] = None
  BY DEF Names
<1>2. \E j \in Inodes : TRUE
  BY <1>1, EnoughInodes, Zenon
<1>3. i \in Inodes /\ i # None
  BY <1>2, LeaseFileAssumption
<1> HIDE DEF i, n0
<1>4. /\ dir = [n \in Names |-> IF n = DB THEN i ELSE None]
      /\ data = [j \in Inodes |-> << >>] /\ synced = [j \in Inodes |-> 0]
      /\ mem = [l \in Leases |-> 0] /\ written = [l \in Leases |-> 0] /\ promised = [l \in Leases |-> 0]
      /\ db_file = None /\ caller = Idle /\ calls = << >>
      /\ lease_file_is_corrupt = FALSE /\ counting = FALSE /\ count = FALSE /\ due = FALSE
  BY DEF Init, i
<1>5. dir[DB] = i /\ data[i] = << >> /\ synced[i] = 0
  BY <1>1, <1>3, <1>4
<1>6. \A t \in Seconds : dir[t] # dir[DB]
  BY <1>3, <1>4, <1>5, LeaseFileAssumption DEF Names
<1>7. TypeOK
  <2>1. /\ mem \in [Leases -> 0 .. MaxVersion] /\ written \in [Leases -> 0 .. MaxVersion]
        /\ promised \in [Leases -> 0 .. MaxVersion]
    BY <1>4, LeaseFileAssumption
  <2>2. data \in [Inodes -> Seq(Record)] /\ synced \in [Inodes -> Nat]
    BY <1>4
  <2>3. dir \in [Names -> Inodes \cup {None}] /\ dir[DB] # None
    BY <1>3, <1>4, <1>5
  <2>4. calls \in Seq(Frame) /\ Len(calls) <= 2
    BY <1>4
  <2> QED  BY <1>4, <2>1, <2>2, <2>3, <2>4, Zenon DEF TypeOK
<1>8. VersionInv
  BY <1>4 DEF VersionInv
<1>9. FilesInv
  BY <1>4, <1>5 DEF FilesInv, InOrder
<1>10. Covers(data[dir[DB]], synced[dir[DB]], promised)
  BY <1>4 DEF Covers
<1>11. PhaseInv
  BY <1>4 DEF PhaseInv
<1> QED  BY <1>6, <1>7, <1>8, <1>9, <1>10, <1>11 DEF FileInv

(* Opening the new file leaves the database alone.                         *)
LEMMA OpenedApart ==
    ASSUME FileInv, NEW t \in Seconds
    PROVE  Opened(t) \in Inodes /\ Opened(t) # dir[DB]
<1>1. /\ dir \in [Names -> Inodes \cup {None}] /\ db_file \in Inodes \cup {None}
      /\ t \in Names /\ DB \in Names /\ dir[t] # dir[DB]
  BY DEF FileInv, TypeOK, Names
<1>2. CASE dir[t] # None
  BY <1>1, <1>2 DEF Opened
<1>3. CASE dir[t] = None
  <2>1. \E i \in Inodes : i # db_file /\ \A m \in Names : dir[m] # i
    BY <1>1, <1>3, EnoughInodes
  <2> QED  BY <1>1, <1>3, <2>1 DEF Opened
<1> QED  BY <1>2, <1>3

LEMMA OpenNewStep ==
    ASSUME FileInv, Reliable, OpenNew
    PROVE  FileInv'
<1> DEFINE t == Top.name
           f == Opened(t)
<1>1. /\ calls \in Seq(Frame) /\ Len(calls) <= 2 /\ calls # << >> /\ Proceed("leases")
      /\ Top \in Frame /\ Top.at = "open"
  BY Activations DEF FileInv, TypeOK, OpenNew, At
<1>2. /\ calls' \in Seq(Frame) /\ Len(calls') = Len(calls) /\ calls' # << >>
      /\ Top'.at = "leases" /\ Top'.name = t
      /\ Len(calls) = 2 => calls'[1] = calls[1]
  BY <1>1, Proceeded
<1>3. t \in Seconds /\ t \in Names /\ t # DB /\ DB \in Names
  BY <1>1, LeaseFileAssumption DEF Frame, Names
<1>4. f \in Inodes /\ f # dir[DB] /\ f # None
  BY <1>3, OpenedApart, LeaseFileAssumption
<1> HIDE DEF f, t
<1>5. /\ data' = [data EXCEPT ![f] = << >>] /\ synced' = [synced EXCEPT ![f] = 0]
      /\ dir' = [dir EXCEPT ![t] = f] /\ db_file' = f
      /\ lease_file_is_corrupt' = FALSE /\ counting' = FALSE
      /\ UNCHANGED <<mem, written, promised, count, due, caller>>
  BY DEF OpenNew, f, t
<1>6. /\ data \in [Inodes -> Seq(Record)] /\ synced \in [Inodes -> Nat]
      /\ dir \in [Names -> Inodes \cup {None}] /\ dir[DB] # None /\ dir[DB] \in Inodes
  BY <1>3 DEF FileInv, TypeOK
<1>7. /\ dir'[DB] = dir[DB] /\ dir'[t] = f
      /\ data'[dir[DB]] = data[dir[DB]] /\ synced'[dir[DB]] = synced[dir[DB]]
      /\ data'[f] = << >> /\ synced'[f] = 0
  BY <1>3, <1>4, <1>5, <1>6
<1>8. TypeOK'
  <2>1. data' \in [Inodes -> Seq(Record)] /\ synced' \in [Inodes -> Nat]
    BY <1>4, <1>5, <1>6
  <2>2. dir' \in [Names -> Inodes \cup {None}] /\ dir'[DB] # None
    BY <1>3, <1>4, <1>5, <1>6, <1>7
  <2> QED  BY <1>2, <1>1, <1>4, <1>5, <2>1, <2>2, Zenon DEF FileInv, TypeOK
<1>9. VersionInv'
  BY <1>5 DEF FileInv, VersionInv
<1>10. FilesInv'
  <2>1. InOrder(data'[f], mem') /\ synced'[f] <= Len(data'[f])
    BY <1>7 DEF InOrder
  <2>2. InOrder(data'[dir[DB]], mem') /\ synced'[dir[DB]] <= Len(data'[dir[DB]])
    BY <1>5, <1>6, <1>7 DEF FileInv, FilesInv
  <2> QED  BY <1>5, <1>7, <2>1, <2>2 DEF FilesInv
<1>11. Covers(data'[dir'[DB]], synced'[dir'[DB]], promised')
  BY <1>5, <1>7 DEF FileInv
<1>12. \A u \in Seconds : dir'[u] # dir'[DB]
  BY <1>3, <1>4, <1>5, <1>6, <1>7 DEF FileInv, Names
<1>13. PhaseInv'
  <2>1. FrameInv'
    BY <1>2, <1>5, <1>7 DEF FrameInv
  <2>2. Len(calls') = 2 => calls'[1].at = "backup" /\ ~ count'
    BY <1>2, <1>5 DEF FileInv, PhaseInv
  <2>3. caller' # Idle
    BY <1>1, <1>5 DEF FileInv, PhaseInv
  <2> QED  BY <1>2, <1>4, <1>5, <2>1, <2>2, <2>3 DEF PhaseInv
<1> QED  BY <1>8, <1>9, <1>10, <1>11, <1>12, <1>13 DEF FileInv

(* write_lease, up to the point where it prints the record.                *)
LEMMA WriteLeaseStep ==
    ASSUME FileInv, NEW l \in Leases, write_lease(l)
    PROVE  FileInv'
<1>1. /\ db_file # None /\ caller = Idle /\ mem[l] < MaxVersion
      /\ mem' = [mem EXCEPT ![l] = @ + 1]
      /\ UNCHANGED <<written, promised, data, synced, dir, db_file, lease_file_is_corrupt,
                     counting, count, due>>
  BY DEF write_lease, Serving, disk, flags
<1>2. calls = << >> /\ Attached
  BY <1>1, Zenon DEF FileInv, PhaseInv
<1>3. mem' \in [Leases -> 0 .. MaxVersion] /\ \A k \in Leases : mem[k] <= mem'[k]
  BY <1>1, LeaseFileAssumption DEF FileInv, TypeOK
<1>4. /\ caller' = [op |-> "write", lease |-> l]
      /\ \/ calls' = << >>
         \/ /\ calls' \in Seq(Frame) /\ Len(calls') = 1 /\ calls' # << >>
            /\ Top'.at = "open"
  <2>1. CASE lease_file_is_corrupt
    <3>1. PICK t \in Seconds :
              calls' = <<[at |-> "open", name |-> t, db_validity |-> lease_file_is_corrupt]>>
      BY <2>1 DEF write_lease, Enter
    <3>2. lease_file_is_corrupt \in BOOLEAN
      BY DEF FileInv, TypeOK
    <3>3. caller' = [op |-> "write", lease |-> l]
      BY <2>1 DEF write_lease, Enter
    <3> QED  BY <3>1, <3>2, <3>3, Entered
  <2>2. CASE ~ lease_file_is_corrupt
    BY <1>2, <2>2 DEF write_lease
  <2> QED  BY <2>1, <2>2
<1>5. caller' # Idle /\ caller'.op = "write"
  BY <1>4 DEF Idle
<1>6. TypeOK'
  <2>0. calls' = << >> => calls' \in Seq(Frame) /\ Len(calls') = 0
    OBVIOUS
  <2>1. calls' \in Seq(Frame) /\ Len(calls') <= 2
    <3> DEFINE n == Len(calls')
    <3>1. calls' \in Seq(Frame) /\ n \in {0, 1}
      BY <1>4, <2>0
    <3> HIDE DEF n
    <3>2. n <= 2
      BY <3>1
    <3> QED  BY <3>1, <3>2 DEF n
  <2>2. caller' \in [op : {"write"}, lease : Leases]
    BY <1>4
  <2> QED  BY <1>1, <1>3, <2>1, <2>2, Zenon DEF FileInv, TypeOK
<1>7. VersionInv'
  <2>1. \A k \in Leases : promised[k] \in Nat /\ written[k] \in Nat /\ mem[k] \in Nat /\ mem'[k] \in Nat
    BY <1>3, FileFacts, LeaseFileAssumption
  <2> QED  BY <1>1, <1>3, <2>1 DEF FileInv, VersionInv
<1>8. FilesInv'
  <2>1. ASSUME NEW f \in Inodes, InOrder(data[f], mem) PROVE InOrder(data[f], mem')
    <3>1. mem \in [Leases -> Nat] /\ mem' \in [Leases -> Nat]
      BY <1>3, FileFacts, LeaseFileAssumption
    <3> QED  BY <1>3, <2>1, <3>1, NewerKeepsOrder, Versions, Zenon
  <2>2. \A f \in {dir[DB], db_file} \ {None} : f \in Inodes
    BY FileFacts
  <2>3. \A f \in {dir[DB], db_file} \ {None} : InOrder(data[f], mem) /\ synced[f] <= Len(data[f])
    BY DEF FileInv, FilesInv
  <2>4. \A f \in {dir[DB], db_file} \ {None} : InOrder(data[f], mem') /\ synced[f] <= Len(data[f])
    BY <2>1, <2>2, <2>3
  <2> QED  BY <1>1, <2>4, Zenon DEF FilesInv
<1>9. Covers(data'[dir'[DB]], synced'[dir'[DB]], promised')
  BY <1>1 DEF FileInv
<1>10. \A t \in Seconds : dir'[t] # dir'[DB]
  BY <1>1 DEF FileInv
<1>11. PhaseInv'
  <2>1. Attached'
    BY <1>1, <1>2 DEF Attached
  <2>2. calls' # << >> => FrameInv' /\ Len(calls') = 1
    BY <1>4, <2>1 DEF FrameInv
  <2>3. calls' = << >> => Len(calls') = 0
    OBVIOUS
  <2> QED  BY <1>1, <1>5, <2>1, <2>2, <2>3 DEF PhaseInv
<1> QED  BY <1>6, <1>7, <1>8, <1>9, <1>10, <1>11 DEF FileInv

(* The record is printed to the database, or printing it fails.            *)
LEMMA WriteRecordStep ==
    ASSUME FileInv, Reliable, WriteRecord
    PROVE  FileInv'
<1> DEFINE l == caller.lease
           f == db_file
<1>1. /\ calls = << >> /\ caller.op = "write" /\ caller' = Idle
      /\ UNCHANGED <<mem, promised, synced, dir, db_file, counting, due, calls>>
      /\ count' = (count \/ counting)
  BY DEF WriteRecord
<1>2. l \in Leases /\ caller # Idle
  BY <1>1 DEF FileInv, TypeOK, Idle
<1>3. f # None /\ Attached
  BY <1>1, <1>2 DEF FileInv, PhaseInv
<1>4. f \in Inodes /\ f = dir[DB] /\ Covers(data[f], Len(data[f]), written)
  BY <1>3, FileFacts DEF Attached
<1>5. \/ /\ data' = [data EXCEPT ![f] = Append(@, Whole(l, mem[l]))]
         /\ written' = [written EXCEPT ![l] = mem[l]]
         /\ UNCHANGED lease_file_is_corrupt
      \/ UNCHANGED <<data, written>> /\ lease_file_is_corrupt' = TRUE
  BY DEF WriteRecord, AppendRecord, AppendFails, Reliable
<1> HIDE DEF l, f
<1>6. /\ \A k \in Leases : written[k] <= written'[k] /\ written'[k] <= mem[k]
      /\ written' \in [Leases -> 0 .. MaxVersion]
  <2>1. \A k \in Leases : written[k] \in Nat /\ mem[k] \in 0 .. MaxVersion /\ written[k] <= mem[k]
    BY FileFacts DEF FileInv, TypeOK, VersionInv
  <2>2. written \in [Leases -> 0 .. MaxVersion]
    BY DEF FileInv, TypeOK
  <2> QED  BY <1>2, <1>5, <2>1, <2>2, LeaseFileAssumption
<1>7. /\ data' \in [Inodes -> Seq(Record)]
      /\ InOrder(data'[f], mem)
      /\ Len(data[f]) \in Nat /\ Len(data'[f]) \in Nat /\ Len(data[f]) <= Len(data'[f])
      /\ \A i \in 1 .. Len(data[f]) : data'[f][i] = data[f][i]
      /\ Covers(data'[f], Len(data'[f]), written')
  <2> DEFINE s == data[f]
             a == Append(s, Whole(l, mem[l]))
  <2>1. /\ s \in Seq(Record) /\ Len(s) \in Nat /\ \A i \in 1 .. Len(s) : s[i].version \in Nat
        /\ InOrder(s, mem) /\ mem \in [Leases -> Nat] /\ data \in [Inodes -> Seq(Record)]
        /\ written \in [Leases -> Nat]
    BY <1>3, <1>4, FileFacts, Versions DEF f
  <2>2. CASE /\ data' = [data EXCEPT ![f] = a]
             /\ written' = [written EXCEPT ![l] = mem[l]]
    <3>1. a \in Seq(Record) /\ Len(a) = Len(s) + 1 /\ InOrder(a, mem)
      BY <1>2, <2>1, AppendKeepsOrder, Zenon
    <3>2. a[Len(s) + 1] = Whole(l, mem[l]) /\ \A i \in 1 .. Len(s) : a[i] = s[i]
      BY <2>1
    <3> HIDE DEF a, s
    <3>3. data'[f] = a /\ data' \in [Inodes -> Seq(Record)]
      BY <1>4, <2>1, <2>2, <3>1
    <3>4. Covers(a, Len(a), written')
      <4> SUFFICES ASSUME NEW k \in Leases, written'[k] > 0
                   PROVE  \E i \in 1 .. Len(a) : a[i].lease = k /\ a[i].version >= written'[k]
        BY DEF Covers
      <4>1. CASE k = l
        <5>1. a[Len(a)].lease = k /\ a[Len(a)].version = mem[k]
          BY <3>1, <3>2, <4>1 DEF Whole
        <5>2. written'[k] = mem[k] /\ mem[k] \in Nat
          BY <1>2, <2>1, <2>2, <4>1
        <5> QED  BY <2>1, <3>1, <5>1, <5>2
      <4>2. CASE k # l
        <5>1. written'[k] = written[k]
          BY <2>1, <2>2, <4>2
        <5>2. PICK i \in 1 .. Len(s) : s[i].lease = k /\ s[i].version >= written[k]
          BY <1>4, <5>1 DEF Covers, s
        <5> QED  BY <2>1, <3>1, <3>2, <5>1, <5>2
      <4> QED  BY <4>1, <4>2
    <3> QED  BY <2>1, <3>1, <3>2, <3>3, <3>4 DEF s
  <2>3. CASE UNCHANGED <<data, written>>
    BY <1>4, <2>1, <2>3
  <2> QED  BY <1>5, <2>2, <2>3
<1>8. TypeOK'
  <2>1. {lease_file_is_corrupt', counting', count', due'} \subseteq BOOLEAN
    BY <1>1, <1>5, Zenon DEF FileInv, TypeOK
  <2> QED  BY <1>1, <1>6, <1>7, <2>1 DEF FileInv, TypeOK
<1>9. VersionInv'
  <2>1. \A k \in Leases : promised[k] \in Nat /\ written[k] \in Nat /\ written'[k] \in Nat
    BY <1>6, FileFacts, LeaseFileAssumption
  <2> QED  BY <1>1, <1>6, <2>1 DEF FileInv, VersionInv
<1>10. FilesInv'
  <2>1. synced[f] <= Len(data[f]) /\ synced[f] \in Nat
    BY <1>3, <1>4, FileFacts
  <2>2. synced[f] <= Len(data'[f])
    BY <1>7, <2>1
  <2> QED  BY <1>1, <1>4, <1>7, <2>2 DEF FilesInv, f
<1>11. Covers(data'[dir'[DB]], synced'[dir'[DB]], promised')
  <2> DEFINE j == synced[f]
  <2>1. j \in Nat /\ j <= Len(data[f]) /\ promised \in [Leases -> Nat]
    BY <1>3, <1>4, FileFacts
  <2>2. \A i \in 1 .. j : data'[f][i] = data[f][i] /\ data[f][i].version \in Nat
    BY <1>4, <1>7, <2>1, Versions
  <2>3. Covers(data[f], j, promised)
    BY <1>4 DEF FileInv
  <2>4. j <= j /\ \A k \in Leases : promised[k] <= promised[k]
    BY <2>1
  <2> HIDE DEF j
  <2>5. Covers(data'[f], j, promised)
    BY <2>1, <2>2, <2>3, <2>4, CoversMore, Zenon
  <2> QED  BY <1>1, <1>4, <2>5 DEF j
<1>12. \A t \in Seconds : dir'[t] # dir'[DB]
  BY <1>1 DEF FileInv
<1>13. PhaseInv'
  <2>1. Attached'
    BY <1>1, <1>4, <1>7 DEF Attached, f
  <2>2. Len(calls') = 0 /\ calls' = << >>
    BY <1>1
  <2>3. caller'.op = "none"
    BY <1>1 DEF Idle
  <2> QED  BY <1>1, <2>1, <2>2, <2>3 DEF PhaseInv
<1> QED  BY <1>8, <1>9, <1>10, <1>11, <1>12, <1>13 DEF FileInv

(* A commit of the server.                                                 *)
LEMMA CommitStep ==
    ASSUME FileInv, commit_leases
    PROVE  FileInv'
<1> DEFINE f == db_file
<1>1. /\ f # None /\ caller = Idle
      /\ synced' = [synced EXCEPT ![f] = Len(data[f])]
      /\ promised' = written
      /\ UNCHANGED <<mem, written, data, dir, db_file, lease_file_is_corrupt, counting>>
  BY DEF commit_leases, Serving, Flush
<1>2. calls = << >> /\ Attached
  BY <1>1 DEF FileInv, PhaseInv
<1>3. /\ \/ UNCHANGED <<count, due, caller, calls>>
         \/ /\ count' = FALSE /\ due' = FALSE /\ caller' = [op |-> "commit"]
            /\ calls' \in Seq(Frame) /\ Len(calls') = 1 /\ calls' # << >>
            /\ Top'.at = "open"
  <2>1. CASE RewriteNow
    <3>1. PICK t \in Seconds :
              calls' = <<[at |-> "open", name |-> t, db_validity |-> lease_file_is_corrupt]>>
      BY <2>1 DEF commit_leases, Enter
    <3>2. lease_file_is_corrupt \in BOOLEAN
      BY DEF FileInv, TypeOK
    <3>3. count' = FALSE /\ due' = FALSE /\ caller' = [op |-> "commit"]
      BY <2>1 DEF commit_leases, Enter
    <3> QED  BY <3>1, <3>2, <3>3, Entered
  <2>2. CASE ~ RewriteNow
    BY <2>2 DEF commit_leases
  <2> QED  BY <2>1, <2>2, Zenon
<1>4. /\ f \in Inodes /\ f = dir[DB] /\ Covers(data[f], Len(data[f]), written)
      /\ synced \in [Inodes -> Nat] /\ Len(data[f]) \in Nat /\ InOrder(data[f], mem)
  BY <1>1, <1>2, FileFacts, Versions DEF Attached
<1>5. synced' \in [Inodes -> Nat] /\ synced'[f] = Len(data[f])
  BY <1>1, <1>4
<1> HIDE DEF f
<1>6. TypeOK'
  <2>1. calls' \in Seq(Frame) /\ Len(calls') <= 2
    <3> DEFINE n == Len(calls')
    <3>1. calls' \in Seq(Frame) /\ (n = 1 \/ n <= 2)
      BY <1>3 DEF FileInv, TypeOK
    <3> HIDE DEF n
    <3>2. n <= 2
      BY <3>1
    <3> QED  BY <3>1, <3>2 DEF n
  <2>2. {lease_file_is_corrupt', counting', count', due'} \subseteq BOOLEAN
    BY <1>1, <1>3, Zenon DEF FileInv, TypeOK
  <2>3. caller' \in {Idle, [op |-> "commit"]}
    BY <1>1, <1>3
  <2> QED  BY <1>1, <1>5, <2>1, <2>2, <2>3 DEF FileInv, TypeOK
<1>7. VersionInv'
  <2>1. \A k \in Leases : written[k] \in Nat
    BY FileFacts
  <2> QED  BY <1>1, <2>1 DEF FileInv, VersionInv
<1>8. FilesInv'
  BY <1>1, <1>4, <1>5 DEF FilesInv, f
<1>9. Covers(data'[dir'[DB]], synced'[dir'[DB]], promised')
  BY <1>1, <1>4, <1>5
<1>10. \A t \in Seconds : dir'[t] # dir'[DB]
  BY <1>1 DEF FileInv
<1>11. PhaseInv'
  <2>1. Attached'
    BY <1>1, <1>2 DEF Attached
  <2>2. CASE UNCHANGED <<count, due, caller, calls>>
    <3>1. calls' = << >> /\ Len(calls') = 0 /\ caller' = Idle /\ caller'.op = "none"
      BY <1>1, <1>2, <2>2 DEF Idle
    <3> QED  BY <1>1, <2>1, <3>1 DEF PhaseInv, f
  <2>3. CASE /\ caller' = [op |-> "commit"] /\ Len(calls') = 1 /\ calls' # << >>
             /\ Top'.at = "open"
    <3>1. caller' # Idle
      BY <2>3 DEF Idle
    <3>2. FrameInv'
      BY <2>1, <2>3 DEF FrameInv
    <3> QED  BY <1>1, <2>1, <2>3, <3>1, <3>2 DEF PhaseInv, f
  <2> QED  BY <1>3, <2>2, <2>3
<1> QED  BY <1>6, <1>7, <1>8, <1>9, <1>10, <1>11 DEF FileInv

(* The names an activation may get are one.                                *)
LEMMA OneName ==
    ASSUME Reliable, NEW t \in Seconds, NEW u \in Seconds
    PROVE  t = u
BY DEF Reliable

(* The innermost activation, and the name and the file it works with.      *)
LEMMA InnerFacts ==
    ASSUME FileInv, calls # << >>
    PROVE  /\ calls \in Seq(Frame) /\ Len(calls) <= 2 /\ Len(calls) \in {1, 2}
           /\ Top \in Frame /\ Top.name \in Seconds /\ Top.name \in Names
           /\ db_file # None /\ caller # Idle /\ FrameInv
           /\ Len(calls) = 2 => calls[1].at = "backup" /\ calls[1].name \in Seconds /\ ~ count
<1>1. calls \in Seq(Frame) /\ Len(calls) <= 2
  BY DEF FileInv, TypeOK
<1>2. Len(calls) \in {1, 2} /\ Top \in Frame
  BY <1>1, Activations
<1>3. Top.name \in Seconds /\ Top.name \in Names
  BY <1>2 DEF Frame, Names
<1>4. db_file # None /\ caller # Idle /\ FrameInv
  BY DEF FileInv, PhaseInv
<1>5. Len(calls) = 2 => calls[1].at = "backup" /\ ~ count
  BY DEF FileInv, PhaseInv
<1>6. Len(calls) = 2 => calls[1].name \in Seconds
  <2> SUFFICES ASSUME Len(calls) = 2 PROVE calls[1] \in Frame
    BY Zenon DEF Frame
  <2> QED  BY <1>1
<1> QED  BY <1>1, <1>2, <1>3, <1>4, <1>5, <1>6, Zenon

(* An activation returns to the one around it, or new_lease_file is over   *)
(* and the server appends to the database.                                 *)
LEMMA ReturnPhase ==
    ASSUME FileInv, Reliable, calls # << >>, NEW ok \in BOOLEAN, Return(ok),
           db_file' = db_file, count' = count,
           Len(calls) = 1 => Attached',
           Len(calls) = 2 =>
             /\ Covers(data'[db_file], synced'[db_file], mem')
             /\ db_file = dir'[Top.name] \/ (dir'[Top.name] = None /\ db_file = dir'[DB])
    PROVE  /\ PhaseInv'
           /\ calls' \in Seq(Frame) /\ Len(calls') <= 2
           /\ caller' \in {Idle, caller}
<1>1. /\ calls \in Seq(Frame) /\ Len(calls) <= 2 /\ Len(calls) \in {1, 2} /\ Top.name \in Seconds
      /\ db_file # None /\ caller # Idle
      /\ Len(calls) = 2 => calls[1].at = "backup" /\ calls[1].name \in Seconds /\ ~ count
  BY InnerFacts
<1>2. /\ calls' \in Seq(Frame) /\ Len(calls') <= 2
      /\ Len(calls) = 1 => /\ calls' = << >> /\ Len(calls') = 0
                           /\ caller' = Idle \/ (ok /\ caller' = caller /\ caller.op = "write")
      /\ Len(calls) = 2 => /\ calls' # << >> /\ Len(calls') = 1
                           /\ Top' = calls[1] /\ caller' = caller
  BY <1>1, Returned
<1>3. CASE Len(calls) = 1
  <2>1. caller'.op \in {"none", "write"} /\ caller' \in {Idle, caller}
    BY <1>2, <1>3 DEF Idle
  <2>2. PhaseInv'
    BY <1>1, <1>2, <1>3, <2>1 DEF PhaseInv
  <2> QED  BY <1>2, <2>1, <2>2
<1>4. CASE Len(calls) = 2
  <2>1. Top'.at = "backup" /\ Top'.name = Top.name /\ Len(calls') = 1
    BY <1>1, <1>2, <1>4, OneName
  <2>2. Replaceable(Top.name)'
    BY <1>4, <2>1 DEF Replaceable
  <2>3. FrameInv'
    BY <2>1, <2>2 DEF FrameInv
  <2>4. PhaseInv'
    BY <1>1, <1>2, <1>4, <2>1, <2>3 DEF PhaseInv
  <2> QED  BY <1>2, <1>4, <2>4
<1> QED  BY <1>1, <1>3, <1>4

(* The new file cannot be opened.                                          *)
LEMMA OpenFailsStep ==
    ASSUME FileInv, Reliable, OpenFails
    PROVE  FileInv'
<1>1. /\ calls # << >> /\ Top.at = "open" /\ Return(FALSE)
      /\ UNCHANGED <<mem, written, promised, data, synced, dir, db_file,
                     lease_file_is_corrupt, counting, count, due>>
  BY Zenon DEF OpenFails, At, disk, flags
<1>2. FrameInv
  BY <1>1, InnerFacts
<1>3. Len(calls) = 1 => Attached'
  BY <1>1, <1>2 DEF FrameInv, Attached
<1>4. Len(calls) = 2 => Replaceable(Top.name)
  BY <1>1, <1>2 DEF FrameInv
<1>5. Len(calls) = 2 =>
        /\ Covers(data'[db_file], synced'[db_file], mem')
        /\ db_file = dir'[Top.name] \/ (dir'[Top.name] = None /\ db_file = dir'[DB])
  BY <1>1, <1>4, Zenon DEF Replaceable
<1>6. /\ PhaseInv' /\ calls' \in Seq(Frame) /\ Len(calls') <= 2 /\ caller' \in {Idle, caller}
  BY <1>1, <1>3, <1>5, ReturnPhase, Zenon
<1>7. TypeOK'
  BY <1>1, <1>6, Zenon DEF FileInv, TypeOK
<1>8. VersionInv' /\ FilesInv'
  BY <1>1, Zenon DEF FileInv, VersionInv, FilesInv
<1>9. Covers(data'[dir'[DB]], synced'[dir'[DB]], promised') /\ \A t \in Seconds : dir'[t] # dir'[DB]
  BY <1>1, Zenon DEF FileInv
<1> QED  BY <1>6, <1>7, <1>8, <1>9 DEF FileInv

(* write_leases puts a record of every lease into the new file.            *)
LEMMA WriteLeasesStep ==
    ASSUME FileInv, WriteLeases
    PROVE  FileInv'
<1> DEFINE f == db_file
<1>1. /\ calls # << >> /\ Top.at = "leases" /\ Proceed("commit")
      /\ data' = [data EXCEPT ![f] = @ \o Known]
      /\ UNCHANGED <<mem, written, promised, synced, dir, db_file, lease_file_is_corrupt,
                     counting, count, due, caller>>
  BY Zenon DEF WriteLeases, At, flags
<1>2. /\ calls \in Seq(Frame) /\ Len(calls) <= 2 /\ Top.name \in Seconds /\ FrameInv
      /\ f # None /\ caller # Idle
  BY <1>1, InnerFacts, Zenon
<1>3. /\ calls' \in Seq(Frame) /\ Len(calls') = Len(calls) /\ calls' # << >>
      /\ Top'.at = "commit" /\ Top'.name = Top.name
      /\ Len(calls) = 2 => calls'[1] = calls[1]
  BY <1>1, <1>2, Proceeded, Zenon
<1>4. f = dir[Top.name] /\ data[f] = << >> /\ f # dir[DB]
  BY <1>1, <1>2, Zenon DEF FrameInv, FileInv
<1>5. f \in Inodes /\ data \in [Inodes -> Seq(Record)] /\ dir[DB] \in Inodes /\ synced \in [Inodes -> Nat]
  BY <1>2, FileFacts, Zenon
<1>6. Known \in Seq(Record) /\ InOrder(Known, mem) /\ Covers(Known, Len(Known), mem)
  BY FileFacts, KnownRecords, Zenon
<1>7. << >> \o Known = Known
  BY <1>6
<1>8. /\ data' \in [Inodes -> Seq(Record)] /\ data'[f] = Known
      /\ data'[dir[DB]] = data[dir[DB]]
  BY <1>1, <1>4, <1>5, <1>6, <1>7
<1>9. synced[f] = 0 /\ Len(Known) \in Nat
  <2>1. synced[f] <= Len(data[f]) /\ synced[f] \in Nat
    BY <1>2, FileFacts, Zenon
  <2> QED  BY <1>4, <1>6, <2>1
<1> HIDE DEF f
<1>10. TypeOK'
  BY Zenon, <1>1, <1>2, <1>3, <1>8 DEF FileInv, TypeOK
<1>11. VersionInv'
  BY <1>1, Zenon DEF FileInv, VersionInv
<1>12. FilesInv'
  <2>1. InOrder(data'[f], mem') /\ synced'[f] <= Len(data'[f])
    <3>1. mem' = mem /\ synced'[f] = 0 /\ data'[f] = Known
      BY <1>1, <1>8, <1>9, Zenon
    <3> QED  BY <1>6, <1>9, <3>1
  <2>2. InOrder(data'[dir[DB]], mem') /\ synced'[dir[DB]] <= Len(data'[dir[DB]])
    BY <1>1, <1>8, FileFacts, Zenon
  <2> QED  BY <1>1, <2>1, <2>2, Zenon DEF FilesInv, f
<1>13. Covers(data'[dir'[DB]], synced'[dir'[DB]], promised') /\ \A t \in Seconds : dir'[t] # dir'[DB]
  BY <1>1, <1>8 DEF FileInv
<1>14. PhaseInv'
  <2>1. FrameInv'
    BY <1>1, <1>3, <1>4, <1>6, <1>8 DEF FrameInv, f
  <2>2. Len(calls') = 2 => calls'[1].at = "backup" /\ ~ count'
    BY <1>1, <1>3, Zenon DEF FileInv, PhaseInv
  <2> QED  BY <1>1, <1>2, <1>3, <2>1, <2>2 DEF PhaseInv, f
<1> QED  BY <1>10, <1>11, <1>12, <1>13, <1>14 DEF FileInv

(* The new file is flushed; if the time has come again, a second           *)
(* replacement starts inside the first.                                    *)
LEMMA CommitNewStep ==
    ASSUME FileInv, Reliable, CommitNew
    PROVE  FileInv'
<1> DEFINE f == db_file
<1>1. /\ calls # << >> /\ Top.at = "commit"
      /\ synced' = [synced EXCEPT ![f] = Len(data[f])]
      /\ UNCHANGED <<mem, written, promised, data, dir, db_file, lease_file_is_corrupt,
                     counting, caller>>
  BY Zenon DEF CommitNew, At, Flush
<1>2. /\ calls \in Seq(Frame) /\ Len(calls) <= 2 /\ Len(calls) \in {1, 2}
      /\ Top \in Frame /\ Top.name \in Seconds /\ FrameInv
      /\ f # None /\ caller # Idle
      /\ Len(calls) = 2 => calls[1].at = "backup" /\ ~ count
  BY <1>1, InnerFacts, Zenon
<1>3. f = dir[Top.name] /\ f # dir[DB] /\ Covers(data[f], Len(data[f]), mem)
  BY <1>1, <1>2, Zenon DEF FrameInv, FileInv
<1>4. /\ f \in Inodes /\ dir[DB] \in Inodes /\ synced \in [Inodes -> Nat]
      /\ Len(data[f]) \in Nat /\ InOrder(data[f], mem)
  BY <1>2, FileFacts, Versions, Zenon
<1>5. synced' \in [Inodes -> Nat] /\ synced'[f] = Len(data[f]) /\ synced'[dir[DB]] = synced[dir[DB]]
  BY <1>1, <1>3, <1>4, Zenon
<1> HIDE DEF f
<1>6. /\ calls' \in Seq(Frame) /\ calls' # << >> /\ Len(calls') <= 2 /\ Top'.name = Top.name
      /\ \/ Top'.at = "backup"
         \/ Top'.at = "open" /\ Len(calls') = 2
      /\ Len(calls') = 2 => calls'[1].at = "backup" /\ ~ count'
      /\ count' \in BOOLEAN /\ due' \in BOOLEAN
  <2>1. CASE RewriteNow
    <3>1. PICK t \in Seconds :
              calls' = Below \o <<[Top EXCEPT !.at = "backup"],
                                         [at |-> "open", name |-> t,
                                          db_validity |-> lease_file_is_corrupt]>>
      BY <2>1, Zenon DEF CommitNew
    <3>2. Len(calls) = 1 /\ count' = FALSE /\ due' = FALSE
      BY <1>2, <2>1 DEF CommitNew, RewriteNow
    <3> DEFINE c == [Top EXCEPT !.at = "backup"]
               d == [at |-> "open", name |-> t, db_validity |-> lease_file_is_corrupt]
    <3>3. c \in Frame /\ d \in Frame /\ c.at = "backup" /\ d.at = "open" /\ d.name = t
      BY <1>2, Zenon DEF FileInv, TypeOK, Frame
    <3> HIDE DEF c, d
    <3>4. calls' = Below \o <<c, d>>
      BY <3>1 DEF c, d
    <3>5. Below \in Seq(Frame) /\ Len(Below) = 0
      BY <1>1, <1>2, <3>2, Activations
    <3>6. Below = << >>
      BY <3>5, EmptySeq, Zenon
    <3>7. calls' = <<c, d>>
      BY <3>3, <3>4, <3>6
    <3>8. /\ calls' \in Seq(Frame) /\ Len(calls') = 2 /\ Len(calls') <= 2
          /\ calls'[1] = c /\ calls'[2] = d
      BY <3>3, <3>7
    <3>9. Top' = d /\ calls' # << >>
      BY <3>7, <3>8, Zenon DEF Top
    <3>10. t = Top.name
      BY <1>2, OneName, Zenon
    <3>11. Top'.name = Top.name /\ Top'.at = "open" /\ calls'[1].at = "backup"
      BY <3>3, <3>8, <3>9, <3>10
    <3> QED  BY <3>2, <3>8, <3>9, <3>11, Zenon
  <2>2. CASE ~ RewriteNow
    <3>1. Proceed("backup") /\ UNCHANGED <<count, due>>
      BY <2>2, Zenon DEF CommitNew
    <3>2. /\ calls' \in Seq(Frame) /\ Len(calls') = Len(calls) /\ calls' # << >>
          /\ Top'.at = "backup" /\ Top'.name = Top.name
          /\ Len(calls) = 2 => calls'[1] = calls[1]
      BY Zenon, <1>1, <1>2, <3>1, Proceeded
    <3>3. count \in BOOLEAN /\ due \in BOOLEAN
      BY Zenon DEF FileInv, TypeOK
    <3> QED  BY <1>2, <3>1, <3>2, <3>3
  <2> QED  BY <2>1, <2>2, Zenon
<1>7. TypeOK'
  BY <1>1, <1>5, <1>6, Zenon DEF FileInv, TypeOK
<1>8. VersionInv'
  BY <1>1, Zenon DEF FileInv, VersionInv
<1>9. FilesInv'
  <2>1. InOrder(data'[f], mem') /\ synced'[f] <= Len(data'[f])
    BY <1>1, <1>4, <1>5
  <2>2. InOrder(data'[dir[DB]], mem') /\ synced'[dir[DB]] <= Len(data'[dir[DB]])
    BY <1>1, <1>5, FileFacts, Zenon
  <2> QED  BY <1>1, <2>1, <2>2, Zenon DEF FilesInv, f
<1>10. Covers(data'[dir'[DB]], synced'[dir'[DB]], promised') /\ \A t \in Seconds : dir'[t] # dir'[DB]
  BY <1>1, <1>5, Zenon DEF FileInv
<1>11. PhaseInv'
  <2>1. Replaceable(Top.name)'
    BY <1>1, <1>3, <1>5, <1>6 DEF Replaceable, f
  <2>2. FrameInv'
    <3>1. CASE Top'.at = "backup"
      BY <2>1, <3>1 DEF FrameInv
    <3>2. CASE Top'.at = "open" /\ Len(calls') = 2
      <4>1. Len(calls') # 1
        BY <3>2
      <4> QED  BY <2>1, <3>2, <4>1 DEF FrameInv
    <3> QED  BY <1>6, <3>1, <3>2
  <2> QED  BY <1>1, <1>2, <1>6, <2>2 DEF PhaseInv, f
<1> QED  BY <1>7, <1>8, <1>9, <1>10, <1>11 DEF FileInv

(* The steps on the backup: neither the database nor the new file has its  *)
(* name.                                                                   *)
LEMMA BackupStep ==
    ASSUME FileInv, NEW p \in {"link", "rename"}, NEW b \in Inodes \cup {None},
           calls # << >>, Top.at \in {"backup", "link"}, Proceed(p),
           dir' = [dir EXCEPT ![BACKUP] = b],
           UNCHANGED <<mem, written, promised, data, synced, db_file, lease_file_is_corrupt,
                       counting, count, due, caller>>
    PROVE  FileInv'
<1>1. /\ calls \in Seq(Frame) /\ Len(calls) <= 2 /\ Top.name \in Seconds /\ Top.name \in Names
      /\ FrameInv /\ db_file # None /\ caller # Idle
  BY InnerFacts, Zenon
<1>2. /\ calls' \in Seq(Frame) /\ Len(calls') = Len(calls) /\ calls' # << >>
      /\ Top'.at = p /\ Top'.name = Top.name
      /\ Len(calls) = 2 => calls'[1] = calls[1]
  BY <1>1, Proceeded, Zenon
<1>3. /\ dir' \in [Names -> Inodes \cup {None}] /\ dir'[DB] = dir[DB]
      /\ \A t \in Seconds : dir'[t] = dir[t]
  BY FileFacts, Zenon DEF Names
<1>4. TypeOK'
  BY <1>1, <1>2, <1>3 DEF FileInv, TypeOK
<1>5. VersionInv'
  BY Zenon DEF FileInv, VersionInv
<1>6. FilesInv'
  BY <1>3, Zenon DEF FileInv, FilesInv
<1>7. Covers(data'[dir'[DB]], synced'[dir'[DB]], promised') /\ \A t \in Seconds : dir'[t] # dir'[DB]
  BY <1>3, Zenon DEF FileInv
<1>8. PhaseInv'
  <2>1. Replaceable(Top.name)
    BY <1>1, Zenon DEF FrameInv
  <2>2. Replaceable(Top.name)'
    BY <1>1, <1>2, <1>3, <2>1, Zenon DEF Replaceable
  <2>3. FrameInv'
    BY <1>2, <2>2, Zenon DEF FrameInv
  <2>4. Len(calls') = 2 => calls'[1].at = "backup" /\ ~ count'
    BY <1>2 DEF FileInv, PhaseInv
  <2> QED  BY <1>1, <1>2, <2>3, <2>4 DEF PhaseInv
<1> QED  BY <1>4, <1>5, <1>6, <1>7, <1>8, Zenon DEF FileInv

LEMMA UnlinkBackupStep ==
    ASSUME FileInv, UnlinkBackup
    PROVE  FileInv'
<1>1. /\ calls # << >> /\ Top.at = "backup" /\ Proceed("link")
      /\ dir' = [dir EXCEPT ![BACKUP] = None]
      /\ UNCHANGED <<mem, written, promised, data, synced, db_file, lease_file_is_corrupt,
                     counting, count, due, caller>>
  BY DEF UnlinkBackup, At, flags
<1> QED  BY <1>1, BackupStep, Zenon

LEMMA LinkBackupStep ==
    ASSUME FileInv, LinkBackup
    PROVE  FileInv'
<1>1. /\ calls # << >> /\ Top.at = "link" /\ Proceed("rename")
      /\ dir' = [dir EXCEPT ![BACKUP] = dir[DB]]
      /\ UNCHANGED <<mem, written, promised, data, synced, db_file, lease_file_is_corrupt,
                     counting, count, due, caller>>
  BY Zenon DEF LinkBackup, At, flags
<1>2. dir[DB] \in Inodes \cup {None}
  BY FileFacts
<1> QED  BY <1>1, <1>2, BackupStep, Zenon

(* A file that has every lease as memory has it has all that was written   *)
(* and promised.                                                           *)
LEMMA CompleteFile ==
    ASSUME FileInv, db_file # None, Covers(data[db_file], synced[db_file], mem)
    PROVE  /\ Covers(data[db_file], synced[db_file], promised)
           /\ Covers(data[db_file], Len(data[db_file]), written)
<1> DEFINE f == db_file
           j == synced[f]
           k == Len(data[f])
<1>1. /\ f \in Inodes /\ j \in Nat /\ j <= k /\ k \in Nat
      /\ mem \in [Leases -> Nat] /\ written \in [Leases -> Nat] /\ promised \in [Leases -> Nat]
  BY FileFacts, Versions, Zenon
<1>2. \A i \in 1 .. j : data[f][i].version \in Nat
  BY <1>1, Versions
<1>3. \A l \in Leases : written[l] <= mem[l] /\ promised[l] <= mem[l]
  BY <1>1 DEF FileInv, VersionInv
<1>4. \A i \in 1 .. j : data[f][i] = data[f][i]
  BY Zenon
<1>5. j <= j
  BY <1>1
<1>6. Covers(data[f], j, mem)
  BY Zenon
<1> HIDE DEF j, k, f
<1>7. Covers(data[f], j, promised)
  BY <1>1, <1>2, <1>3, <1>4, <1>5, <1>6, CoversMore, Zenon
<1>8. Covers(data[f], k, written)
  BY <1>1, <1>2, <1>3, <1>4, <1>6, CoversMore, Zenon
<1> QED  BY <1>7, <1>8, Zenon DEF f, j, k

(* The new file becomes the database.                                      *)
LEMMA RenameStep ==
    ASSUME FileInv, Reliable, Rename
    PROVE  FileInv'
<1>1. /\ calls # << >> /\ Top.at = "rename" /\ dir[Top.name] # None
      /\ dir' = [dir EXCEPT ![DB] = dir[Top.name], ![Top.name] = None]
      /\ counting' = TRUE /\ Return(TRUE)
      /\ UNCHANGED <<mem, written, promised, data, synced, db_file, lease_file_is_corrupt,
                     count, due>>
  BY Zenon DEF Rename, At
<1>2. Top.name \in Seconds /\ Top.name \in Names /\ FrameInv /\ db_file # None
  BY <1>1, InnerFacts
<1>3. db_file = dir[Top.name] /\ Covers(data[db_file], synced[db_file], mem)
  BY <1>1, <1>2 DEF FrameInv, Replaceable
<1>4. /\ dir' \in [Names -> Inodes \cup {None}] /\ dir'[DB] = db_file /\ dir'[Top.name] = None
  BY <1>1, <1>2, <1>3, FileFacts, Zenon
<1>5. /\ Covers(data[db_file], synced[db_file], promised)
      /\ Covers(data[db_file], Len(data[db_file]), written)
  BY <1>2, <1>3, CompleteFile, Zenon
<1>6. PhaseInv' /\ calls' \in Seq(Frame) /\ Len(calls') <= 2 /\ caller' \in {Idle, caller}
  <2>1. Attached'
    BY <1>1, <1>4, <1>5, Zenon DEF Attached
  <2>2. /\ Covers(data'[db_file], synced'[db_file], mem')
        /\ db_file = dir'[Top.name] \/ (dir'[Top.name] = None /\ db_file = dir'[DB])
    BY <1>1, <1>3, <1>4, Zenon
  <2> QED  BY <1>1, <2>1, <2>2, ReturnPhase, Zenon
<1>7. TypeOK'
  BY <1>1, <1>2, <1>4, <1>6, Zenon DEF FileInv, TypeOK
<1>8. VersionInv'
  BY <1>1, Zenon DEF FileInv, VersionInv
<1>9. FilesInv'
  BY <1>1, <1>2, <1>4, FileFacts, Zenon DEF FilesInv
<1>10. Covers(data'[dir'[DB]], synced'[dir'[DB]], promised')
  BY <1>1, <1>4, <1>5, Zenon
<1>11. \A t \in Seconds : dir'[t] # dir'[DB]
  <2>1. \A t \in Seconds : t = Top.name
    BY <1>2, OneName, Zenon
  <2> QED  BY <1>2, <1>4, <2>1, Zenon
<1> QED  BY <1>6, <1>7, <1>8, <1>9, <1>10, <1>11, Zenon DEF FileInv

(* rename fails because an activation inside this one has made the file of *)
(* that name the database.                                                 *)
LEMMA RenameFailsStep ==
    ASSUME FileInv, Reliable, RenameFails
    PROVE  FileInv'
<1>1. /\ calls # << >> /\ Top.at = "rename" /\ dir[Top.name] = None
      /\ dir' = [dir EXCEPT ![Top.name] = None] /\ Return(FALSE)
      /\ lease_file_is_corrupt' = Top.db_validity
      /\ UNCHANGED <<mem, written, promised, data, synced, db_file, counting, count, due>>
  BY Zenon DEF RenameFails, At, Fail, Reliable
<1>2. Top \in Frame /\ Top.name \in Names /\ FrameInv /\ db_file # None
  BY <1>1, InnerFacts
<1>3. db_file = dir[DB] /\ Covers(data[db_file], synced[db_file], mem)
  BY <1>1, <1>2, Zenon DEF FrameInv, Replaceable
<1>4. dir' = dir
  BY <1>1, <1>2, FileFacts, Zenon
<1>5. Covers(data[db_file], Len(data[db_file]), written)
  BY <1>2, <1>3, CompleteFile, Zenon
<1>6. PhaseInv' /\ calls' \in Seq(Frame) /\ Len(calls') <= 2 /\ caller' \in {Idle, caller}
  <2>1. Attached'
    BY <1>1, <1>3, <1>4, <1>5, Zenon DEF Attached
  <2>2. /\ Covers(data'[db_file], synced'[db_file], mem')
        /\ db_file = dir'[Top.name] \/ (dir'[Top.name] = None /\ db_file = dir'[DB])
    BY <1>1, <1>3, <1>4
  <2> QED  BY <1>1, <2>1, <2>2, ReturnPhase, Zenon
<1>7. TypeOK'
  <2>1. Top.db_validity \in BOOLEAN
    BY <1>2, Zenon DEF Frame
  <2> QED  BY <1>1, <1>4, <1>6, <2>1, Zenon DEF FileInv, TypeOK
<1>8. VersionInv' /\ FilesInv'
  BY <1>1, <1>4, Zenon DEF FileInv, VersionInv, FilesInv
<1>9. Covers(data'[dir'[DB]], synced'[dir'[DB]], promised') /\ \A t \in Seconds : dir'[t] # dir'[DB]
  BY <1>1, <1>4, Zenon DEF FileInv
<1> QED  BY <1>6, <1>7, <1>8, <1>9, Zenon DEF FileInv

(* An hour passes.                                                         *)
LEMMA HourStep ==
    ASSUME FileInv, Hour
    PROVE  FileInv'
<1>1. /\ due' = TRUE
      /\ UNCHANGED <<mem, written, promised, data, synced, dir, db_file, lease_file_is_corrupt,
                     counting, count, caller, calls>>
  BY Zenon DEF Hour, disk
<1>2. TypeOK'
  BY <1>1, Zenon DEF FileInv, TypeOK
<1>3. VersionInv' /\ FilesInv'
  BY <1>1, Zenon DEF FileInv, VersionInv, FilesInv
<1>4. PhaseInv'
  BY <1>1, Zenon DEF FileInv, PhaseInv, FrameInv, Replaceable, Attached, Top
<1>5. Covers(data'[dir'[DB]], synced'[dir'[DB]], promised') /\ \A t \in Seconds : dir'[t] # dir'[DB]
  BY <1>1, Zenon DEF FileInv
<1> QED  BY <1>2, <1>3, <1>4, <1>5 DEF FileInv

(* A file that is not torn loses records from its end, none of those that  *)
(* were synced.                                                            *)
LEMMA SurvivorsAre ==
    ASSUME FileInv, Reliable, NEW s \in Survivors(dir[DB])
    PROVE  /\ s \in Seq(Record) /\ InOrder(s, mem)
           /\ Len(s) \in Nat /\ synced[dir[DB]] \in 0 .. Len(s)
           /\ Covers(s, synced[dir[DB]], promised)
           /\ Covers(s, Len(s), promised)
<1> DEFINE f == dir[DB]
           j == synced[f]
           d == data[f]
<1>1. /\ f \in Inodes /\ d \in Seq(Record) /\ InOrder(d, mem) /\ Len(d) \in Nat
      /\ j \in Nat /\ j <= Len(d) /\ promised \in [Leases -> Nat]
      /\ \A i \in 1 .. Len(d) : d[i].version \in Nat
  BY FileFacts, Versions, Zenon
<1>2. Covers(d, j, promised)
  BY Zenon DEF FileInv
<1>3. PICK k \in j .. Len(d) : s = SubSeq(d, 1, k)
  BY Zenon DEF Survivors, Reliable
<1> HIDE DEF f, j, d
<1>4. k \in 0 .. Len(d) /\ k \in Nat /\ j <= k
  BY <1>1
<1>5. s \in Seq(Record) /\ Len(s) = k /\ InOrder(s, mem) /\ \A i \in 1 .. k : s[i] = d[i]
  BY <1>1, <1>3, <1>4, PrefixKeepsOrder, Zenon
<1>6. /\ \A i \in 1 .. j : s[i] = d[i] /\ d[i].version \in Nat
      /\ j <= j /\ \A l \in Leases : promised[l] <= promised[l]
  BY <1>1, <1>4, <1>5
<1>7. Covers(s, j, promised)
  BY <1>1, <1>2, <1>6, CoversMore, Zenon
<1>8. Covers(s, k, promised)
  BY <1>1, <1>2, <1>4, <1>6, CoversMore, Zenon
<1>9. Len(s) \in Nat /\ j \in 0 .. Len(s) /\ Covers(s, Len(s), promised)
  BY <1>1, <1>4, <1>5, <1>8
<1> QED  BY <1>5, <1>7, <1>9, Zenon DEF f, j

(* The system crashes.                                                     *)
LEMMA CrashStep ==
    ASSUME FileInv, Reliable, Crash
    PROVE  FileInv'
<1> DEFINE f == dir[DB]
<1>1. PICK s \in Survivors(f) : /\ data' = [data EXCEPT ![f] = s]
                                /\ synced' = [synced EXCEPT ![f] = Len(s)]
  BY Zenon DEF Crash
<1>2. /\ db_file' = None /\ caller' = Idle /\ calls' = << >>
      /\ UNCHANGED <<mem, written, promised, dir, lease_file_is_corrupt, counting, count, due>>
  BY Zenon DEF Crash, flags
<1>3. s \in Seq(Record) /\ InOrder(s, mem) /\ Len(s) \in Nat /\ Covers(s, Len(s), promised)
  BY SurvivorsAre
<1>4. f \in Inodes /\ data \in [Inodes -> Seq(Record)] /\ synced \in [Inodes -> Nat]
  BY FileFacts
<1>5. /\ data' \in [Inodes -> Seq(Record)] /\ synced' \in [Inodes -> Nat]
      /\ data'[f] = s /\ synced'[f] = Len(s)
  BY <1>1, <1>3, <1>4
<1>6. TypeOK'
  <2>1. calls' \in Seq(Frame) /\ Len(calls') <= 2
    BY <1>2
  <2> QED  BY <1>2, <1>5, <2>1, Zenon DEF FileInv, TypeOK
<1>7. VersionInv'
  BY <1>2, Zenon DEF FileInv, VersionInv
<1>8. FilesInv'
  BY <1>2, <1>3, <1>5 DEF FilesInv
<1>9. Covers(data'[dir'[DB]], synced'[dir'[DB]], promised') /\ \A t \in Seconds : dir'[t] # dir'[DB]
  BY <1>2, <1>3, <1>5, Zenon DEF FileInv
<1>10. PhaseInv'
  <2>1. Len(calls') = 0
    BY <1>2
  <2> QED  BY <1>2, <2>1 DEF PhaseInv
<1> QED  BY <1>6, <1>7, <1>8, <1>9, <1>10 DEF FileInv

(* What a start reads lies between what was promised and what memory had.  *)
LEMMA StartReads ==
    ASSUME FileInv, NEW l \in Leases
    PROVE  /\ Read(data[dir[DB]], l) \in 0 .. mem[l]
           /\ promised[l] <= Read(data[dir[DB]], l)
<1> DEFINE s == data[dir[DB]]
           k == synced[dir[DB]]
<1>1. /\ s \in Seq(Record) /\ InOrder(s, mem) /\ k \in 0 .. Len(s)
      /\ mem \in [Leases -> Nat] /\ promised \in [Leases -> Nat] /\ Covers(s, k, promised)
  <2>1. dir[DB] \in Inodes /\ k \in Nat /\ k <= Len(s) /\ mem \in [Leases -> Nat]
        /\ promised \in [Leases -> Nat] /\ InOrder(s, mem)
    BY FileFacts
  <2>2. s \in Seq(Record) /\ Len(s) \in Nat
    BY <2>1, Versions
  <2>3. Covers(s, k, promised)
    BY DEF FileInv
  <2> QED  BY <2>1, <2>2, <2>3
<1> HIDE DEF s, k
<1>2. Read(s, l) \in 0 .. mem[l]
  BY <1>1, ReadBounds
<1>3. Read(s, l) >= promised[l]
  BY <1>1, ReadCovers
<1>4. promised[l] <= Read(s, l)
  BY <1>1, <1>2, <1>3
<1> QED  BY <1>2, <1>4 DEF s

(* The server starts: it reads the database and replaces it.               *)
LEMMA StartupStep ==
    ASSUME FileInv, db_startup
    PROVE  FileInv'
<1> DEFINE f == dir[DB]
           s == data[f]
<1>1. /\ db_file = None /\ db_file' = f
      /\ mem' = [l \in Leases |-> Read(s, l)] /\ written' = mem'
      /\ lease_file_is_corrupt' = FALSE /\ counting' = FALSE /\ count' = FALSE /\ due' = FALSE
      /\ caller' = [op |-> "startup"]
      /\ UNCHANGED <<promised, data, synced, dir>>
  BY DEF db_startup, disk
<1>2. /\ calls' \in Seq(Frame) /\ Len(calls') = 1 /\ calls' # << >> /\ Top'.at = "open"
  <2>1. PICK t \in Seconds : calls' = <<[at |-> "open", name |-> t, db_validity |-> FALSE]>>
    BY Zenon DEF db_startup
  <2> QED  BY Zenon, <2>1, Entered
<1>3. /\ f \in Inodes /\ f # None /\ s \in Seq(Record) /\ InOrder(s, mem) /\ Len(s) \in Nat
      /\ mem \in [Leases -> 0 .. MaxVersion] /\ mem \in [Leases -> Nat]
      /\ promised \in [Leases -> Nat] /\ synced[f] <= Len(s)
  BY Zenon, FileFacts, Versions DEF FileInv, TypeOK
<1>4. \A l \in Leases : mem'[l] = Read(s, l) /\ Read(s, l) \in 0 .. mem[l] /\ promised[l] <= mem'[l]
  BY Zenon, <1>1, StartReads
<1>5. mem' \in [Leases -> 0 .. MaxVersion] /\ mem' \in [Leases -> Nat]
  <2>1. \A l \in Leases : mem[l] \in 0 .. MaxVersion /\ Read(s, l) \in 0 .. mem[l]
    BY <1>3, <1>4
  <2> HIDE DEF s
  <2>2. \A l \in Leases : Read(s, l) \in 0 .. MaxVersion
    BY <2>1, LeaseFileAssumption
  <2> QED  BY <1>1, <2>2, LeaseFileAssumption
<1> HIDE DEF f, s
<1>6. InOrder(s, mem')
  <2>1. \A i \in DOMAIN s : s[i].lease \in Leases /\ s[i].version <= mem'[s[i].lease]
    BY <1>3, <1>4, ReadBounds, RecordsOf
  <2> QED  BY <1>3, <2>1, ZenonT(30) DEF InOrder
<1>7. Covers(s, Len(s), mem')
  <2> SUFFICES ASSUME NEW l \in Leases, mem'[l] > 0
               PROVE  \E i \in 1 .. Len(s) : s[i].lease = l /\ s[i].version >= mem'[l]
    BY DEF Covers
  <2>1. \A i \in DOMAIN s : ~ s[i].torn
    BY <1>3, Zenon DEF InOrder
  <2>2. PICK i \in DOMAIN s : s[i].lease = l /\ Read(s, l) = s[i].version
    BY <1>3, <1>4, <2>1, ReadLast
  <2>3. DOMAIN s = 1 .. Len(s) /\ s[i].version \in Nat
    BY <1>3, RecordsOf
  <2> QED  BY <1>4, <2>2, <2>3
<1>8. TypeOK'
  <2>1. Len(calls') <= 2
    BY <1>2
  <2> QED  BY <1>1, <1>2, <1>3, <1>5, <2>1, Zenon DEF FileInv, TypeOK
<1>9. VersionInv'
  BY <1>1, <1>4, <1>5 DEF VersionInv
<1>10. FilesInv'
  BY <1>1, <1>3, <1>6 DEF FilesInv, f, s
<1>11. Covers(data'[dir'[DB]], synced'[dir'[DB]], promised') /\ \A t \in Seconds : dir'[t] # dir'[DB]
  BY <1>1 DEF FileInv
<1>12. PhaseInv'
  <2>1. Attached'
    BY <1>1, <1>7 DEF Attached, f, s
  <2>2. FrameInv'
    BY <1>2, <2>1 DEF FrameInv
  <2>3. caller' # Idle
    BY <1>1 DEF Idle
  <2> QED  BY <1>1, <1>2, <1>3, <2>2, <2>3 DEF PhaseInv
<1> QED  BY <1>8, <1>9, <1>10, <1>11, <1>12 DEF FileInv

-----------------------------------------------------------------------------
(* Every step keeps the invariant.                                         *)
LEMMA NextStep ==
    ASSUME FileInv, Reliable, [Next]_vars
    PROVE  FileInv'
<1>1. CASE \E l \in Leases : write_lease(l)
  BY <1>1, WriteLeaseStep
<1>2. CASE WriteRecord
  BY <1>2, WriteRecordStep
<1>3. CASE commit_leases
  BY <1>3, CommitStep
<1>4. CASE new_lease_file
  <2>1. CASE OpenNew
    BY <2>1, OpenNewStep
  <2>2. CASE OpenFails
    BY <2>2, OpenFailsStep
  <2>3. CASE WriteLeases
    BY <2>3, WriteLeasesStep
  <2>4. CASE CommitNew
    BY <2>4, CommitNewStep
  <2>5. CASE RewriteFails \/ BackupFails
    BY <2>5 DEF RewriteFails, BackupFails, Reliable
  <2>6. CASE UnlinkBackup
    BY <2>6, UnlinkBackupStep
  <2>7. CASE LinkBackup
    BY <2>7, LinkBackupStep
  <2>8. CASE Rename
    BY <2>8, RenameStep
  <2>9. CASE RenameFails
    BY <2>9, RenameFailsStep
  <2> QED
    BY <1>4, <2>1, <2>2, <2>3, <2>4, <2>5, <2>6, <2>7, <2>8, <2>9 DEF new_lease_file
<1>5. CASE Hour
  BY <1>5, HourStep
<1>6. CASE Crash
  BY <1>6, CrashStep
<1>7. CASE db_startup
  BY <1>7, StartupStep
<1>8. CASE UNCHANGED vars
  <2> USE <1>8 DEF vars, disk, flags
  <2>1. TypeOK'
    BY Zenon DEF FileInv, TypeOK
  <2>2. VersionInv'
    BY Zenon DEF FileInv, VersionInv
  <2>3. FilesInv'
    BY Zenon DEF FileInv, FilesInv, InOrder
  <2>4. Covers(data'[dir'[DB]], synced'[dir'[DB]], promised') /\ \A t \in Seconds : dir'[t] # dir'[DB]
    BY Zenon DEF FileInv
  <2>5. Attached' <=> Attached
    BY Zenon DEF Attached, Covers
  <2>6. ASSUME FrameInv  PROVE FrameInv'
    BY <2>5, <2>6 DEF FrameInv, Replaceable, Covers, Top
  <2>7. PhaseInv'
    BY <2>5, <2>6, Zenon DEF FileInv, PhaseInv
  <2> QED  BY <2>1, <2>2, <2>3, <2>4, <2>7, Zenon DEF FileInv
<1> QED  BY <1>1, <1>2, <1>3, <1>4, <1>5, <1>6, <1>7, <1>8 DEF Next

(* On a reliable disk the invariant of the lease file always holds, types  *)
(* included: whatever new_lease_file is doing, the database has every      *)
(* promise on disk, and db_file is the database or a file that replaces it *)
(* only when it is complete.                                               *)
THEOREM FileInvariant ==
    ASSUME Reliable
    PROVE  Spec => []FileInv
<1>1. Init => FileInv
  BY InitInv
<1>2. FileInv /\ [Next]_vars => FileInv'
  BY NextStep
<1> QED  BY <1>1, <1>2, PTL DEF Spec

(* A crash at any moment leaves a database from which db_startup reads     *)
(* every lease that commit_leases reported as committed.                   *)
THEOREM CommitsSurvive ==
    ASSUME Reliable
    PROVE  Spec => []CommittedSurvives
<1>1. FileInv => CommittedSurvives
  <2> SUFFICES ASSUME FileInv, NEW s \in Survivors(dir[DB]), NEW l \in Leases
               PROVE  Read(s, l) >= promised[l]
    BY DEF CommittedSurvives
  <2>1. /\ s \in Seq(Record) /\ InOrder(s, mem) /\ synced[dir[DB]] \in 0 .. Len(s)
        /\ Covers(s, synced[dir[DB]], promised)
    BY SurvivorsAre
  <2>2. promised \in [Leases -> Nat]
    BY FileFacts
  <2> QED  BY <2>1, <2>2, ReadCovers
<1> QED  BY <1>1, FileInvariant, PTL

(* Between calls the server appends to the file the next start will read,  *)
(* however many replacements, one inside another or not, came before.      *)
THEOREM WritesReach ==
    ASSUME Reliable
    PROVE  Spec => []WritesReachDatabase
<1>1. FileInv => WritesReachDatabase
  <2> SUFFICES ASSUME FileInv, Serving PROVE db_file = dir[DB]
    BY DEF WritesReachDatabase
  <2>1. db_file # None /\ caller = Idle
    BY DEF Serving
  <2>2. calls = << >>
    BY <2>1 DEF FileInv, PhaseInv
  <2> QED  BY <2>1, <2>2 DEF FileInv, PhaseInv, Attached
<1> QED  BY <1>1, FileInvariant, PTL

(* What each step is to the abstract store.                                *)
LEMMA StoreStep ==
    ASSUME FileInv, FileInv', [Next]_vars
    PROVE  [Store!Next]_<<mem, promised>>
<1>0. mem \in [Leases -> Nat] /\ written \in [Leases -> Nat] /\ promised \in [Leases -> Nat]
  BY FileFacts
<1>1. CASE \E l \in Leases : write_lease(l)
  BY <1>1, Zenon DEF write_lease, Store!Next, Store!Change
<1>2. CASE commit_leases
  <2>1. promised' = written /\ UNCHANGED mem
    BY <1>2 DEF commit_leases
  <2>2. \A l \in Leases : promised'[l] \in promised[l] .. mem[l]
    BY <1>0, <2>1 DEF FileInv, VersionInv
  <2>3. Store!Promise
    BY <1>0, <2>1, <2>2 DEF Store!Promise
  <2> QED  BY <2>3 DEF Store!Next
<1>3. CASE db_startup
  <2>1. mem' = [l \in Leases |-> Read(data[dir[DB]], l)] /\ UNCHANGED promised
    BY <1>3 DEF db_startup
  <2>2. \A l \in Leases : mem'[l] \in Nat /\ mem'[l] \in promised[l] .. mem[l]
    BY <1>0, <2>1, StartReads
  <2>3. mem' \in [Leases -> Nat]
    BY <2>1, <2>2
  <2>4. Store!Recover
    BY <2>1, <2>2, <2>3 DEF Store!Recover
  <2> QED  BY <2>4 DEF Store!Next
<1>4. CASE WriteRecord \/ Hour \/ Crash \/ UNCHANGED vars
  BY <1>4 DEF WriteRecord, Hour, Crash, vars
<1>5. CASE new_lease_file
  BY <1>5, Zenon DEF new_lease_file, OpenNew, OpenFails, WriteLeases, CommitNew, RewriteFails,
              UnlinkBackup, LinkBackup, BackupFails, Rename, RenameFails
<1> QED  BY <1>1, <1>2, <1>3, <1>4, <1>5 DEF Next

(* The lease file implements the abstract store: write_lease changes a     *)
(* lease, commit_leases promises what was written, db_startup comes back   *)
(* with every promise, and no other step, of new_lease_file or a crash,    *)
(* shows.                                                                  *)
THEOREM ImplementsStore ==
    ASSUME Reliable
    PROVE  Spec => StoreSpec
<1>1. Init => Store!Init
  BY DEF Init, Store!Init
<1>2. FileInv /\ FileInv' /\ [Next]_vars => [Store!Next]_<<mem, promised>>
  BY StoreStep
<1> QED  BY <1>1, <1>2, FileInvariant, PTL DEF Spec, StoreSpec, Store!Spec

=============================================================================
